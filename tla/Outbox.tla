------------------------------- MODULE Outbox -------------------------------
(***************************************************************************)
(* The transactional outbox of ParityLab and the durable workers that      *)
(* drain it: the outbox table as the PostgreSQL adapter updates it         *)
(* (postgres/repository.go, ClaimOutbox .. FailOutbox) and the loop of one *)
(* worker process (worker/worker.go, RunOnce and withHeartbeat).           *)
(*                                                                         *)
(* An UPDATE that is a transaction of its own is atomic: PostgreSQL        *)
(* re-evaluates its WHERE clause when it had to wait for the row.  A claim *)
(* is two steps, because it holds the row lock from its SELECT to its      *)
(* COMMIT and may be rolled back.  Clock values are abstracted to the two  *)
(* comparisons the code makes: "locked_at is older than the lease" (stale) *)
(* and "available_at has passed" (due).                                    *)
(***************************************************************************)
EXTENDS Naturals

CONSTANTS
    Worker,          \* worker processes, identified by Config.ID, the lease owner name
    Message,         \* outbox rows; the number is the rank in ORDER BY created_at, id
    Malformed,       \* rows whose payload processStripeWebhook rejects for good
    MaxAttempts,     \* Config.MaxAttempts
    MaxDisruptions,  \* bound: worker crashes and stalls longer than a lease
    None             \* SQL NULL

ASSUME OutboxConstants ==
    /\ Message \subseteq Nat
    /\ Malformed \subseteq Message
    /\ MaxAttempts \in Nat \ {0}
    /\ MaxDisruptions \in Nat
    /\ None \notin Worker
    /\ None \notin Message

VARIABLES
    \* the outbox table
    status,       \* absent, then pending until published_at or failed_at is set
    lockedBy,     \* locked_by
    stale,        \* locked_at < now() - lease
    due,          \* available_at <= now()
    attempts,     \* attempts
    \* the database state the jobs write
    recorded,     \* the job's own transaction (evidence, assertion) has committed
    \* the worker processes
    pc,           \* where RunOnce stands
    job,          \* message.ID of the claim RunOnce works on
    seen,         \* message.Attempts as the claim returned it
    hb,           \* the heartbeat goroutine of withHeartbeat
    result,       \* operationErr, once operation has returned
    \* the environment
    disruptions   \* crashes and stalls so far

table == <<status, lockedBy, stale, due, attempts>>
process == <<pc, job, seen, hb, result>>
vars == <<table, recorded, process, disruptions>>

Operating == {"processing", "applied"}
Busy == Operating \cup {"joining"}

(* A row that is not pending carries no lock: the statements that publish  *)
(* or fail it also clear locked_by.                                        *)
TypeOK ==
    /\ status \in [Message -> {"absent", "pending", "published", "failed"}]
    /\ lockedBy \in [Message -> Worker \cup {None}]
    /\ stale \in [Message -> BOOLEAN]
    /\ due \in [Message -> BOOLEAN]
    /\ attempts \in [Message -> Nat]
    /\ recorded \in [Message -> BOOLEAN]
    /\ pc \in [Worker -> Busy \cup {"idle", "claiming", "down"}]
    /\ job \in [Worker -> Message \cup {None}]
    /\ seen \in [Worker -> Nat]
    /\ hb \in [Worker -> {"waiting", "sent", "stopped", "lost"}]
    /\ result \in [Worker -> {"ok", "transient", "permanent"}]
    /\ disruptions \in 0..MaxDisruptions
    /\ \A m \in Message : status[m] # "pending" => lockedBy[m] = None

Init ==
    /\ status = [m \in Message |-> "absent"]
    /\ lockedBy = [m \in Message |-> None]
    /\ stale = [m \in Message |-> FALSE]
    /\ due = [m \in Message |-> TRUE]
    /\ attempts = [m \in Message |-> 0]
    /\ recorded = [m \in Message |-> FALSE]
    /\ pc = [w \in Worker |-> "idle"]
    /\ job = [w \in Worker |-> None]
    /\ seen = [w \in Worker |-> 0]
    /\ hb = [w \in Worker |-> "stopped"]
    /\ result = [w \in Worker |-> "transient"]
    /\ disruptions = 0

-----------------------------------------------------------------------------
(* Producers.  createRun and MarkWebhookSeen insert the row in the         *)
(* transaction of the run or receipt it belongs to; created_at is the      *)
(* start of that transaction, so rows may appear out of rank.              *)

Enqueue(m) ==
    /\ status[m] = "absent"
    /\ status' = [status EXCEPT ![m] = "pending"]
    /\ UNCHANGED <<lockedBy, stale, due, attempts, recorded, process, disruptions>>

-----------------------------------------------------------------------------
(* ClaimOutbox.                                                            *)

ClaimableWithoutRecovery(m) ==
    status[m] = "pending" /\ due[m] /\ lockedBy[m] = None

\* The WHERE clause of the claim: open, due, and free or with an expired lease.
Claimable(m) ==
    status[m] = "pending" /\ due[m] /\ (lockedBy[m] = None \/ stale[m])

\* A claim has locked the row and has not committed.
ClaimLocked(m) == \E v \in Worker : pc[v] = "claiming" /\ job[v] = m

\* The claim's transaction holds the row; Attempts is the row's count and one more.
Lock(w, m, count) ==
    /\ pc[w] = "idle"
    /\ pc' = [pc EXCEPT ![w] = "claiming"]
    /\ job' = [job EXCEPT ![w] = m]
    /\ seen' = [seen EXCEPT ![w] = count]
    /\ UNCHANGED <<table, recorded, hb, result, disruptions>>

SelectWithoutLock(w, m) ==
    /\ Claimable(m)
    /\ \A n \in Message : Claimable(n) => m <= n
    /\ Lock(w, m, attempts[m] + 1)

SelectOldCount(w, m) ==
    /\ Claimable(m) /\ ~ClaimLocked(m)
    /\ \A n \in Message : Claimable(n) /\ n < m => ClaimLocked(n) \/ lockedBy[n] # None
    /\ Lock(w, m, attempts[m])

(* SELECT ... ORDER BY created_at, id FOR UPDATE SKIP LOCKED LIMIT 1.  The  *)
(* oldest row may be passed over: another claim has it locked, or a late    *)
(* statement of its owner does, and either may still be rolled back.        *)
SelectForClaim(w, m) ==
    /\ Claimable(m) /\ ~ClaimLocked(m)
    /\ \A n \in Message : Claimable(n) /\ n < m => ClaimLocked(n) \/ lockedBy[n] # None
    /\ Lock(w, m, attempts[m] + 1)

(* UPDATE and COMMIT; RunOnce then starts the heartbeat goroutine and the   *)
(* operation.  A claim that is rolled back ends Run: Crash.                 *)
CommitClaim(w) ==
    /\ pc[w] = "claiming"
    /\ lockedBy' = [lockedBy EXCEPT ![job[w]] = w]
    /\ stale' = [stale EXCEPT ![job[w]] = FALSE]
    /\ attempts' = [attempts EXCEPT ![job[w]] = @ + 1]
    /\ pc' = [pc EXCEPT ![w] = "processing"]
    /\ hb' = [hb EXCEPT ![w] = "waiting"]
    /\ UNCHANGED <<status, due, recorded, job, seen, result, disruptions>>

OwnsRowByStatus(w, m) == status[m] = "pending"

\* The WHERE clause shared by HeartbeatOutbox, CompleteOutbox, RetryOutbox, FailOutbox.
OwnsRow(w, m) == lockedBy[m] = w /\ status[m] = "pending"

\* The statement finds the row its own, and no claim that it would have to wait for.
Updates(w, m) == OwnsRow(w, m) /\ ~ClaimLocked(m)

-----------------------------------------------------------------------------
(* The heartbeat goroutine of withHeartbeat.                                *)

\* The ticker fires and HeartbeatOutbox is sent.
HeartbeatSend(w) ==
    /\ pc[w] \in Operating
    /\ hb[w] = "waiting"
    /\ hb' = [hb EXCEPT ![w] = "sent"]
    /\ UNCHANGED <<table, recorded, pc, job, seen, result, disruptions>>

\* The statement runs: one row refreshed, or none and the lease is lost (cancel()).
HeartbeatReply(w) ==
    /\ pc[w] \in Busy
    /\ hb[w] = "sent"
    /\ \/ /\ Updates(w, job[w])
          /\ stale' = [stale EXCEPT ![job[w]] = FALSE]
          /\ hb' = [hb EXCEPT ![w] = "waiting"]
       \/ /\ ~OwnsRow(w, job[w])
          /\ hb' = [hb EXCEPT ![w] = "lost"]
          /\ UNCHANGED stale
    /\ UNCHANGED <<status, lockedBy, due, attempts, recorded, pc, job, seen,
                   result, disruptions>>

(* The statement returns an error: the connection failed, or the operation  *)
(* returned and cancel() hit the statement in flight.  The refresh may have *)
(* reached the row or not.                                                  *)
HeartbeatError(w) ==
    /\ pc[w] \in Busy
    /\ hb[w] = "sent"
    /\ hb' = [hb EXCEPT ![w] = "lost"]
    /\ \/ UNCHANGED stale
       \/ /\ Updates(w, job[w])
          /\ stale' = [stale EXCEPT ![job[w]] = FALSE]
    /\ UNCHANGED <<status, lockedBy, due, attempts, recorded, pc, job, seen,
                   result, disruptions>>

\* select takes processCtx.Done(): heartbeatErr <- nil.
HeartbeatStop(w) ==
    /\ pc[w] = "joining"
    /\ hb[w] = "waiting"
    /\ hb' = [hb EXCEPT ![w] = "stopped"]
    /\ UNCHANGED <<table, recorded, pc, job, seen, result, disruptions>>

\* select takes a tick that was also ready: the statement fails on the cancelled context.
HeartbeatAfterCancel(w) ==
    /\ pc[w] = "joining"
    /\ hb[w] = "waiting"
    /\ hb' = [hb EXCEPT ![w] = "lost"]
    /\ UNCHANGED <<table, recorded, pc, job, seen, result, disruptions>>

-----------------------------------------------------------------------------
(* The operation: process(message).  Its database transaction (modelled in  *)
(* detail by module RunEvidence) is idempotent, so that committing it again *)
(* leaves the state as it was.                                              *)

Commit(w) ==
    /\ pc[w] = "processing"
    /\ job[w] \notin Malformed
    /\ recorded' = [recorded EXCEPT ![job[w]] = TRUE]
    /\ pc' = [pc EXCEPT ![w] = "applied"]
    /\ UNCHANGED <<table, job, seen, hb, result, disruptions>>

Return(w, outcome) ==
    /\ pc' = [pc EXCEPT ![w] = "joining"]
    /\ result' = [result EXCEPT ![w] = outcome]
    /\ UNCHANGED <<table, recorded, job, seen, hb, disruptions>>

OperationOk(w) == pc[w] = "applied" /\ Return(w, "ok")

\* A failed read or statement, a cancelled context, or a commit whose answer was lost.
OperationError(w) ==
    pc[w] \in Operating /\ job[w] \notin Malformed /\ Return(w, "transient")

\* permanentJobError: the payload is checked before anything else happens.
OperationReject(w) ==
    pc[w] = "processing" /\ job[w] \in Malformed /\ Return(w, "permanent")

-----------------------------------------------------------------------------
(* RunOnce after withHeartbeat: a heartbeat error replaces the result of    *)
(* the operation, whatever it was.                                          *)

VerdictLostMeansDone(w) == IF hb[w] = "lost" THEN "ok" ELSE result[w]

Verdict(w) == IF hb[w] = "lost" THEN "transient" ELSE result[w]

Joined(w) == pc[w] = "joining" /\ hb[w] \in {"stopped", "lost"}

ExhaustedOneEarly(w) == seen[w] + 1 >= MaxAttempts
ExhaustedOneLate(w) == seen[w] > MaxAttempts

Exhausted(w) == seen[w] >= MaxAttempts

\* RunOnce is over, in the loop of Run or with the process: its locals are gone.
Leave(w, next) ==
    /\ pc' = [pc EXCEPT ![w] = next]
    /\ job' = [job EXCEPT ![w] = None]
    /\ seen' = [seen EXCEPT ![w] = 0]
    /\ hb' = [hb EXCEPT ![w] = "stopped"]
    /\ result' = [result EXCEPT ![w] = "transient"]

CompleteKeepingLock(w) ==
    /\ Joined(w) /\ Verdict(w) = "ok"
    /\ Updates(w, job[w])
    /\ status' = [status EXCEPT ![job[w]] = "published"]
    /\ Leave(w, "idle")
    /\ UNCHANGED <<lockedBy, stale, due, attempts, recorded, disruptions>>

CompleteOutbox(w) ==
    /\ Joined(w) /\ Verdict(w) = "ok"
    /\ Updates(w, job[w])
    /\ status' = [status EXCEPT ![job[w]] = "published"]
    /\ lockedBy' = [lockedBy EXCEPT ![job[w]] = None]
    /\ stale' = [stale EXCEPT ![job[w]] = FALSE]
    /\ Leave(w, "idle")
    /\ UNCHANGED <<due, attempts, recorded, disruptions>>

FailOutbox(w) ==
    /\ Joined(w)
    /\ Verdict(w) = "permanent" \/ (Verdict(w) = "transient" /\ Exhausted(w))
    /\ Updates(w, job[w])
    /\ status' = [status EXCEPT ![job[w]] = "failed"]
    /\ lockedBy' = [lockedBy EXCEPT ![job[w]] = None]
    /\ stale' = [stale EXCEPT ![job[w]] = FALSE]
    /\ Leave(w, "idle")
    /\ UNCHANGED <<due, attempts, recorded, disruptions>>

RetryOutbox(w) ==
    /\ Joined(w)
    /\ Verdict(w) = "transient" /\ ~Exhausted(w)
    /\ Updates(w, job[w])
    /\ lockedBy' = [lockedBy EXCEPT ![job[w]] = None]
    /\ stale' = [stale EXCEPT ![job[w]] = FALSE]
    /\ due' = [due EXCEPT ![job[w]] = FALSE]
    /\ Leave(w, "idle")
    /\ UNCHANGED <<status, attempts, recorded, disruptions>>

\* No row updated: "outbox lease lost" leaves RunOnce, Run and the process.
LeaseLost(w) ==
    /\ Joined(w)
    /\ ~OwnsRow(w, job[w])
    /\ Leave(w, "down")
    /\ UNCHANGED <<table, recorded, disruptions>>

-----------------------------------------------------------------------------
(* Time and failure.                                                        *)

\* The owner is gone or has moved on: nobody refreshes or settles the row.
Abandoned(m) ==
    /\ lockedBy[m] # None
    /\ ~(pc[lockedBy[m]] \in Busy /\ job[lockedBy[m]] = m)

\* Time passes the lease of a row nobody works on any more.
AbandonedLeaseExpires(m) ==
    /\ status[m] = "pending" /\ Abandoned(m) /\ ~stale[m]
    /\ stale' = [stale EXCEPT ![m] = TRUE]
    /\ UNCHANGED <<status, lockedBy, due, attempts, recorded, process, disruptions>>

\* The owner is alive but its heartbeat is late by more than a lease.
Stall(m) ==
    /\ disruptions < MaxDisruptions
    /\ status[m] = "pending" /\ lockedBy[m] # None /\ ~Abandoned(m) /\ ~stale[m]
    /\ stale' = [stale EXCEPT ![m] = TRUE]
    /\ disruptions' = disruptions + 1
    /\ UNCHANGED <<status, lockedBy, due, attempts, recorded, process>>

\* The retry delay passes.
DelayElapses(m) ==
    /\ ~due[m]
    /\ due' = [due EXCEPT ![m] = TRUE]
    /\ UNCHANGED <<status, lockedBy, stale, attempts, recorded, process, disruptions>>

(* The process dies, at any point of RunOnce: killed, told to stop (the     *)
(* settling statement then fails on the cancelled context), or a database   *)
(* error outside the operation, which makes Run return.  A claim that has   *)
(* not committed is rolled back, and its row can be claimed again.          *)
Crash(w) ==
    /\ disruptions < MaxDisruptions
    /\ pc[w] # "down"
    /\ Leave(w, "down")
    /\ disruptions' = disruptions + 1
    /\ UNCHANGED <<table, recorded>>

(* The platform restarts the service (render.yaml), under the same owner    *)
(* name: PARITYLAB_WORKER_ID, or the container's host name and process id.  *)
Restart(w) ==
    /\ pc[w] = "down"
    /\ pc' = [pc EXCEPT ![w] = "idle"]
    /\ UNCHANGED <<table, recorded, job, seen, hb, result, disruptions>>

-----------------------------------------------------------------------------
Operation(w) == Commit(w) \/ OperationOk(w) \/ OperationError(w) \/ OperationReject(w)

Heartbeat(w) ==
    \/ HeartbeatSend(w) \/ HeartbeatReply(w) \/ HeartbeatError(w)
    \/ HeartbeatStop(w) \/ HeartbeatAfterCancel(w)

Settle(w) == CompleteOutbox(w) \/ FailOutbox(w) \/ RetryOutbox(w) \/ LeaseLost(w)

Select(w) == \E m \in Message : SelectForClaim(w, m)

Next ==
    \/ \E m \in Message : Enqueue(m) \/ AbandonedLeaseExpires(m) \/ Stall(m) \/ DelayElapses(m)
    \/ \E w \in Worker : Select(w) \/ CommitClaim(w) \/ Operation(w) \/ Heartbeat(w) \/ Settle(w)
    \/ \E w \in Worker : Crash(w) \/ Restart(w)

Spec == Init /\ [][Next]_vars

(* Clocks advance, operations and statements return (every query carries a  *)
(* context), an idle worker polls again, and a stopped process is restarted *)
(* by its supervisor.  Nothing forces an enqueue, a crash or a stall.       *)
Fairness ==
    /\ \A m \in Message : WF_vars(AbandonedLeaseExpires(m)) /\ WF_vars(DelayElapses(m))
    /\ \A w \in Worker :
         /\ WF_vars(Select(w)) /\ WF_vars(CommitClaim(w)) /\ WF_vars(Operation(w)) /\ WF_vars(Settle(w))
         /\ WF_vars(HeartbeatReply(w) \/ HeartbeatError(w))
         /\ WF_vars(HeartbeatStop(w) \/ HeartbeatAfterCancel(w))
         /\ WF_vars(Restart(w))

FairSpec == Spec /\ Fairness
-----------------------------------------------------------------------------
(* Properties.                                                              *)

(* The owner name is a sound fencing token: when the row still names a      *)
(* worker as its owner, that worker works on the row's latest claim, so the *)
(* attempt count RunOnce compares with MaxAttempts is the row's own.        *)
FencingSound ==
    \A w \in Worker :
        pc[w] \in Busy /\ lockedBy[job[w]] = w => seen[w] = attempts[job[w]]

(* A published row's job really committed: CompleteOutbox never acknowledges*)
(* work that a lost heartbeat, an error or a takeover left undone.          *)
PublishedHasEffect ==
    \A m \in Message : status[m] = "published" => recorded[m]

(* A row is dead-lettered only when its payload is invalid or its attempts  *)
(* are used up, whoever held it when the earlier attempts failed.           *)
DeadLetterJustified ==
    \A m \in Message :
        status[m] = "failed" => m \in Malformed \/ attempts[m] >= MaxAttempts

(* Retries are bounded but for disruptions: each attempt beyond MaxAttempts *)
(* is paid for by one crash or one stall of the worker that held the row.   *)
RetryBudget ==
    \A m \in Message : attempts[m] <= MaxAttempts + disruptions

(* A published or failed row is final, and a pending row is settled or      *)
(* released only by the worker that made its latest claim: a worker that    *)
(* lost its lease cannot complete, fail or reschedule the new owner's work. *)
SettledByLatestClaim(m) ==
    /\ status[m] \in {"published", "failed"} =>
         UNCHANGED <<status[m], lockedBy[m], attempts[m]>>
    /\ status[m] = "pending" /\ lockedBy[m] # None
         /\ (status'[m] # "pending" \/ lockedBy'[m] = None) =>
         \E w \in Worker : /\ pc[w] = "joining" /\ pc'[w] = "idle"
                           /\ job[w] = m /\ seen[w] = attempts[m]

SettledOnceByLatestClaim == [][\A m \in Message : SettledByLatestClaim(m)]_vars

(* Every enqueued row is settled, through crashes, stalls and lost leases.  *)
EventuallySettled ==
    \A m \in Message : status[m] = "pending" ~> status[m] \in {"published", "failed"}

(* The PostgreSQL adapter and the worker that drives it implement the port, *)
(* whatever crashes, stalls, late heartbeats and lost answers come in       *)
(* between: when a claim commits, its row is still open, due and free or    *)
(* expired, although it was looked at in an earlier step, and every         *)
(* settling call is fenced by the owner name.                               *)
Contract == INSTANCE OutboxContract
ImplementsOutboxContract == Contract!Spec

(* What docs/security/THREAT_MODEL.md promises: bounded retries.  A job is  *)
(* attempted at most MaxAttempts times.                                     *)
BoundedRetries ==
    \A m \in Message : attempts[m] <= MaxAttempts
=============================================================================
