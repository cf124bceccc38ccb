---------------------------- MODULE OutboxProofs ----------------------------
(* Proofs that the outbox protocol of module Outbox keeps its safety        *)
(* properties for any workers, rows, attempt limit and number of crashes.   *)
EXTENDS Outbox, TLAPS

-----------------------------------------------------------------------------
(* The inductive invariant.                                                 *)

\* A worker that claims or works does so on a row.
JobNamed == \A w \in Worker : pc[w] \in Busy \cup {"claiming"} => job[w] \in Message

(* What a claim has selected is so until it commits or is rolled back: the  *)
(* row can be claimed, its count is the one that was read, and no other     *)
(* claim has it.                                                            *)
ClaimsTrue ==
    \A w \in Worker : pc[w] = "claiming" =>
        /\ Claimable(job[w]) /\ seen[w] = attempts[job[w]] + 1
        /\ \A v \in Worker : pc[v] = "claiming" /\ job[v] = job[w] => v = w

\* What the operation reports is true of the database.
ResultTrue ==
    \A w \in Worker :
        /\ pc[w] = "applied" \/ (pc[w] = "joining" /\ result[w] = "ok") => recorded[job[w]]
        /\ pc[w] = "joining" /\ result[w] = "permanent" => job[w] \in Malformed

(* A row nobody holds has an attempt left; a row whose lease can be taken   *)
(* over has had its last attempt paid for by a disruption.                  *)
AttemptsPaid ==
    \A m \in Message :
        /\ status[m] \in {"absent", "pending"} /\ lockedBy[m] = None => attempts[m] < MaxAttempts
        /\ lockedBy[m] # None /\ (stale[m] \/ Abandoned(m)) =>
             attempts[m] + 1 <= MaxAttempts + disruptions

IInv ==
    /\ TypeOK /\ JobNamed /\ ClaimsTrue /\ FencingSound
    /\ ResultTrue /\ PublishedHasEffect /\ DeadLetterJustified
    /\ AttemptsPaid /\ RetryBudget

-----------------------------------------------------------------------------
(* The initial state satisfies the inductive invariant.                     *)
LEMMA InitIInv == Init => IInv
  BY OutboxConstants
  DEF Init, IInv, TypeOK, JobNamed, ClaimsTrue, FencingSound, ResultTrue, PublishedHasEffect,
      DeadLetterJustified, AttemptsPaid, RetryBudget, Busy, Operating

(* Every statement and every step of a worker keeps the types of the outbox *)
(* row and of the worker's locals, and a settled row unlocked.              *)
LEMMA TypeStep == TypeOK /\ JobNamed /\ ClaimsTrue /\ [Next]_vars => TypeOK' /\ JobNamed'
<1> SUFFICES ASSUME TypeOK, JobNamed, ClaimsTrue, [Next]_vars PROVE TypeOK' /\ JobNamed'
  OBVIOUS
<1> USE OutboxConstants DEF TypeOK, JobNamed, Busy, Operating, table, process
<1>1. ASSUME NEW m \in Message, Enqueue(m) PROVE TypeOK' /\ JobNamed'
  BY <1>1 DEF Enqueue
<1>2. ASSUME NEW m \in Message, AbandonedLeaseExpires(m) PROVE TypeOK' /\ JobNamed'
  BY <1>2 DEF AbandonedLeaseExpires
<1>3. ASSUME NEW m \in Message, Stall(m) PROVE TypeOK' /\ JobNamed'
  BY <1>3 DEF Stall
<1>4. ASSUME NEW m \in Message, DelayElapses(m) PROVE TypeOK' /\ JobNamed'
  BY <1>4 DEF DelayElapses
<1>5. ASSUME NEW w \in Worker, Select(w) \/ CommitClaim(w) PROVE TypeOK' /\ JobNamed'
  <2>1. ASSUME NEW m \in Message, SelectForClaim(w, m) PROVE TypeOK' /\ JobNamed'
    BY <2>1 DEF SelectForClaim, Lock
  <2>2. CASE CommitClaim(w)
    <3>1. job[w] \in Message /\ status[job[w]] = "pending"
      BY <2>2 DEF CommitClaim, ClaimsTrue, Claimable
    <3>2. attempts[job[w]] + 1 \in Nat
      <4>1. attempts \in [Message -> Nat]
        OBVIOUS
      <4>2. attempts[job[w]] \in Nat
        BY ONLY <3>1, <4>1
      <4> QED
        BY ONLY <4>2
    <3>3. /\ lockedBy' \in [Message -> Worker \cup {None}]
          /\ stale' \in [Message -> BOOLEAN]
          /\ pc' \in [Worker -> Busy \cup {"idle", "claiming", "down"}]
          /\ hb' \in [Worker -> {"waiting", "sent", "stopped", "lost"}]
      BY <2>2 DEF CommitClaim
    <3>4. attempts' \in [Message -> Nat]
      BY <2>2, <3>2 DEF CommitClaim
    <3>5. \A m \in Message : status'[m] # "pending" => lockedBy'[m] = None
      BY <2>2, <3>1 DEF CommitClaim
    <3>6. JobNamed'
      BY <2>2, <3>1 DEF CommitClaim
    <3> QED
      BY <2>2, <3>3, <3>4, <3>5, <3>6 DEF CommitClaim
  <2> QED
    BY <1>5, <2>1, <2>2 DEF Select
<1>6. ASSUME NEW w \in Worker, Operation(w) PROVE TypeOK' /\ JobNamed'
  BY <1>6 DEF Operation, Commit, OperationOk, OperationError, OperationReject, Return
<1>7. ASSUME NEW w \in Worker, Heartbeat(w) PROVE TypeOK' /\ JobNamed'
  BY <1>7 DEF Heartbeat, HeartbeatSend, HeartbeatReply, HeartbeatError, HeartbeatStop,
              HeartbeatAfterCancel, Updates, OwnsRow
<1>8. ASSUME NEW w \in Worker, Settle(w) PROVE TypeOK' /\ JobNamed'
  <2>1. CASE CompleteOutbox(w)
    BY <2>1 DEF CompleteOutbox, Leave, Joined
  <2>2. CASE FailOutbox(w)
    BY <2>2 DEF FailOutbox, Leave, Joined
  <2>3. CASE RetryOutbox(w)
    BY <2>3 DEF RetryOutbox, Leave, Joined
  <2>4. CASE LeaseLost(w)
    BY <2>4 DEF LeaseLost, Leave
  <2> QED
    BY <1>8, <2>1, <2>2, <2>3, <2>4 DEF Settle
<1>9. ASSUME NEW w \in Worker, Crash(w) \/ Restart(w) PROVE TypeOK' /\ JobNamed'
  BY <1>9 DEF Crash, Restart, Leave
<1>10. CASE UNCHANGED vars
  BY <1>10 DEF vars
<1> QED
  BY <1>1, <1>2, <1>3, <1>4, <1>5, <1>6, <1>7, <1>8, <1>9, <1>10 DEF Next

(* While a claim has its row locked nobody else changes the row, and only   *)
(* time can pass for it; another claim selects another row.                 *)
LEMMA ClaimsStep == TypeOK /\ JobNamed /\ ClaimsTrue /\ [Next]_vars => ClaimsTrue'
<1> SUFFICES ASSUME TypeOK, JobNamed, ClaimsTrue, [Next]_vars PROVE ClaimsTrue'
  OBVIOUS
<1> USE OutboxConstants DEF TypeOK, JobNamed, ClaimsTrue, Claimable, Busy, Operating, table, process
<1>1. ASSUME NEW m \in Message,
             Enqueue(m) \/ AbandonedLeaseExpires(m) \/ Stall(m) \/ DelayElapses(m)
      PROVE  ClaimsTrue'
  <2>1. UNCHANGED <<pc, job, seen, attempts, lockedBy>>
    BY <1>1 DEF Enqueue, AbandonedLeaseExpires, Stall, DelayElapses
  <2>2. ASSUME NEW n \in Message, Claimable(n) PROVE Claimable(n)'
    BY <1>1, <2>2 DEF Enqueue, AbandonedLeaseExpires, Stall, DelayElapses
  <2> QED
    BY <2>1, <2>2
<1>2. ASSUME NEW w \in Worker, NEW m \in Message, SelectForClaim(w, m) PROVE ClaimsTrue'
  BY <1>2 DEF SelectForClaim, Lock, ClaimLocked
<1>3. ASSUME NEW w \in Worker, CommitClaim(w) PROVE ClaimsTrue'
  <2>1. ASSUME NEW v \in Worker, pc'[v] = "claiming"
        PROVE  v # w /\ pc[v] = "claiming" /\ job'[v] = job[v] /\ job[v] # job[w]
    BY <1>3, <2>1 DEF CommitClaim
  <2>2. job[w] \in Message
    BY <1>3 DEF CommitClaim
  <2> QED
    BY <1>3, <2>1, <2>2 DEF CommitClaim
<1>4. ASSUME NEW w \in Worker, Operation(w) PROVE ClaimsTrue'
  BY <1>4 DEF Operation, Commit, OperationOk, OperationError, OperationReject, Return
<1>5. ASSUME NEW w \in Worker, Heartbeat(w) PROVE ClaimsTrue'
  <2>1. CASE HeartbeatSend(w) \/ HeartbeatStop(w) \/ HeartbeatAfterCancel(w)
    BY <2>1 DEF HeartbeatSend, HeartbeatStop, HeartbeatAfterCancel
  <2>2. CASE HeartbeatReply(w) \/ HeartbeatError(w)
    <3>1. UNCHANGED <<pc, job, seen, attempts, lockedBy, status, due>>
      BY <2>2 DEF HeartbeatReply, HeartbeatError
    <3>2. ASSUME NEW v \in Worker, pc[v] = "claiming" PROVE stale'[job[v]] = stale[job[v]]
      <4>1. stale' = stale \/ (stale' = [stale EXCEPT ![job[w]] = FALSE] /\ ~ClaimLocked(job[w]))
        BY <2>2 DEF HeartbeatReply, HeartbeatError, Updates
      <4> QED
        BY <3>2, <4>1 DEF ClaimLocked
    <3>3. ASSUME NEW v \in Worker, pc[v] = "claiming" PROVE Claimable(job[v])'
      BY <3>1, <3>2, <3>3
    <3> QED
      BY <3>1, <3>3
  <2> QED
    BY <1>5, <2>1, <2>2 DEF Heartbeat
<1>6. ASSUME NEW w \in Worker, Settle(w) PROVE ClaimsTrue'
  <2>1. CASE CompleteOutbox(w)
    BY <2>1 DEF CompleteOutbox, Leave, Joined, Updates, ClaimLocked
  <2>2. CASE FailOutbox(w)
    BY <2>2 DEF FailOutbox, Leave, Joined, Updates, ClaimLocked
  <2>3. CASE RetryOutbox(w)
    BY <2>3 DEF RetryOutbox, Leave, Joined, Updates, ClaimLocked
  <2>4. CASE LeaseLost(w)
    BY <2>4 DEF LeaseLost, Leave
  <2> QED
    BY <1>6, <2>1, <2>2, <2>3, <2>4 DEF Settle
<1>7. ASSUME NEW w \in Worker, Crash(w) \/ Restart(w) PROVE ClaimsTrue'
  BY <1>7 DEF Crash, Restart, Leave
<1>8. CASE UNCHANGED vars
  BY <1>8 DEF vars
<1> QED
  BY <1>1, <1>2, <1>3, <1>4, <1>5, <1>6, <1>7, <1>8 DEF Next, Select

(* A claim hands out the row's own attempt count, and only an idle worker   *)
(* claims, so a worker the row names as owner holds its latest claim.       *)
LEMMA FencingStep ==
  TypeOK /\ JobNamed /\ ClaimsTrue /\ FencingSound /\ [Next]_vars => FencingSound'
<1> SUFFICES ASSUME TypeOK, JobNamed, ClaimsTrue, FencingSound, [Next]_vars PROVE FencingSound'
  OBVIOUS
<1> USE OutboxConstants DEF TypeOK, JobNamed, FencingSound, Busy, Operating, table, process
<1>1. ASSUME NEW m \in Message,
             Enqueue(m) \/ AbandonedLeaseExpires(m) \/ Stall(m) \/ DelayElapses(m)
      PROVE  FencingSound'
  BY <1>1 DEF Enqueue, AbandonedLeaseExpires, Stall, DelayElapses
<1>2. ASSUME NEW w \in Worker, Select(w) \/ CommitClaim(w) PROVE FencingSound'
  <2>1. ASSUME NEW m \in Message, SelectForClaim(w, m) PROVE FencingSound'
    BY <2>1 DEF SelectForClaim, Lock
  <2>2. CASE CommitClaim(w)
    <3>1. job[w] \in Message /\ seen[w] = attempts[job[w]] + 1
      BY <2>2 DEF CommitClaim, ClaimsTrue
    <3> SUFFICES ASSUME NEW v \in Worker, pc'[v] \in Busy, lockedBy'[job'[v]] = v
                 PROVE  seen'[v] = attempts'[job'[v]]
      OBVIOUS
    <3>2. CASE v = w
      BY <2>2, <3>1, <3>2 DEF CommitClaim
    <3>3. CASE v # w
      BY <2>2, <3>1, <3>3 DEF CommitClaim
    <3> QED
      BY <3>2, <3>3
  <2> QED
    BY <1>2, <2>1, <2>2 DEF Select
<1>3. ASSUME NEW w \in Worker, Operation(w) PROVE FencingSound'
  BY <1>3 DEF Operation, Commit, OperationOk, OperationError, OperationReject, Return
<1>4. ASSUME NEW w \in Worker, Heartbeat(w) PROVE FencingSound'
  BY <1>4 DEF Heartbeat, HeartbeatSend, HeartbeatReply, HeartbeatError, HeartbeatStop,
              HeartbeatAfterCancel
<1>5. ASSUME NEW w \in Worker, Settle(w) PROVE FencingSound'
  <2>1. CASE CompleteOutbox(w)
    BY <2>1 DEF CompleteOutbox, Leave, Joined
  <2>2. CASE FailOutbox(w)
    BY <2>2 DEF FailOutbox, Leave, Joined
  <2>3. CASE RetryOutbox(w)
    BY <2>3 DEF RetryOutbox, Leave, Joined
  <2>4. CASE LeaseLost(w)
    BY <2>4 DEF LeaseLost, Leave
  <2> QED
    BY <1>5, <2>1, <2>2, <2>3, <2>4 DEF Settle
<1>6. ASSUME NEW w \in Worker, Crash(w) \/ Restart(w) PROVE FencingSound'
  BY <1>6 DEF Crash, Restart, Leave
<1>7. CASE UNCHANGED vars
  BY <1>7 DEF vars
<1> QED
  BY <1>1, <1>2, <1>3, <1>4, <1>5, <1>6, <1>7 DEF Next

(* An acknowledged job committed: recorded never reverts, ok is returned    *)
(* only after the commit, and a lost heartbeat never reads as ok.           *)
LEMMA EffectStep ==
  IInv /\ [Next]_vars => ResultTrue' /\ PublishedHasEffect'
<1> SUFFICES ASSUME TypeOK, JobNamed, ResultTrue, PublishedHasEffect, [Next]_vars
             PROVE  ResultTrue' /\ PublishedHasEffect'
  BY DEF IInv
<1> USE OutboxConstants
    DEF TypeOK, JobNamed, ResultTrue, PublishedHasEffect, Busy, Operating, table, process
<1>1. ASSUME NEW m \in Message,
             Enqueue(m) \/ AbandonedLeaseExpires(m) \/ Stall(m) \/ DelayElapses(m)
      PROVE  ResultTrue' /\ PublishedHasEffect'
  BY <1>1 DEF Enqueue, AbandonedLeaseExpires, Stall, DelayElapses
<1>2. ASSUME NEW w \in Worker, Select(w) \/ CommitClaim(w)
      PROVE  ResultTrue' /\ PublishedHasEffect'
  BY <1>2 DEF Select, SelectForClaim, Lock, CommitClaim
<1>3. ASSUME NEW w \in Worker, Operation(w) PROVE ResultTrue' /\ PublishedHasEffect'
  <2>1. CASE Commit(w)
    BY <2>1 DEF Commit
  <2>2. CASE OperationOk(w)
    BY <2>2 DEF OperationOk, Return
  <2>3. CASE OperationError(w)
    BY <2>3 DEF OperationError, Return
  <2>4. CASE OperationReject(w)
    BY <2>4 DEF OperationReject, Return
  <2> QED
    BY <1>3, <2>1, <2>2, <2>3, <2>4 DEF Operation
<1>4. ASSUME NEW w \in Worker, Heartbeat(w) PROVE ResultTrue' /\ PublishedHasEffect'
  BY <1>4 DEF Heartbeat, HeartbeatSend, HeartbeatReply, HeartbeatError, HeartbeatStop,
              HeartbeatAfterCancel
<1>5. ASSUME NEW w \in Worker, Settle(w) PROVE ResultTrue' /\ PublishedHasEffect'
  <2>1. CASE CompleteOutbox(w)
    <3>1. recorded[job[w]] /\ job[w] \in Message
      BY <2>1 DEF CompleteOutbox, Joined, Verdict
    <3> QED
      BY <2>1, <3>1 DEF CompleteOutbox, Leave
  <2>2. CASE FailOutbox(w)
    BY <2>2 DEF FailOutbox, Leave, Joined
  <2>3. CASE RetryOutbox(w)
    BY <2>3 DEF RetryOutbox, Leave
  <2>4. CASE LeaseLost(w)
    BY <2>4 DEF LeaseLost, Leave
  <2> QED
    BY <1>5, <2>1, <2>2, <2>3, <2>4 DEF Settle
<1>6. ASSUME NEW w \in Worker, Crash(w) \/ Restart(w)
      PROVE  ResultTrue' /\ PublishedHasEffect'
  BY <1>6 DEF Crash, Restart, Leave
<1>7. CASE UNCHANGED vars
  BY <1>7 DEF vars
<1> QED
  BY <1>1, <1>2, <1>3, <1>4, <1>5, <1>6, <1>7 DEF Next

(* Only FailOutbox fails a row, for a permanent error, which only a         *)
(* malformed payload causes, or after comparing an attempt count that       *)
(* FencingSound makes the row's own.                                        *)
LEMMA DeadLetterStep == IInv /\ [Next]_vars => DeadLetterJustified'
<1> SUFFICES ASSUME TypeOK, JobNamed, FencingSound, ResultTrue, DeadLetterJustified,
                    [Next]_vars
             PROVE  DeadLetterJustified'
  BY DEF IInv
<1> USE OutboxConstants DEF TypeOK, JobNamed, DeadLetterJustified, Busy, Operating, table,
                            process
<1>1. ASSUME NEW m \in Message,
             Enqueue(m) \/ AbandonedLeaseExpires(m) \/ Stall(m) \/ DelayElapses(m)
      PROVE  DeadLetterJustified'
  BY <1>1 DEF Enqueue, AbandonedLeaseExpires, Stall, DelayElapses
<1>2. ASSUME NEW w \in Worker, Select(w) \/ CommitClaim(w) PROVE DeadLetterJustified'
  BY <1>2 DEF Select, SelectForClaim, Lock, CommitClaim
<1>3. ASSUME NEW w \in Worker, Operation(w) \/ Heartbeat(w) PROVE DeadLetterJustified'
  BY <1>3 DEF Operation, Commit, OperationOk, OperationError, OperationReject, Return,
              Heartbeat, HeartbeatSend, HeartbeatReply, HeartbeatError, HeartbeatStop,
              HeartbeatAfterCancel
<1>4. ASSUME NEW w \in Worker, Settle(w) PROVE DeadLetterJustified'
  <2>1. CASE FailOutbox(w)
    <3>1. job[w] \in Message /\ lockedBy[job[w]] = w /\ pc[w] = "joining"
      BY <2>1 DEF FailOutbox, Joined, Updates, OwnsRow
    <3>2. job[w] \in Malformed \/ attempts[job[w]] >= MaxAttempts
      BY <2>1, <3>1 DEF FailOutbox, Verdict, Exhausted, FencingSound, ResultTrue
    <3> QED
      BY <2>1, <3>1, <3>2 DEF FailOutbox
  <2>2. CASE CompleteOutbox(w)
    BY <2>2 DEF CompleteOutbox, Joined
  <2>3. CASE RetryOutbox(w) \/ LeaseLost(w)
    BY <2>3 DEF RetryOutbox, LeaseLost
  <2> QED
    BY <1>4, <2>1, <2>2, <2>3 DEF Settle
<1>5. ASSUME NEW w \in Worker, Crash(w) \/ Restart(w) PROVE DeadLetterJustified'
  BY <1>5 DEF Crash, Restart
<1>6. CASE UNCHANGED vars
  BY <1>6 DEF vars
<1> QED
  BY <1>1, <1>2, <1>3, <1>4, <1>5, <1>6 DEF Next

(* A claim spends either an attempt that RetryOutbox left over or one that  *)
(* a crash or a stall paid for; only those two make a held row claimable.   *)
LEMMA BudgetStep == IInv /\ [Next]_vars => AttemptsPaid' /\ RetryBudget'
<1> SUFFICES ASSUME TypeOK, JobNamed, ClaimsTrue, FencingSound, AttemptsPaid, RetryBudget,
                    [Next]_vars
             PROVE  AttemptsPaid' /\ RetryBudget'
  BY DEF IInv
<1> USE OutboxConstants DEF TypeOK, JobNamed, AttemptsPaid, RetryBudget, Abandoned, Busy,
                            Operating, table, process
<1>1. ASSUME NEW m \in Message, Enqueue(m) PROVE AttemptsPaid' /\ RetryBudget'
  BY <1>1 DEF Enqueue
<1>2. ASSUME NEW m \in Message, AbandonedLeaseExpires(m) PROVE AttemptsPaid' /\ RetryBudget'
  BY <1>2 DEF AbandonedLeaseExpires
<1>3. ASSUME NEW m \in Message, Stall(m) PROVE AttemptsPaid' /\ RetryBudget'
  BY <1>3 DEF Stall
<1>4. ASSUME NEW m \in Message, DelayElapses(m) PROVE AttemptsPaid' /\ RetryBudget'
  BY <1>4 DEF DelayElapses
<1>5. ASSUME NEW w \in Worker, CommitClaim(w) PROVE AttemptsPaid' /\ RetryBudget'
  <2> DEFINE m == job[w]
  <2>1. m \in Message /\ attempts[m] + 1 <= MaxAttempts + disruptions
    <3>1. job[w] \in Message /\ Claimable(job[w])
      BY <1>5 DEF CommitClaim, ClaimsTrue
    <3>2. CASE lockedBy[job[w]] = None
      <4>1. attempts[job[w]] < MaxAttempts
        BY <3>1, <3>2 DEF Claimable
      <4>2. attempts \in [Message -> Nat] /\ disruptions \in Nat /\ MaxAttempts \in Nat
        OBVIOUS
      <4>3. attempts[job[w]] \in Nat
        BY ONLY <3>1, <4>2
      <4> QED
        BY <3>1, <4>1, <4>2, <4>3
    <3>3. CASE lockedBy[job[w]] # None
      <4>1. stale[job[w]]
        BY <3>1, <3>3 DEF Claimable
      <4> QED
        BY <3>1, <3>3, <4>1
    <3> QED
      BY <3>2, <3>3
  <2>2. lockedBy'[m] = w /\ ~stale'[m] /\ pc'[w] \in Busy /\ job'[w] = m
    BY <1>5, <2>1 DEF CommitClaim
  <2>3. ASSUME NEW n \in Message, n # m
        PROVE  /\ lockedBy'[n] = lockedBy[n] /\ stale'[n] = stale[n]
               /\ attempts'[n] = attempts[n] /\ status'[n] = status[n]
               /\ lockedBy[n] # None => (Abandoned(n)' => Abandoned(n))
    BY <1>5, <2>1, <2>3 DEF CommitClaim
  <2>4. attempts' = [attempts EXCEPT ![m] = @ + 1] /\ disruptions' = disruptions
    BY <1>5 DEF CommitClaim
  <2> HIDE DEF m
  <2> QED
    BY <2>1, <2>2, <2>3, <2>4
<1>12. ASSUME NEW w \in Worker, Select(w) PROVE AttemptsPaid' /\ RetryBudget'
  BY <1>12 DEF Select, SelectForClaim, Lock
<1>6. ASSUME NEW w \in Worker, Operation(w) PROVE AttemptsPaid' /\ RetryBudget'
  BY <1>6 DEF Operation, Commit, OperationOk, OperationError, OperationReject, Return
<1>7. ASSUME NEW w \in Worker, Heartbeat(w) PROVE AttemptsPaid' /\ RetryBudget'
  <2>1. CASE HeartbeatSend(w) \/ HeartbeatStop(w) \/ HeartbeatAfterCancel(w)
    BY <2>1 DEF HeartbeatSend, HeartbeatStop, HeartbeatAfterCancel
  <2>2. CASE HeartbeatReply(w)
    BY <2>2 DEF HeartbeatReply, Updates, OwnsRow
  <2>3. CASE HeartbeatError(w)
    BY <2>3 DEF HeartbeatError, Updates, OwnsRow
  <2> QED
    BY <1>7, <2>1, <2>2, <2>3 DEF Heartbeat
<1>8. ASSUME NEW w \in Worker, Settle(w) PROVE AttemptsPaid' /\ RetryBudget'
  <2>1. CASE CompleteOutbox(w)
    BY <2>1 DEF CompleteOutbox, Leave, Joined
  <2>2. CASE FailOutbox(w)
    BY <2>2 DEF FailOutbox, Leave, Joined
  <2>3. CASE RetryOutbox(w)
    <3>1. job[w] \in Message /\ attempts[job[w]] < MaxAttempts
      BY <2>3 DEF RetryOutbox, Joined, Updates, OwnsRow, Exhausted, FencingSound
    <3> QED
      BY <2>3, <3>1 DEF RetryOutbox, Leave, Joined
  <2>4. CASE LeaseLost(w)
    BY <2>4 DEF LeaseLost, Leave, Joined, OwnsRow
  <2> QED
    BY <1>8, <2>1, <2>2, <2>3, <2>4 DEF Settle
<1>9. ASSUME NEW w \in Worker, Crash(w) PROVE AttemptsPaid' /\ RetryBudget'
  BY <1>9 DEF Crash, Leave
<1>10. ASSUME NEW w \in Worker, Restart(w) PROVE AttemptsPaid' /\ RetryBudget'
  BY <1>10 DEF Restart
<1>11. CASE UNCHANGED vars
  BY <1>11 DEF vars
<1> QED
  BY <1>1, <1>2, <1>3, <1>4, <1>5, <1>6, <1>7, <1>8, <1>9, <1>10, <1>11, <1>12 DEF Next

-----------------------------------------------------------------------------
(* The inductive invariant holds of every behaviour of the outbox.          *)
THEOREM Inductive == Spec => []IInv
<1>1. Init => IInv
  BY InitIInv
<1>2. IInv /\ [Next]_vars => IInv'
  BY TypeStep, ClaimsStep, FencingStep, EffectStep, DeadLetterStep, BudgetStep DEF IInv
<1> QED
  BY <1>1, <1>2, PTL DEF Spec

(* Type correctness of the outbox rows and the worker processes.            *)
THEOREM TypeCorrect == Spec => []TypeOK
  BY Inductive, PTL DEF IInv

(* locked_by alone fences a worker that lost its lease (OwnsRow, the WHERE  *)
(* clause of every settling statement): no claim number is needed.          *)
THEOREM Fencing == Spec => []FencingSound
  BY Inductive, PTL DEF IInv

(* CompleteOutbox acknowledges only jobs whose transaction committed.       *)
THEOREM Acknowledged == Spec => []PublishedHasEffect
  BY Inductive, PTL DEF IInv

(* FailOutbox dead-letters only malformed jobs and exhausted ones.          *)
THEOREM DeadLetters == Spec => []DeadLetterJustified
  BY Inductive, PTL DEF IInv

(* The attempts of a job exceed MaxAttempts by at most the number of        *)
(* crashes and stalls.                                                      *)
THEOREM Retries == Spec => []RetryBudget
  BY Inductive, PTL DEF IInv

(* Settled rows are final, and only the worker of the latest claim settles  *)
(* or releases a held row.                                                  *)
THEOREM SettledOnce == Spec => SettledOnceByLatestClaim
<1>1. IInv /\ [Next]_vars => [\A m \in Message : SettledByLatestClaim(m)]_vars
  <2> SUFFICES ASSUME TypeOK, JobNamed, ClaimsTrue, FencingSound, Next, NEW m \in Message
               PROVE  SettledByLatestClaim(m)
    BY DEF IInv
  <2> USE OutboxConstants DEF SettledByLatestClaim, TypeOK, JobNamed, Busy, Operating,
                              table, process
  <2>1. ASSUME NEW n \in Message,
               Enqueue(n) \/ AbandonedLeaseExpires(n) \/ Stall(n) \/ DelayElapses(n)
        PROVE  SettledByLatestClaim(m)
    BY <2>1 DEF Enqueue, AbandonedLeaseExpires, Stall, DelayElapses
  <2>2. ASSUME NEW w \in Worker, Select(w) \/ CommitClaim(w) PROVE SettledByLatestClaim(m)
    BY <2>2 DEF Select, SelectForClaim, Lock, CommitClaim, ClaimsTrue, Claimable
  <2>3. ASSUME NEW w \in Worker, Operation(w) \/ Heartbeat(w) PROVE SettledByLatestClaim(m)
    BY <2>3 DEF Operation, Commit, OperationOk, OperationError, OperationReject, Return,
                Heartbeat, HeartbeatSend, HeartbeatReply, HeartbeatError, HeartbeatStop,
                HeartbeatAfterCancel
  <2>4. ASSUME NEW w \in Worker, Settle(w) PROVE SettledByLatestClaim(m)
    <3>1. CASE CompleteOutbox(w)
      BY <3>1 DEF CompleteOutbox, Leave, Joined, Updates, OwnsRow, FencingSound
    <3>2. CASE FailOutbox(w)
      BY <3>2 DEF FailOutbox, Leave, Joined, Updates, OwnsRow, FencingSound
    <3>3. CASE RetryOutbox(w)
      BY <3>3 DEF RetryOutbox, Leave, Joined, Updates, OwnsRow, FencingSound
    <3>4. CASE LeaseLost(w)
      BY <3>4 DEF LeaseLost
    <3> QED
      BY <2>4, <3>1, <3>2, <3>3, <3>4 DEF Settle
  <2>5. ASSUME NEW w \in Worker, Crash(w) \/ Restart(w) PROVE SettledByLatestClaim(m)
    BY <2>5 DEF Crash, Restart
  <2> QED
    BY <2>1, <2>2, <2>3, <2>4, <2>5 DEF Next
<1> QED
  BY <1>1, Inductive, PTL DEF Spec, SettledOnceByLatestClaim

-----------------------------------------------------------------------------
(* A step of the worker or of the database that changes the outbox row is a *)
(* step of the contract, a claim at its commit; all others leave the table  *)
(* alone.                                                                   *)
LEMMA ContractStep ==
  TypeOK /\ JobNamed /\ ClaimsTrue /\ [Next]_vars => [Contract!Next]_(Contract!table)
<1> SUFFICES ASSUME TypeOK, JobNamed, ClaimsTrue, Next PROVE Contract!Next \/ UNCHANGED table
  BY DEF vars, table, Contract!table
<1> USE DEF table, process
<1>1. ASSUME NEW m \in Message, Enqueue(m) PROVE Contract!Next
  BY <1>1 DEF Enqueue, Contract!Next, Contract!PutOutbox
<1>2. ASSUME NEW m \in Message, AbandonedLeaseExpires(m) \/ Stall(m) PROVE Contract!Next
  BY <1>2 DEF AbandonedLeaseExpires, Abandoned, Stall, Contract!Next, Contract!LeaseExpires
<1>3. ASSUME NEW m \in Message, DelayElapses(m) PROVE Contract!Next
  BY <1>3 DEF DelayElapses, Contract!Next, Contract!BecomesAvailable
<1>4. ASSUME NEW w \in Worker, CommitClaim(w) PROVE Contract!Next
  <2>1. job[w] \in Message
    BY <1>4 DEF CommitClaim, JobNamed
  <2>2. Contract!ClaimOutbox(w, job[w])
    BY <1>4 DEF CommitClaim, ClaimsTrue, Claimable, Contract!ClaimOutbox, Contract!Available
  <2> QED
    BY <2>1, <2>2 DEF Contract!Next
<1>5. ASSUME NEW w \in Worker, Operation(w) \/ Select(w) PROVE UNCHANGED table
  BY <1>5 DEF Select, SelectForClaim, Lock, Operation, Commit, OperationOk, OperationError, OperationReject, Return
<1>6. ASSUME NEW w \in Worker, Heartbeat(w) PROVE Contract!Next \/ UNCHANGED table
  <2>1. CASE HeartbeatSend(w) \/ HeartbeatStop(w) \/ HeartbeatAfterCancel(w)
    BY <2>1 DEF HeartbeatSend, HeartbeatStop, HeartbeatAfterCancel
  <2>2. CASE HeartbeatReply(w) \/ HeartbeatError(w)
    <3>1. job[w] \in Message
      BY <2>2 DEF JobNamed, HeartbeatReply, HeartbeatError
    <3>2. Contract!HeartbeatOutbox(w, job[w]) \/ UNCHANGED table
      BY <2>2 DEF HeartbeatReply, HeartbeatError, Updates, OwnsRow, Contract!HeartbeatOutbox
    <3> QED
      BY <3>1, <3>2 DEF Contract!Next
  <2> QED
    BY <1>6, <2>1, <2>2 DEF Heartbeat
<1>7. ASSUME NEW w \in Worker, Settle(w) PROVE Contract!Next \/ UNCHANGED table
  <2>1. job[w] \in Message
    BY <1>7 DEF JobNamed, Busy, Settle, CompleteOutbox, FailOutbox, RetryOutbox, LeaseLost, Joined
  <2>2. CASE CompleteOutbox(w)
    <3>1. Contract!CompleteOutbox(w, job[w])
      BY <2>2 DEF CompleteOutbox, Updates, OwnsRow, Contract!CompleteOutbox, Contract!Release
    <3> QED
      BY <2>1, <3>1 DEF Contract!Next
  <2>3. CASE FailOutbox(w)
    <3>1. Contract!FailOutbox(w, job[w])
      BY <2>3 DEF FailOutbox, Updates, OwnsRow, Contract!FailOutbox, Contract!Release
    <3> QED
      BY <2>1, <3>1 DEF Contract!Next
  <2>4. CASE RetryOutbox(w)
    <3>1. Contract!RetryOutbox(w, job[w])
      BY <2>4 DEF RetryOutbox, Updates, OwnsRow, Contract!RetryOutbox, Contract!Release
    <3> QED
      BY <2>1, <3>1 DEF Contract!Next
  <2>5. CASE LeaseLost(w)
    BY <2>5 DEF LeaseLost
  <2> QED
    BY <1>7, <2>2, <2>3, <2>4, <2>5 DEF Settle
<1>8. ASSUME NEW w \in Worker, Crash(w) \/ Restart(w) PROVE UNCHANGED table
  BY <1>8 DEF Crash, Restart
<1> QED
  BY <1>1, <1>2, <1>3, <1>4, <1>5, <1>6, <1>7, <1>8 DEF Next

(* The PostgreSQL adapter with its workers implements the contract of the   *)
(* port: whatever a claim passed over and whoever rolled back meanwhile,    *)
(* the row it commits is available, and every settling call is fenced.      *)
THEOREM Refinement == Spec => ImplementsOutboxContract
<1>1. Init => Contract!Init
  BY DEF Init, Contract!Init
<1>2. IInv /\ [Next]_vars => [Contract!Next]_(Contract!table)
  BY ContractStep DEF IInv
<1> QED
  BY <1>1, <1>2, Inductive, PTL DEF Spec, ImplementsOutboxContract, Contract!Spec
=============================================================================
