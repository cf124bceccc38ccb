---------------------------- MODULE RunEvidence ----------------------------
(***************************************************************************)
(* How evidence reaches a run after it was created: signed Stripe webhooks *)
(* recorded by the API (httpapi/webhook.go, MarkWebhookSeen), correlated   *)
(* by the workers (ProcessStripeWebhook), and the verification relay with  *)
(* its reference merchant (verification/contract.go, worker.go,            *)
(* RecordVerification), on PostgreSQL at READ COMMITTED.                   *)
(*                                                                         *)
(* Transactions of two workers interleave by statement.  A transaction's   *)
(* writes become visible when it commits; its row locks (FOR UPDATE) last  *)
(* until then.  The outbox appears only as what it lets happen: a queued   *)
(* job is attempted, by a second worker too while a stalled first one is   *)
(* still at it, until one attempt reports success.                         *)
(***************************************************************************)
EXTENDS Naturals, Sequences, FiniteSets

CONSTANTS
    Worker,
    Run,           \* run ids, numbers because candidates are locked in ORDER BY id
    Shape,         \* what a run is created with: its object, correlation and fault
    StripeEvent,   \* Stripe event ids
    Content,       \* signed bodies: supported type, object, correlation
    MaxFailures,   \* bound: failed statements, lost answers, crashed attempts
    None           \* SQL NULL, no row, an identifier safeWebhookIdentifier dropped

Fault == {"none", "duplicate", "reorder", "timeout", "tamper"}

Jobs == [kind : {"webhook"}, id : StripeEvent] \cup [kind : {"verification"}, id : Run]

ASSUME EvidenceConstants ==
    /\ Run \subseteq Nat
    /\ \A r \in Run : Shape[r].fault \in Fault
    /\ MaxFailures \in Nat
    /\ "timeline" \notin StripeEvent
    /\ None \notin Content /\ None \notin Run /\ None \notin Jobs

VARIABLES
    \* webhook_events and the outbox rows
    receipt,    \* the content stored for an event id
    status,     \* processing_status, processing_error_code, correlated_run_id
    queued,     \* outbox rows inserted for a job
    done,       \* jobs whose outbox row was published
    acks,       \* event ids and contents answered 200
    \* runs, run_events, reports, assertions, stripe_webhook_evidence, merchant
    count,      \* runs.event_count, 0 while the run is not committed
    ledger,     \* run_events rows: sequence and id
    report,     \* reports.snapshot: its copy of event_count and its assertions
    asserted,   \* assertions rows
    evidence,   \* stripe_webhook_evidence rows
    merchant,   \* reference_merchant_effects.last_sequence, 0 without a row
    \* the attempts
    pc, task,   \* where an attempt stands, and its job
    locks,      \* the row locks its transaction holds
    cand,       \* runs with the event's object, as SELECT ... FOR UPDATE found them
    seq,        \* the sequence number it read for the new event
    seen,       \* the report it read
    todo,       \* deliveries the relay has left
    tally,      \* the relay's Result
    failures

webhooks == <<receipt, status, acks>>
runState == <<count, ledger, report, asserted, evidence>>
attempt == <<pc, task, locks, cand, seq, seen, todo, tally>>
vars == <<webhooks, queued, done, runState, merchant, attempt, failures>>

Job(w) == task[w].id

Pending == [state |-> "pending", code |-> None, run |-> None]
NoTally == [effects |-> 0, duplicates |-> 0, rejected |-> 0]
NoReport == [count |-> 0, asserts |-> <<>>]

\* The timeline buildEvents makes is one row here.
Timeline == [seq |-> 1, id |-> "timeline"]

Codes == {"unsupported_event_type", "missing_stripe_object_id", "missing_correlation_id",
          "run_not_found", "correlation_mismatch", "ambiguous_run_match"}
Assertions == [id : {"webhook_correlated", "reference_merchant"}, passed : BOOLEAN]
Rows == {"event", "run", "report"} \X (StripeEvent \cup Run)
Statuses ==
    {Pending} \cup [state : {"matched"}, code : {None}, run : Run]
              \cup [state : {"unmatched", "ignored"}, code : Codes, run : {None}]
LedgerRows == [seq : Nat, id : StripeEvent \cup {"timeline"}]
Reports == [count : Nat, asserts : Seq(Assertions)]

TypeOK ==
    /\ receipt \in [StripeEvent -> Content \cup {None}]
    /\ status \in [StripeEvent -> Statuses]
    /\ queued \in [Jobs -> 0..1]
    /\ done \subseteq {j \in Jobs : queued[j] = 1}
    /\ acks \subseteq StripeEvent \X Content
    /\ count \in [Run -> Nat]
    /\ ledger \in [Run -> SUBSET LedgerRows]
    /\ report \in [Run -> Reports]
    /\ asserted \in [Run -> SUBSET Assertions]
    /\ evidence \subseteq StripeEvent \X Run
    /\ merchant \in [Run -> 0..2]
    /\ pc \in [Worker -> {"idle", "event", "select", "locking", "report", "write",
                          "relay", "record"}]
    /\ task \in [Worker -> Jobs \cup {None}]
    /\ \A w \in Worker : task[w] = None <=> pc[w] = "idle"
    /\ locks \in [Worker -> SUBSET Rows]
    /\ \A w \in Worker : pc[w] = "idle" => locks[w] = {}
    /\ cand \in [Worker -> SUBSET Run]
    /\ seq \in [Worker -> Nat]
    /\ seen \in [Worker -> Reports]
    /\ todo \in [Worker -> Seq(0..2)]
    /\ tally \in [Worker -> [effects : Nat, duplicates : Nat, rejected : Nat]]
    /\ failures \in 0..MaxFailures

Init ==
    /\ receipt = [e \in StripeEvent |-> None]
    /\ status = [e \in StripeEvent |-> Pending]
    /\ queued = [j \in Jobs |-> 0]
    /\ done = {}
    /\ acks = {}
    /\ count = [r \in Run |-> 0]
    /\ ledger = [r \in Run |-> {}]
    /\ report = [r \in Run |-> NoReport]
    /\ asserted = [r \in Run |-> {}]
    /\ evidence = {}
    /\ merchant = [r \in Run |-> 0]
    /\ pc = [w \in Worker |-> "idle"]
    /\ task = [w \in Worker |-> None]
    /\ locks = [w \in Worker |-> {}]
    /\ cand = [w \in Worker |-> {}]
    /\ seq = [w \in Worker |-> 0]
    /\ seen = [w \in Worker |-> NoReport]
    /\ todo = [w \in Worker |-> <<>>]
    /\ tally = [w \in Worker |-> NoTally]
    /\ failures = 0

-----------------------------------------------------------------------------
(* The API.                                                                 *)

\* createRun commits the bundle and its verification job (module RunCreation).
CreateRun(r) ==
    /\ count[r] = 0
    /\ count' = [count EXCEPT ![r] = 1]
    /\ ledger' = [ledger EXCEPT ![r] = {Timeline}]
    /\ report' = [report EXCEPT ![r].count = 1]
    /\ queued' = [queued EXCEPT ![[kind |-> "verification", id |-> r]] = @ + 1]
    /\ UNCHANGED <<webhooks, done, asserted, evidence, merchant, attempt, failures>>

Acknowledge(e, c) == acks' = acks \cup {<<e, c>>}

(* MarkWebhookSeen, first delivery: receipt and job commit together; the    *)
(* 200 may be lost, and Stripe then delivers again.                         *)
ReceiveNew(e, c) ==
    /\ receipt[e] = None
    /\ receipt' = [receipt EXCEPT ![e] = c]
    /\ queued' = [queued EXCEPT ![[kind |-> "webhook", id |-> e]] = @ + 1]
    /\ Acknowledge(e, c) \/ UNCHANGED acks
    /\ UNCHANGED <<status, done, runState, merchant, attempt, failures>>

ReceiveAgainAnyBody(e, c) ==
    /\ receipt[e] # None
    /\ Acknowledge(e, c)
    /\ UNCHANGED <<receipt, status, queued, done, runState, merchant, attempt, failures>>

ReceiveAgainEnqueues(e, c) ==
    /\ receipt[e] = c
    /\ Acknowledge(e, c)
    /\ queued' = [queued EXCEPT ![[kind |-> "webhook", id |-> e]] = @ + 1]
    /\ UNCHANGED <<receipt, status, done, runState, merchant, attempt, failures>>

(* A duplicate, when body, endpoint and type are those stored.  Otherwise,  *)
(* webhook_event_conflict: a 400 that changes nothing.                      *)
ReceiveAgain(e, c) ==
    /\ receipt[e] = c
    /\ Acknowledge(e, c)
    /\ UNCHANGED <<receipt, status, queued, done, runState, merchant, attempt, failures>>

-----------------------------------------------------------------------------
(* Attempts and row locks.                                                  *)

Free(w, row) == \A v \in Worker \ {w} : row \notin locks[v]

ResetWithoutRollback(w) ==
    /\ pc' = [pc EXCEPT ![w] = "idle"]
    /\ task' = [task EXCEPT ![w] = None]
    /\ cand' = [cand EXCEPT ![w] = {}]
    /\ seq' = [seq EXCEPT ![w] = 0]
    /\ seen' = [seen EXCEPT ![w] = NoReport]
    /\ todo' = [todo EXCEPT ![w] = <<>>]
    /\ tally' = [tally EXCEPT ![w] = NoTally]
    /\ UNCHANGED locks

Reset(w) ==
    /\ pc' = [pc EXCEPT ![w] = "idle"]
    /\ task' = [task EXCEPT ![w] = None]
    /\ locks' = [locks EXCEPT ![w] = {}]
    /\ cand' = [cand EXCEPT ![w] = {}]
    /\ seq' = [seq EXCEPT ![w] = 0]
    /\ seen' = [seen EXCEPT ![w] = NoReport]
    /\ todo' = [todo EXCEPT ![w] = <<>>]
    /\ tally' = [tally EXCEPT ![w] = NoTally]

\* The job's transaction commits; the job may still be retried, if the answer is lost.
Commit(w) ==
    /\ Reset(w)
    /\ \/ done' = done \cup {task[w]} /\ UNCHANGED failures
       \/ failures < MaxFailures /\ failures' = failures + 1 /\ UNCHANGED done

Fail(w) ==
    /\ Reset(w)
    /\ UNCHANGED <<webhooks, queued, done, runState, merchant>>

\* A statement fails, the context is cancelled or the worker dies: rollback.
Abort(w) ==
    /\ pc[w] # "idle"
    /\ failures < MaxFailures
    /\ failures' = failures + 1
    /\ Fail(w)

(* Relay.Execute's deliveries by fault, as the sequence number each one     *)
(* carries; 0 is a delivery whose signature does not verify.                *)
Deliveries(fault) ==
    CASE fault \in {"none", "timeout"} -> <<1>>
      [] fault = "duplicate" -> <<1, 1>>
      [] fault = "reorder" -> <<2, 1>>
      [] fault = "tamper" -> <<0>>

\* A queued job is claimed: by another worker too, when the first lost its lease.
Start(w, j) ==
    /\ pc[w] = "idle"
    /\ queued[j] > 0 /\ j \notin done
    /\ task' = [task EXCEPT ![w] = j]
    /\ pc' = [pc EXCEPT ![w] = IF j.kind = "webhook" THEN "event" ELSE "relay"]
    /\ todo' = [todo EXCEPT ![w] = IF j.kind = "webhook" THEN <<>>
                                   ELSE Deliveries(Shape[j.id].fault)]
    /\ UNCHANGED <<webhooks, queued, done, runState, merchant, locks, cand, seq, seen,
                   tally, failures>>

-----------------------------------------------------------------------------
(* ProcessStripeWebhook.                                                    *)

\* SELECT ... FROM webhook_events FOR UPDATE finds the event pending.
LockEvent(w) ==
    /\ pc[w] = "event"
    /\ Free(w, <<"event", Job(w)>>)
    /\ status[Job(w)] = Pending
    /\ locks' = [locks EXCEPT ![w] = {<<"event", Job(w)>>}]
    /\ pc' = [pc EXCEPT ![w] = "select"]
    /\ UNCHANGED <<webhooks, queued, done, runState, merchant, task, cand, seq, seen,
                   todo, tally, failures>>

\* An earlier attempt got through: AlreadyProcessed.
AlreadyProcessed(w) ==
    /\ pc[w] = "event"
    /\ Free(w, <<"event", Job(w)>>)
    /\ status[Job(w)] # Pending
    /\ Commit(w)
    /\ UNCHANGED <<webhooks, queued, runState, merchant>>

\* finishWebhookProcessing without a run.
Finish(w, state, code) ==
    /\ status' = [status EXCEPT ![Job(w)] = [state |-> state, code |-> code, run |-> None]]
    /\ Commit(w)
    /\ UNCHANGED <<receipt, acks, queued, runState, merchant>>

RejectReceipt(w) ==
    LET c == receipt[Job(w)] IN
    /\ pc[w] = "select"
    /\ \/ ~c.supported /\ Finish(w, "ignored", "unsupported_event_type")
       \/ c.supported /\ c.object = None /\ Finish(w, "unmatched", "missing_stripe_object_id")
       \/ /\ c.supported /\ c.object # None /\ c.correlation = None
          /\ Finish(w, "unmatched", "missing_correlation_id")

\* The candidate runs, as the statement's snapshot has them.
SelectRuns(w) ==
    LET c == receipt[Job(w)] IN
    /\ pc[w] = "select"
    /\ c.supported /\ c.object # None /\ c.correlation # None
    /\ cand' = [cand EXCEPT ![w] = {r \in Run : count[r] > 0 /\ Shape[r].object = c.object}]
    /\ pc' = [pc EXCEPT ![w] = "locking"]
    /\ UNCHANGED <<webhooks, queued, done, runState, merchant, task, locks, seq, seen,
                   todo, tally, failures>>

Unlocked(w) == {r \in cand[w] : <<"run", r>> \notin locks[w]}
NextRun(w) == CHOOSE r \in Unlocked(w) : \A q \in Unlocked(w) : r <= q

\* ... ORDER BY id FOR UPDATE.
LockRun(w) ==
    /\ pc[w] = "locking" /\ Unlocked(w) # {}
    /\ Free(w, <<"run", NextRun(w)>>)
    /\ locks' = [locks EXCEPT ![w] = @ \cup {<<"run", NextRun(w)>>}]
    /\ UNCHANGED <<webhooks, queued, done, runState, merchant, pc, task, cand, seq, seen,
                   todo, tally, failures>>

MatchesByObject(w) == cand[w]

Matches(w) == {r \in cand[w] : Shape[r].correlation = receipt[Job(w)].correlation}
Match(w) == CHOOSE r \in Matches(w) : TRUE

FinishUnmatched(w) ==
    /\ pc[w] = "locking" /\ Unlocked(w) = {}
    /\ \/ cand[w] = {} /\ Finish(w, "unmatched", "run_not_found")
       \/ cand[w] # {} /\ Matches(w) = {} /\ Finish(w, "unmatched", "correlation_mismatch")
       \/ Cardinality(Matches(w)) > 1 /\ Finish(w, "unmatched", "ambiguous_run_match")

\* SELECT COALESCE(max(sequence), 0) + 1, under the run's lock.
ReadSequence(w) ==
    /\ pc[w] = "locking" /\ Unlocked(w) = {}
    /\ Cardinality(Matches(w)) = 1
    /\ LET used == {0} \cup {row.seq : row \in ledger[Match(w)]} IN
       seq' = [seq EXCEPT ![w] = 1 + CHOOSE n \in used : \A k \in used : k <= n]
    /\ pc' = [pc EXCEPT ![w] = "report"]
    /\ UNCHANGED <<webhooks, queued, done, runState, merchant, task, locks, cand, seen,
                   todo, tally, failures>>

TakeReportUnlocked(w, r) ==
    /\ seen' = [seen EXCEPT ![w] = report[r]]
    /\ UNCHANGED locks

\* SELECT snapshot FROM reports WHERE run_id = r FOR UPDATE.
TakeReport(w, r) ==
    /\ Free(w, <<"report", r>>)
    /\ locks' = [locks EXCEPT ![w] = @ \cup {<<"report", r>>}]
    /\ seen' = [seen EXCEPT ![w] = report[r]]

LockReport(w) ==
    /\ pc[w] = "report"
    /\ TakeReport(w, Match(w))
    /\ pc' = [pc EXCEPT ![w] = "write"]
    /\ UNCHANGED <<webhooks, queued, done, runState, merchant, task, cand, seq, todo,
                   tally, failures>>

HasAssertionNever(asserts, id) == FALSE

HasAssertion(asserts, id) == \E i \in 1..Len(asserts) : asserts[i].id = id

AddAssertion(asserts, a) == IF HasAssertion(asserts, a.id) THEN asserts ELSE Append(asserts, a)

Correlated == [id |-> "webhook_correlated", passed |-> TRUE]

(* The event, the counted run, the report, the assertion, the evidence and  *)
(* the receipt's state commit together.  The event id is a primary key and  *)
(* (run, sequence) is unique.                                               *)
CommitMatched(w) ==
    LET e == Job(w)
        r == Match(w)
        n == Cardinality(ledger[r]) + 1
    IN
    /\ pc[w] = "write"
    /\ \A row \in ledger[r] : row.seq # seq[w] /\ row.id # e
    /\ ledger' = [ledger EXCEPT ![r] = @ \cup {[seq |-> seq[w], id |-> e]}]
    /\ count' = [count EXCEPT ![r] = n]
    /\ report' = [report EXCEPT ![r] =
                    [count |-> n, asserts |-> AddAssertion(seen[w].asserts, Correlated)]]
    /\ asserted' = IF HasAssertion(seen[w].asserts, Correlated.id) THEN asserted
                   ELSE [asserted EXCEPT ![r] = @ \cup {Correlated}]
    /\ evidence' = evidence \cup {<<e, r>>}
    /\ status' = [status EXCEPT ![e] = [state |-> "matched", code |-> None, run |-> r]]
    /\ Commit(w)
    /\ UNCHANGED <<receipt, acks, queued, merchant>>

-----------------------------------------------------------------------------
(* processVerification.                                                     *)

\* RepositoryMerchant.Deliver: its effect commits by itself, before the report.
Deliver(w) ==
    LET n == Head(todo[w])
        r == Job(w)
    IN
    /\ pc[w] = "relay" /\ todo[w] # <<>>
    /\ todo' = [todo EXCEPT ![w] = Tail(@)]
    /\ \/ /\ n = 0
          /\ tally' = [tally EXCEPT ![w] = [effects |-> 0, duplicates |-> @.duplicates,
                                            rejected |-> @.rejected + 1]]
          /\ UNCHANGED merchant
       \/ /\ n > 0
          /\ tally' = [tally EXCEPT ![w] = [effects |-> 1, rejected |-> @.rejected,
                                            duplicates |-> IF merchant[r] > 0 THEN @.duplicates + 1
                                                           ELSE @.duplicates]]
          /\ merchant' = [merchant EXCEPT ![r] = IF n > @ THEN n ELSE @]
    /\ UNCHANGED <<webhooks, queued, done, runState, pc, task, locks, cand, seq, seen,
                   failures>>

PassedFirstTime(fault, t) ==
    CASE fault \in {"duplicate", "reorder"} -> t.effects = 1 /\ t.duplicates = 1 /\ t.rejected = 0
      [] fault = "tamper" -> t.effects = 0 /\ t.rejected >= 1
      [] OTHER -> t.effects = 1 /\ t.duplicates = 0 /\ t.rejected = 0

Passed(fault, t) ==
    CASE fault \in {"duplicate", "reorder"} -> t.effects = 1 /\ t.duplicates >= 1 /\ t.rejected = 0
      [] fault = "tamper" -> t.effects = 0 /\ t.rejected >= 1
      [] OTHER -> t.effects = 1 /\ t.rejected = 0

\* RecordVerification takes the report, which no lock on the run protects.
ReadReport(w) ==
    /\ pc[w] = "relay" /\ todo[w] = <<>>
    /\ TakeReport(w, Job(w))
    /\ pc' = [pc EXCEPT ![w] = "record"]
    /\ UNCHANGED <<webhooks, queued, done, runState, merchant, task, cand, seq, todo,
                   tally, failures>>

AlreadyRecorded(w) ==
    /\ pc[w] = "record"
    /\ HasAssertion(seen[w].asserts, "reference_merchant")
    /\ Commit(w)
    /\ UNCHANGED <<webhooks, queued, runState, merchant>>

\* The assertions row references the run: its insert waits for a lock on the run.
CommitVerification(w) ==
    LET r == Job(w)
        a == [id |-> "reference_merchant", passed |-> Passed(Shape[r].fault, tally[w])]
    IN
    /\ pc[w] = "record"
    /\ ~HasAssertion(seen[w].asserts, a.id)
    /\ Free(w, <<"run", r>>)
    /\ report' = [report EXCEPT ![r] = [count |-> seen[w].count,
                                        asserts |-> Append(seen[w].asserts, a)]]
    /\ asserted' = [asserted EXCEPT ![r] = @ \cup {a}]
    /\ Commit(w)
    /\ UNCHANGED <<webhooks, queued, count, ledger, evidence, merchant>>

-----------------------------------------------------------------------------
\* The row an attempt's next statement needs.
Wants(w, row) ==
    \/ pc[w] = "event" /\ row = <<"event", Job(w)>>
    \/ pc[w] = "locking" /\ Unlocked(w) # {} /\ row = <<"run", NextRun(w)>>
    \/ pc[w] = "report" /\ row = <<"report", Match(w)>>
    \/ pc[w] = "relay" /\ todo[w] = <<>> /\ row = <<"report", Job(w)>>
    \/ pc[w] = "record" /\ row = <<"run", Job(w)>>

\* deadlock_timeout: of two transactions that wait for each other one is rolled back.
BreakDeadlock(w) ==
    /\ \E v \in Worker \ {w} :
         /\ \E row \in locks[v] : Wants(w, row)
         /\ \E row \in locks[w] : Wants(v, row)
    /\ Fail(w)
    /\ UNCHANGED failures

ProcessStripeWebhook(w) ==
    \/ LockEvent(w) \/ AlreadyProcessed(w) \/ RejectReceipt(w) \/ SelectRuns(w)
    \/ LockRun(w) \/ FinishUnmatched(w) \/ ReadSequence(w) \/ LockReport(w)
    \/ CommitMatched(w)

ProcessVerification(w) ==
    Deliver(w) \/ ReadReport(w) \/ AlreadyRecorded(w) \/ CommitVerification(w)

Next ==
    \/ \E r \in Run : CreateRun(r)
    \/ \E e \in StripeEvent, c \in Content : ReceiveNew(e, c) \/ ReceiveAgain(e, c)
    \/ \E w \in Worker, j \in Jobs : Start(w, j)
    \/ \E w \in Worker : ProcessStripeWebhook(w) \/ ProcessVerification(w)
    \/ \E w \in Worker : Abort(w) \/ BreakDeadlock(w)

Spec == Init /\ [][Next]_vars

(* A queued job is claimed while attempts are left (module Outbox; failures *)
(* stay below MaxAttempts), statements return, PostgreSQL detects deadlocks *)
(* and hands a row lock to its waiters in turn.                             *)
Fairness ==
    /\ \A j \in Jobs : WF_vars(\E w \in Worker : Start(w, j))
    /\ \A w \in Worker :
         /\ WF_vars(ProcessStripeWebhook(w) \/ ProcessVerification(w))
         /\ SF_vars(LockReport(w)) /\ SF_vars(CommitVerification(w))
    /\ WF_vars(\E w \in Worker : BreakDeadlock(w))

FairSpec == Spec /\ Fairness
-----------------------------------------------------------------------------
(* Properties.                                                              *)

(* A run's event count, the copy of it in the report and the event rows     *)
(* agree, sequence numbers have no gap, and a Stripe event is in the ledger *)
(* once, whichever transactions committed in between.                       *)
LedgerConsistent ==
    \A r \in Run :
        /\ count[r] = Cardinality(ledger[r])
        /\ report[r].count = count[r]
        /\ {row.seq : row \in ledger[r]} = 1..count[r]
        /\ \A a, b \in ledger[r] : a.id = b.id => a = b

(* The report's assertions are the assertions rows, each of them once:      *)
(* neither transaction overwrites the other's or repeats its own.           *)
AssertionsAgree ==
    \A r \in Run :
        LET list == report[r].asserts IN
        /\ {list[i] : i \in 1..Len(list)} = asserted[r]
        /\ \A i, j \in 1..Len(list) : list[i].id = list[j].id => i = j

(* An event that was matched has left its trace in exactly the run with its *)
(* object and correlation; any other event has left none.                   *)
MatchedExactlyOnce ==
    \A e \in StripeEvent, r \in Run :
        LET matched == status[e].state = "matched" /\ status[e].run = r IN
        /\ matched <=> \E row \in ledger[r] : row.id = e
        /\ matched <=> <<e, r>> \in evidence
        /\ matched => /\ Shape[r].object = receipt[e].object
                      /\ Shape[r].correlation = receipt[e].correlation
                      /\ Correlated \in asserted[r]

(* A webhook is answered 200 only when the content that was delivered is    *)
(* the one stored for the event, with exactly one job to process it.        *)
AcknowledgedIsDurable ==
    \A e \in StripeEvent, c \in Content :
        <<e, c>> \in acks =>
            receipt[e] = c /\ queued[[kind |-> "webhook", id |-> e]] = 1

(* The recorded verdict does not depend on crashes and retries: the         *)
(* assertion passes, the merchant has the effect unless the delivery was    *)
(* tampered with, and it kept the newest sequence number.                   *)
VerdictIndependentOfRetries ==
    \A r \in Run : \A a \in asserted[r] :
        a.id = "reference_merchant" =>
            /\ a.passed
            /\ merchant[r] = CASE Shape[r].fault = "tamper" -> 0
                               [] Shape[r].fault = "reorder" -> 2
                               [] OTHER -> 1

(* Evidence is only ever added: no commit removes an event row or an        *)
(* assertion, or takes back a receipt's state.                              *)
EvidenceKept(r) ==
    /\ ledger[r] \subseteq ledger'[r]
    /\ Len(report[r].asserts) <= Len(report'[r].asserts)
    /\ \A i \in 1..Len(report[r].asserts) : report'[r].asserts[i] = report[r].asserts[i]

EvidenceOnlyGrows ==
    [][/\ \A r \in Run : EvidenceKept(r)
       /\ \A e \in StripeEvent : status[e] # Pending => status'[e] = status[e]]_vars

(* Every receipt is processed and every run verified, although the two      *)
(* transactions take the run and its report in opposite orders.             *)
EvidenceArrives ==
    /\ \A e \in StripeEvent : receipt[e] # None ~> status[e] # Pending
    /\ \A r \in Run :
         count[r] > 0 ~> \E a \in asserted[r] : a.id = "reference_merchant"

(* docs/operations/SLO.md: persisted events reach exactly one normalized effect.  An   *)
(* event is not given up for want of a run while its run is there.          *)
NoRunMissed ==
    \A e \in StripeEvent, r \in Run :
        status[e].code = "run_not_found" =>
            ~(/\ count[r] > 0
              /\ Shape[r].object = receipt[e].object
              /\ Shape[r].correlation = receipt[e].correlation)
=============================================================================
