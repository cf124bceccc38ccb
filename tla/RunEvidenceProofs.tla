------------------------- MODULE RunEvidenceProofs -------------------------
(* Proofs that the evidence of runs stays consistent while workers process  *)
(* webhooks and verifications concurrently, fail and retry, for any         *)
(* workers, runs, events, contents and number of failures.                  *)
EXTENDS RunEvidence, FiniteSetTheorems, SequenceTheorems, WellFoundedInduction, TLAPS

-----------------------------------------------------------------------------
(* The inductive invariant.                                                 *)

\* A row is locked by one transaction.
LocksApart == \A v, w \in Worker : v # w => locks[v] \cap locks[w] = {}

\* A job is queued with the receipt or the run it is for, once.
QueueTrue ==
    /\ \A e \in StripeEvent :
         queued[[kind |-> "webhook", id |-> e]] = IF receipt[e] = None THEN 0 ELSE 1
    /\ \A r \in Run :
         queued[[kind |-> "verification", id |-> r]] = IF count[r] = 0 THEN 0 ELSE 1

(* What a worker has read and locked is still so: its event is pending, its *)
(* candidates have the event's object, the sequence number it read is the   *)
(* next one, and the report it read is the stored one.                      *)
AttemptTrue(w) ==
    /\ pc[w] \in {"event", "select", "locking", "report", "write"} =>
         task[w].kind = "webhook" /\ Job(w) \in StripeEvent /\ receipt[Job(w)] # None
    /\ pc[w] \in {"relay", "record"} =>
         task[w].kind = "verification" /\ Job(w) \in Run /\ count[Job(w)] > 0
    /\ pc[w] \in {"select", "locking", "report", "write"} =>
         <<"event", Job(w)>> \in locks[w] /\ status[Job(w)] = Pending
    /\ pc[w] \in {"locking", "report", "write"} =>
         \A r \in cand[w] : count[r] > 0 /\ Shape[r].object = receipt[Job(w)].object
    /\ pc[w] \in {"report", "write"} =>
         \E r \in Run : /\ Matches(w) = {r} /\ <<"run", r>> \in locks[w]
                        /\ seq[w] = count[r] + 1
    /\ pc[w] = "write" =>
         <<"report", Match(w)>> \in locks[w] /\ seen[w] = report[Match(w)]
    /\ pc[w] = "record" =>
         <<"report", Job(w)>> \in locks[w] /\ seen[w] = report[Job(w)]

AttemptsTrue == \A w \in Worker : AttemptTrue(w)

\* What the merchant keeps of a run with the fault.
Newest(fault) == CASE fault = "tamper" -> 0 [] fault = "reorder" -> 2 [] OTHER -> 1

\* What the relay has done of its run's deliveries, and where that leaves it.
RelayAt(w) ==
    LET r == Job(w)
        fault == Shape[r].fault
    IN
    \/ /\ pc[w] = "relay"
       /\ todo[w] = Deliveries(fault) /\ tally[w] = NoTally
    \/ /\ pc[w] = "relay"
       /\ fault \in {"duplicate", "reorder"} /\ todo[w] = <<1>>
       /\ merchant[r] = Newest(fault) /\ tally[w].effects = 1 /\ tally[w].rejected = 0
    \/ todo[w] = <<>> /\ merchant[r] = Newest(fault) /\ Passed(fault, tally[w])

(* The relay's deliveries, those of earlier attempts included, leave the    *)
(* merchant at the newest sequence number, and its tally passes at the end. *)
RelayTrue ==
    /\ \A r \in Run : merchant[r] \in {0, Newest(Shape[r].fault)}
    /\ \A w \in Worker : pc[w] \in {"relay", "record"} => RelayAt(w)
    /\ \A w \in Worker : pc[w] = "idle" => tally[w] = NoTally

(* The tables are finite, a processed event has a receipt, and a            *)
(* correlation that is asserted has passed.                                 *)
RowsTrue ==
    /\ IsFiniteSet({r \in Run : count[r] > 0})
    /\ \A r \in Run : IsFiniteSet(ledger[r])
    /\ \A e \in StripeEvent : status[e] # Pending => receipt[e] # None
    /\ \A r \in Run : \A a \in asserted[r] : a.id = "webhook_correlated" => a.passed

IInv ==
    /\ TypeOK /\ LocksApart /\ QueueTrue /\ AttemptsTrue /\ RelayTrue /\ RowsTrue
    /\ LedgerConsistent /\ AssertionsAgree /\ MatchedExactlyOnce
    /\ AcknowledgedIsDurable /\ VerdictIndependentOfRetries

-----------------------------------------------------------------------------
(* Attempts.                                                                *)

(* The job of an attempt is queued.                                         *)
LEMMA TaskQueued ==
  ASSUME IInv, NEW w \in Worker, pc[w] # "idle"
  PROVE  task[w] \in Jobs /\ queued[task[w]] = 1
<1>1. task[w] \in Jobs /\ pc[w] \in {"event", "select", "locking", "report", "write", "relay", "record"}
  BY DEF IInv, TypeOK
<1>2. CASE pc[w] \in {"event", "select", "locking", "report", "write"}
  <2>1. /\ task[w].kind = "webhook" /\ task[w].id \in StripeEvent /\ receipt[task[w].id] # None
    BY <1>2 DEF IInv, AttemptsTrue, AttemptTrue, Job
  <2>2. task[w] = [kind |-> "webhook", id |-> task[w].id]
    BY <1>1, <2>1 DEF Jobs
  <2> QED
    BY <1>1, <2>1, <2>2 DEF IInv, QueueTrue
<1>3. CASE pc[w] \in {"relay", "record"}
  <2>1. /\ task[w].kind = "verification" /\ task[w].id \in Run /\ count[task[w].id] > 0
        /\ count[task[w].id] \in Nat
    BY <1>3 DEF IInv, AttemptsTrue, AttemptTrue, Job, TypeOK
  <2>2. task[w] = [kind |-> "verification", id |-> task[w].id]
    BY <1>1, <2>1 DEF Jobs
  <2>3. queued[[kind |-> "verification", id |-> task[w].id]] = 1
    BY <2>1 DEF IInv, QueueTrue
  <2> QED
    BY <1>1, <2>2, <2>3
<1> QED
  BY <1>1, <1>2, <1>3

\* The types of what the workers keep.
AttemptTypes ==
    /\ pc \in [Worker -> {"idle", "event", "select", "locking", "report", "write",
                          "relay", "record"}]
    /\ task \in [Worker -> Jobs \cup {None}]
    /\ \A w \in Worker : task[w] = None <=> pc[w] = "idle"
    /\ locks \in [Worker -> SUBSET Rows]
    /\ \A w \in Worker : pc[w] = "idle" => locks[w] = {}
    /\ cand \in [Worker -> SUBSET Run]
    /\ seq \in [Worker -> Nat]
    /\ seen \in [Worker -> Reports]
    /\ todo \in [Worker -> Seq(0..2)]
    /\ tally \in [Worker -> [effects : Nat, duplicates : Nat, rejected : Nat]]

\* Nothing of the worker's attempt changes.
Untouched(v) ==
    /\ pc'[v] = pc[v] /\ task'[v] = task[v] /\ locks'[v] = locks[v]
    /\ cand'[v] = cand[v] /\ seq'[v] = seq[v] /\ seen'[v] = seen[v]
    /\ todo'[v] = todo[v] /\ tally'[v] = tally[v]

\* The types of what the database keeps.
TableTypes ==
    /\ receipt \in [StripeEvent -> Content \cup {None}]
    /\ status \in [StripeEvent -> Statuses]
    /\ queued \in [Jobs -> 0..1]
    /\ done \subseteq {j \in Jobs : queued[j] = 1}
    /\ acks \subseteq StripeEvent \X Content
    /\ count \in [Run -> Nat]
    /\ ledger \in [Run -> SUBSET LedgerRows]
    /\ report \in [Run -> Reports]
    /\ asserted \in [Run -> SUBSET Assertions]
    /\ evidence \subseteq StripeEvent \X Run
    /\ merchant \in [Run -> 0..2]

(* The types are those of the tables and those of the attempts.             *)
LEMMA SplitTypes ==
  /\ TypeOK <=> TableTypes /\ AttemptTypes /\ failures \in 0..MaxFailures
  /\ TypeOK' <=> TableTypes' /\ AttemptTypes' /\ failures' \in 0..MaxFailures
  BY DEF TypeOK, TableTypes, AttemptTypes

(* The end of an attempt forgets what it read and gives its locks back.     *)
LEMMA ResetTypes ==
  ASSUME AttemptTypes, NEW w \in Worker, Reset(w)
  PROVE  /\ AttemptTypes' /\ pc'[w] = "idle" /\ locks'[w] = {}
         /\ \A v \in Worker \ {w} : Untouched(v)
<1> USE DEF Reset, AttemptTypes
<1>1. NoReport \in Reports /\ NoTally \in [effects : Nat, duplicates : Nat, rejected : Nat]
      /\ <<>> \in Seq(0..2)
  BY EmptySeq DEF NoReport, Reports, NoTally
<1>2. pc'[w] = "idle" /\ locks'[w] = {} /\ task'[w] = None
  OBVIOUS
<1>3. \A v \in Worker \ {w} : Untouched(v)
  BY DEF Untouched
<1>4. /\ pc' \in [Worker -> {"idle", "event", "select", "locking", "report", "write",
                          "relay", "record"}]
      /\ task' \in [Worker -> Jobs \cup {None}]
      /\ locks' \in [Worker -> SUBSET Rows] /\ cand' \in [Worker -> SUBSET Run]
      /\ seq' \in [Worker -> Nat]
  OBVIOUS
<1>5. /\ seen' \in [Worker -> Reports] /\ todo' \in [Worker -> Seq(0..2)]
      /\ tally' \in [Worker -> [effects : Nat, duplicates : Nat, rejected : Nat]]
  BY <1>1
<1>6. \A v \in Worker : (task'[v] = None <=> pc'[v] = "idle") /\ (pc'[v] = "idle" => locks'[v] = {})
  BY <1>2, <1>3 DEF Untouched
<1> QED
  BY <1>2, <1>3, <1>4, <1>5, <1>6

(* An attempt commits one of its queued jobs, or its answer is lost.        *)
LEMMA CommitTypes ==
  ASSUME IInv, NEW w \in Worker, pc[w] # "idle", Commit(w), queued' = queued
  PROVE  /\ Reset(w) /\ AttemptTypes' /\ failures' \in 0..MaxFailures
         /\ done' \subseteq {j \in Jobs : queued'[j] = 1}
<1>1. AttemptTypes /\ done \subseteq {j \in Jobs : queued[j] = 1} /\ failures \in 0..MaxFailures
  BY SplitTypes DEF IInv, TableTypes
<1>2. Reset(w) /\ AttemptTypes'
  BY <1>1, ResetTypes DEF Commit
<1>3. done' \subseteq done \cup {task[w]} /\ failures' \in 0..MaxFailures
  BY <1>1, EvidenceConstants DEF Commit
<1> QED
  BY <1>1, <1>2, <1>3, TaskQueued

(* The one run a receipt matches.                                           *)
LEMMA OneMatch ==
  ASSUME NEW w, NEW r, Matches(w) = {r}
  PROVE  Match(w) = r /\ r \in cand[w] /\ Shape[r].correlation = receipt[Job(w)].correlation
  BY DEF Match, Matches

(* A set of run ids has a lowest one, which ORDER BY id puts first.         *)
LEMMA LowestRun ==
  ASSUME NEW S \in SUBSET Nat, S # {}
  PROVE  \E r \in S : \A q \in S : r <= q
<1> DEFINE R == {ss \in Nat \X Nat : ss[1] < ss[2]}
<1>1. IsWellFoundedOn(R, Nat)
  BY NatLessThanWellFounded, Zenon DEF OpToRel
<1>2. PICK r \in S : \A q \in S : ~(<<q, r>> \in R)
  <2> HIDE DEF R
  <2> QED
    BY <1>1, WFMin
<1>3. \A q \in S : q < r => <<q, r>> \in R
  OBVIOUS
<1>4. \A q \in S : ~(q < r)
  <2> HIDE DEF R
  <2> QED
    BY <1>2, <1>3, Zenon
<1> HIDE DEF R
<1> QED
  BY <1>4

(* The sequence number after those of a ledger without a gap.               *)
LEMMA NextSequence ==
  ASSUME NEW n \in Nat
  PROVE  (CHOOSE m \in {0} \cup 1..n : \A k \in {0} \cup 1..n : k <= m) = n
<1>1. n \in {0} \cup 1..n /\ \A k \in {0} \cup 1..n : k <= n
  OBVIOUS
<1>2. \A m \in {0} \cup 1..n : (\A k \in {0} \cup 1..n : k <= m) => m = n
  OBVIOUS
<1> QED
  BY <1>1, <1>2

-----------------------------------------------------------------------------
(* The invariant is inductive.                                              *)

(* No receipt, run, job or attempt at first.                                *)
LEMMA InitIInv == Init => IInv
<1> SUFFICES ASSUME Init PROVE IInv
  OBVIOUS
<1> USE EvidenceConstants DEF Init
<1>1. TableTypes
  <2>1. NoReport \in Reports
    BY EmptySeq DEF NoReport, Reports
  <2>2. Pending \in Statuses
    BY DEF Statuses
  <2> QED
    BY <2>1, <2>2 DEF TableTypes
<1>2. AttemptTypes
  <2>1. NoReport \in Reports /\ NoTally \in [effects : Nat, duplicates : Nat, rejected : Nat]
        /\ <<>> \in Seq(0..2)
    BY EmptySeq DEF NoReport, Reports, NoTally
  <2> QED
    BY <2>1 DEF AttemptTypes
<1>3. TypeOK
  BY <1>1, <1>2, SplitTypes
<1>4. LocksApart /\ AttemptsTrue
  BY DEF LocksApart, AttemptsTrue, AttemptTrue
<1>5. QueueTrue
  BY DEF QueueTrue, Jobs
<1>6. RelayTrue
  BY DEF RelayTrue
<1>7. RowsTrue
  <2>1. {r \in Run : count[r] > 0} = {}
    OBVIOUS
  <2> QED
    BY <2>1, FS_EmptySet DEF RowsTrue
<1>8. LedgerConsistent
  <2> SUFFICES ASSUME NEW r \in Run
               PROVE  /\ count[r] = Cardinality(ledger[r])
                      /\ report[r].count = count[r]
                      /\ {row.seq : row \in ledger[r]} = 1..count[r]
                      /\ \A a, b \in ledger[r] : a.id = b.id => a = b
    BY DEF LedgerConsistent
  <2>1. ledger[r] = {} /\ count[r] = 0 /\ report[r].count = 0
    BY DEF NoReport
  <2>2. {row.seq : row \in {}} = 1..0
    OBVIOUS
  <2> QED
    BY <2>1, <2>2, FS_EmptySet
<1>9. AssertionsAgree
  <2> SUFFICES ASSUME NEW r \in Run
               PROVE  LET list == report[r].asserts IN
                      /\ {list[i] : i \in 1..Len(list)} = asserted[r]
                      /\ \A i, j \in 1..Len(list) : list[i].id = list[j].id => i = j
    BY DEF AssertionsAgree
  <2>1. report[r].asserts = <<>> /\ asserted[r] = {}
    BY DEF NoReport
  <2>2. Len(<<>>) = 0
    BY EmptySeq
  <2> QED
    BY <2>1, <2>2
<1>10. MatchedExactlyOnce
  BY DEF MatchedExactlyOnce, Pending
<1>11. AcknowledgedIsDurable /\ VerdictIndependentOfRetries
  BY DEF AcknowledgedIsDurable, VerdictIndependentOfRetries
<1> QED
  BY <1>3, <1>4, <1>5, <1>6, <1>7, <1>8, <1>9, <1>10, <1>11 DEF IInv

\* Neither a table nor the merchant changes.
Quiet == UNCHANGED <<receipt, status, acks, queued, count, ledger, report, asserted, evidence, merchant>>

\* A step of a worker.
Works(w) ==
    \/ \E j \in Jobs : Start(w, j)
    \/ ProcessStripeWebhook(w) \/ ProcessVerification(w) \/ Abort(w) \/ BreakDeadlock(w)

\* The worker's locks are what they were, or one more that was free.
Locking(w) ==
    \/ locks' = locks
    \/ \E row \in Rows : Free(w, row) /\ locks' = [locks EXCEPT ![w] = @ \cup {row}]
    \/ \E row \in Rows : Free(w, row) /\ locks' = [locks EXCEPT ![w] = {row}]

(* A worker reads the next sequence number of the one run that matches.     *)
LEMMA SequenceRead ==
  ASSUME IInv, NEW w \in Worker, ReadSequence(w)
  PROVE  \E r \in Run : Matches(w) = {r} /\ seq' = [seq EXCEPT ![w] = count[r] + 1]
<1>1. pc[w] = "locking" /\ cand[w] \subseteq Run
  BY DEF ReadSequence, IInv, TypeOK
<1>2. Matches(w) \subseteq {r \in Run : count[r] > 0}
  BY <1>1 DEF Matches, IInv, AttemptsTrue, AttemptTrue
<1>3. IsFiniteSet(Matches(w))
  BY <1>2, FS_Subset DEF IInv, RowsTrue
<1>4. PICK r : Matches(w) = {r}
  BY <1>3, FS_Singleton DEF ReadSequence
<1>5. r \in Run /\ Match(w) = r
  BY <1>2, <1>4, OneMatch
<1>6. {row.seq : row \in ledger[r]} = 1..count[r] /\ count[r] \in Nat
  BY <1>5 DEF IInv, LedgerConsistent, TypeOK
<1>7. seq' = [seq EXCEPT ![w] = 1 + CHOOSE n \in {0} \cup 1..count[r] : \A k \in {0} \cup 1..count[r] : k <= n]
  BY <1>5, <1>6 DEF ReadSequence
<1>8. (CHOOSE n \in {0} \cup 1..count[r] : \A k \in {0} \cup 1..count[r] : k <= n) = count[r]
  BY <1>6, NextSequence
<1> QED
  BY <1>4, <1>5, <1>6, <1>7, <1>8

(* The statements of an attempt that commit nothing.                        *)
LEMMA StatementTypes ==
  ASSUME IInv, NEW w \in Worker,
         \/ \E j \in Jobs : Start(w, j)
         \/ LockEvent(w) \/ SelectRuns(w) \/ LockRun(w) \/ ReadSequence(w) \/ LockReport(w)
         \/ ReadReport(w)
  PROVE  /\ AttemptTypes' /\ Quiet /\ done' = done /\ failures' = failures
         /\ Locking(w)
         /\ \A v \in Worker \ {w} : Untouched(v)
<1> USE EvidenceConstants DEF webhooks, runState, Quiet, Untouched
<1>0. AttemptTypes /\ TableTypes
  BY SplitTypes DEF IInv
<1>1. ASSUME NEW j \in Jobs, Start(w, j) PROVE AttemptTypes'
  <2>1. todo' \in [Worker -> Seq(0..2)]
    <3>1. \A fault \in Fault : Deliveries(fault) \in Seq(0..2)
      <4>1. /\ <<1>> \in Seq(0..2) /\ <<0>> \in Seq(0..2)
            /\ <<1, 1>> \in Seq(0..2) /\ <<2, 1>> \in Seq(0..2)
        OBVIOUS
      <4> QED
        BY <4>1 DEF Fault, Deliveries
    <3>2. j.kind # "webhook" => j.id \in Run
      BY DEF Jobs
    <3> DEFINE t == IF j.kind = "webhook" THEN <<>> ELSE Deliveries(Shape[j.id].fault)
    <3>3. t \in Seq(0..2)
      BY <3>1, <3>2, EmptySeq
    <3>4. todo' = [todo EXCEPT ![w] = t]
      BY <1>1 DEF Start
    <3> QED
      BY <1>0, <3>3, <3>4 DEF AttemptTypes
  <2> HIDE DEF Jobs
  <2> QED
    BY <1>0, <1>1, <2>1 DEF Start, AttemptTypes
<1>2. CASE LockEvent(w)
  <2>1. <<"event", Job(w)>> \in Rows
    BY <1>2 DEF LockEvent, IInv, AttemptsTrue, AttemptTrue, Rows
  <2> QED
    BY <1>0, <1>2, <2>1 DEF LockEvent, AttemptTypes, Locking
<1>3. CASE SelectRuns(w)
  BY <1>0, <1>3 DEF SelectRuns, AttemptTypes, Locking
<1>4. CASE LockRun(w)
  <2>1. Unlocked(w) \subseteq Run
    BY <1>0 DEF Unlocked, AttemptTypes
  <2>2. NextRun(w) \in Run
    <3>1. \E r \in Unlocked(w) : \A q \in Unlocked(w) : r <= q
      BY <1>4, <2>1, LowestRun DEF LockRun
    <3> QED
      BY <2>1, <3>1 DEF NextRun
  <2>3. <<"run", NextRun(w)>> \in Rows
    BY <2>2 DEF Rows
  <2> QED
    BY <1>0, <1>4, <2>3 DEF LockRun, AttemptTypes, Locking
<1>5. CASE ReadSequence(w)
  <2>1. \E r \in Run : Matches(w) = {r} /\ seq' = [seq EXCEPT ![w] = count[r] + 1]
    BY <1>5, SequenceRead
  <2> QED
    BY <1>0, <1>5, <2>1 DEF ReadSequence, AttemptTypes, TableTypes, Locking
<1>6. CASE LockReport(w) \/ ReadReport(w)
  <2>1. PICK r \in Run : TakeReport(w, r)
    <3>1. pc[w] = "report" => Match(w) \in Run
      <4> SUFFICES ASSUME pc[w] = "report" PROVE Match(w) \in Run
        OBVIOUS
      <4>1. \E r \in Run : Matches(w) = {r}
        BY DEF IInv, AttemptsTrue, AttemptTrue
      <4> QED
        BY <4>1, OneMatch
    <3>2. pc[w] = "relay" => Job(w) \in Run
      BY DEF IInv, AttemptsTrue, AttemptTrue
    <3> QED
      BY <1>6, <3>1, <3>2 DEF LockReport, ReadReport
  <2>2. <<"report", r>> \in Rows /\ report[r] \in Reports
    BY <1>0 DEF Rows, TableTypes
  <2> QED
    BY <1>0, <1>6, <2>1, <2>2 DEF LockReport, ReadReport, TakeReport, AttemptTypes, Locking
<1>7. ASSUME NEW j \in Jobs, Start(w, j)
      PROVE  Locking(w) /\ \A v \in Worker \ {w} : Untouched(v)
  BY <1>0, <1>7 DEF Start, AttemptTypes, Locking
<1>8. Quiet /\ done' = done /\ failures' = failures
  BY DEF Start, LockEvent, SelectRuns, LockRun, ReadSequence, LockReport, ReadReport
<1> QED
  BY <1>1, <1>2, <1>3, <1>4, <1>5, <1>6, <1>7, <1>8
-----------------------------------------------------------------------------
(* What a step of a worker writes.                                          *)

Verified == [id |-> "reference_merchant", passed |-> TRUE]

\* The attempt ends and writes nothing.
Ends(w) == pc[w] # "idle" /\ Reset(w) /\ Quiet

\* The event is given up: finishWebhookProcessing without a run.
GivesUp(w, e, s) ==
    /\ pc[w] # "idle" /\ Reset(w)
    /\ <<"event", e>> \in locks[w] /\ status[e] = Pending /\ receipt[e] # None
    /\ status' = [status EXCEPT ![e] = s]
    /\ UNCHANGED <<receipt, acks, queued, count, ledger, report, asserted, evidence, merchant>>

\* The event becomes the run's next one, under locks on event, run and report.
Records(w, e, r) ==
    /\ pc[w] # "idle" /\ Reset(w)
    /\ {<<"event", e>>, <<"run", r>>, <<"report", r>>} \subseteq locks[w]
    /\ status[e] = Pending /\ receipt[e] # None /\ count[r] > 0
    /\ Shape[r].object = receipt[e].object /\ Shape[r].correlation = receipt[e].correlation
    /\ ledger' = [ledger EXCEPT ![r] = @ \cup {[seq |-> count[r] + 1, id |-> e]}]
    /\ count' = [count EXCEPT ![r] = count[r] + 1]
    /\ report' = [report EXCEPT ![r] =
                    [count |-> count[r] + 1, asserts |-> AddAssertion(report[r].asserts, Correlated)]]
    /\ asserted' = IF HasAssertion(report[r].asserts, Correlated.id) THEN asserted
                   ELSE [asserted EXCEPT ![r] = @ \cup {Correlated}]
    /\ evidence' = evidence \cup {<<e, r>>}
    /\ status' = [status EXCEPT ![e] = [state |-> "matched", code |-> None, run |-> r]]
    /\ UNCHANGED <<receipt, acks, queued, merchant>>

\* The passed verification is appended, under a lock on the report.
Verifies(w, r) ==
    /\ pc[w] # "idle" /\ Reset(w)
    /\ <<"report", r>> \in locks[w] /\ merchant[r] = Newest(Shape[r].fault) /\ count[r] > 0
    /\ ~HasAssertion(report[r].asserts, Verified.id)
    /\ report' = [report EXCEPT ![r] =
                    [count |-> report[r].count, asserts |-> Append(report[r].asserts, Verified)]]
    /\ asserted' = [asserted EXCEPT ![r] = @ \cup {Verified}]
    /\ UNCHANGED <<receipt, status, acks, queued, count, ledger, evidence, merchant>>

(* A correlated event is committed as the next one of its run.              *)
LEMMA MatchedRecords ==
  ASSUME IInv, NEW w \in Worker, CommitMatched(w)
  PROVE  Commit(w) /\ \E e \in StripeEvent, r \in Run : Records(w, e, r)
<1> DEFINE e == Job(w)
<1>1. pc[w] = "write" /\ Commit(w) /\ Reset(w)
  BY DEF CommitMatched, Commit
<1>2. /\ e \in StripeEvent /\ receipt[e] # None /\ <<"event", e>> \in locks[w]
      /\ status[e] = Pending
  BY <1>1 DEF IInv, AttemptsTrue, AttemptTrue
<1>3. PICK r \in Run : Matches(w) = {r} /\ <<"run", r>> \in locks[w] /\ seq[w] = count[r] + 1
  BY <1>1 DEF IInv, AttemptsTrue, AttemptTrue
<1>4. Match(w) = r /\ r \in cand[w] /\ Shape[r].correlation = receipt[e].correlation
  BY <1>3, OneMatch
<1>5. <<"report", r>> \in locks[w] /\ seen[w] = report[r]
  BY <1>1, <1>4 DEF IInv, AttemptsTrue, AttemptTrue
<1>6. count[r] > 0 /\ Shape[r].object = receipt[e].object
  BY <1>1, <1>4 DEF IInv, AttemptsTrue, AttemptTrue
<1>7. Cardinality(ledger[r]) = count[r]
  BY DEF IInv, LedgerConsistent
<1>8. /\ ledger' = [ledger EXCEPT ![r] = @ \cup {[seq |-> count[r] + 1, id |-> e]}]
      /\ count' = [count EXCEPT ![r] = count[r] + 1]
      /\ evidence' = evidence \cup {<<e, r>>}
      /\ status' = [status EXCEPT ![e] = [state |-> "matched", code |-> None, run |-> r]]
      /\ UNCHANGED <<receipt, acks, queued, merchant>>
  BY <1>3, <1>4, <1>7 DEF CommitMatched
<1>9. /\ report' = [report EXCEPT ![r] =
                    [count |-> count[r] + 1, asserts |-> AddAssertion(report[r].asserts, Correlated)]]
      /\ asserted' = IF HasAssertion(report[r].asserts, Correlated.id) THEN asserted
                     ELSE [asserted EXCEPT ![r] = @ \cup {Correlated}]
  BY <1>4, <1>5, <1>7 DEF CommitMatched
<1> HIDE DEF e
<1>10. Records(w, e, r)
  BY <1>1, <1>2, <1>3, <1>4, <1>5, <1>6, <1>8, <1>9 DEF Records
<1> QED
  BY <1>1, <1>2, <1>10

(* A verification that is committed has passed, whatever earlier attempts   *)
(* did before they failed.                                                  *)
LEMMA VerificationVerifies ==
  ASSUME IInv, NEW w \in Worker, CommitVerification(w)
  PROVE  Commit(w) /\ \E r \in Run : Verifies(w, r)
<1> DEFINE r == Job(w)
<1>1. pc[w] = "record" /\ Commit(w) /\ Reset(w)
  BY DEF CommitVerification, Commit
<1>2. /\ r \in Run /\ count[r] > 0 /\ <<"report", r>> \in locks[w] /\ seen[w] = report[r]
  BY <1>1 DEF IInv, AttemptsTrue, AttemptTrue
<1>3. merchant[r] = Newest(Shape[r].fault) /\ Passed(Shape[r].fault, tally[w])
  BY <1>1 DEF IInv, RelayTrue, RelayAt
<1>4. Verified = [id |-> "reference_merchant", passed |-> Passed(Shape[r].fault, tally[w])]
  <2>1. Passed(Shape[r].fault, tally[w]) \in BOOLEAN
    BY DEF Passed
  <2>2. Passed(Shape[r].fault, tally[w]) = TRUE
    BY <1>3, <2>1
  <2> QED
    BY <2>2 DEF Verified
<1>5. /\ ~HasAssertion(report[r].asserts, Verified.id)
      /\ report' = [report EXCEPT ![r] =
                    [count |-> report[r].count, asserts |-> Append(report[r].asserts, Verified)]]
      /\ asserted' = [asserted EXCEPT ![r] = @ \cup {Verified}]
  BY <1>2, <1>4 DEF CommitVerification
<1>6. UNCHANGED <<receipt, status, acks, queued, count, ledger, evidence, merchant>>
  BY DEF CommitVerification, webhooks
<1> HIDE DEF r
<1>7. Verifies(w, r)
  BY <1>1, <1>2, <1>3, <1>5, <1>6 DEF Verifies
<1> QED
  BY <1>1, <1>2, <1>7

(* The other ways an event is processed leave a final state with a code.    *)
LEMMA FinishGivesUp ==
  ASSUME IInv, NEW w \in Worker, RejectReceipt(w) \/ FinishUnmatched(w)
  PROVE  /\ Commit(w)
         /\ \E e \in StripeEvent, s \in [state : {"unmatched", "ignored"}, code : Codes, run : {None}] :
              GivesUp(w, e, s)
<1>1. /\ pc[w] \in {"select", "locking"}
      /\ \E state \in {"unmatched", "ignored"}, code \in Codes : Finish(w, state, code)
  BY DEF RejectReceipt, FinishUnmatched, Codes
<1>2. PICK state \in {"unmatched", "ignored"}, code \in Codes : Finish(w, state, code)
  BY <1>1
<1> DEFINE s == [state |-> state, code |-> code, run |-> None]
<1>3. /\ Job(w) \in StripeEvent /\ <<"event", Job(w)>> \in locks[w] /\ status[Job(w)] = Pending
      /\ receipt[Job(w)] # None
  BY <1>1 DEF IInv, AttemptsTrue, AttemptTrue
<1>4. s \in [state : {"unmatched", "ignored"}, code : Codes, run : {None}]
  OBVIOUS
<1>5. Commit(w) /\ GivesUp(w, Job(w), s)
  BY <1>1, <1>2, <1>3 DEF Finish, Commit, GivesUp, runState
<1> HIDE DEF s
<1> QED
  BY <1>3, <1>4, <1>5

(* An attempt that ends without a result writes nothing.                    *)
LEMMA FailureEnds ==
  ASSUME IInv, NEW w \in Worker,
         AlreadyProcessed(w) \/ AlreadyRecorded(w) \/ Abort(w) \/ BreakDeadlock(w)
  PROVE  Ends(w) /\ (Commit(w) \/ (done' = done /\ failures' \in 0..MaxFailures))
<1> USE EvidenceConstants DEF Ends, Quiet, webhooks, runState
<1>1. CASE AlreadyProcessed(w) \/ AlreadyRecorded(w)
  BY <1>1 DEF AlreadyProcessed, AlreadyRecorded, Commit
<1>2. CASE Abort(w)
  BY <1>2 DEF Abort, Fail, IInv, TypeOK
<1>3. CASE BreakDeadlock(w)
  <2>1. pc[w] # "idle"
    <3>1. locks[w] # {}
      BY <1>3 DEF BreakDeadlock
    <3> QED
      BY <3>1 DEF IInv, TypeOK
  <2> QED
    BY <1>3, <2>1 DEF BreakDeadlock, Fail, IInv, TypeOK
<1> QED
  BY <1>1, <1>2, <1>3

(* A delivery to the merchant changes the merchant's row and the attempt's  *)
(* own tally, and no lock.                                                  *)
LEMMA DeliverTypes ==
  ASSUME IInv, NEW w \in Worker, Deliver(w)
  PROVE  /\ AttemptTypes' /\ merchant' \in [Run -> 0..2] /\ locks' = locks
         /\ Job(w) \in Run /\ \A r \in Run : r # Job(w) => merchant'[r] = merchant[r]
         /\ \A v \in Worker \ {w} : Untouched(v)
<1>1. AttemptTypes /\ TableTypes /\ pc[w] = "relay" /\ Job(w) \in Run
  BY SplitTypes DEF IInv, Deliver, AttemptsTrue, AttemptTrue
<1>2. todo[w] \in Seq(0..2) /\ todo[w] # <<>>
  BY <1>1 DEF AttemptTypes, Deliver
<1>3. Head(todo[w]) \in 0..2 /\ Tail(todo[w]) \in Seq(0..2)
  BY <1>2, HeadTailProperties
<1>4. todo' = [todo EXCEPT ![w] = Tail(todo[w])] /\ todo' \in [Worker -> Seq(0..2)]
  BY <1>1, <1>3 DEF Deliver, AttemptTypes
<1>5. tally[w] \in [effects : Nat, duplicates : Nat, rejected : Nat]
  BY <1>1 DEF AttemptTypes
<1>6. \E t \in [effects : Nat, duplicates : Nat, rejected : Nat] : tally' = [tally EXCEPT ![w] = t]
  BY <1>5 DEF Deliver
<1>7. tally' \in [Worker -> [effects : Nat, duplicates : Nat, rejected : Nat]]
  BY <1>1, <1>6 DEF AttemptTypes
<1>8. /\ merchant' \in [Run -> 0..2]
      /\ \A r \in Run : r # Job(w) => merchant'[r] = merchant[r]
  BY <1>1, <1>3 DEF Deliver, TableTypes
<1>9. UNCHANGED <<pc, task, locks, cand, seq, seen>>
  BY DEF Deliver
<1>10. AttemptTypes'
  BY <1>1, <1>4, <1>7, <1>9 DEF AttemptTypes
<1>11. \A v \in Worker \ {w} : Untouched(v)
  BY <1>1, <1>4, <1>6, <1>9 DEF AttemptTypes, Untouched
<1> QED
  BY <1>1, <1>8, <1>9, <1>10, <1>11

\* All that a step of a worker can do to the tables.
Writes(w) ==
    \/ Quiet
    \/ \E e \in StripeEvent, s \in [state : {"unmatched", "ignored"}, code : Codes, run : {None}] :
         GivesUp(w, e, s)
    \/ \E e \in StripeEvent, r \in Run : Records(w, e, r)
    \/ \E r \in Run : Verifies(w, r)
    \/ Deliver(w)

(* Every step of a worker leaves the other attempts alone, takes a free     *)
(* lock or gives its own back, and writes one of these.                     *)
LEMMA WorkerStep ==
  ASSUME IInv, NEW w \in Worker, Works(w)
  PROVE  /\ AttemptTypes' /\ failures' \in 0..MaxFailures /\ queued' = queued /\ receipt' = receipt
         /\ acks' = acks /\ done' \subseteq {j \in Jobs : queued'[j] = 1}
         /\ \A v \in Worker \ {w} : Untouched(v)
         /\ Locking(w) \/ Reset(w)
         /\ Writes(w)
<1>0. AttemptTypes /\ TableTypes /\ failures \in 0..MaxFailures
  BY SplitTypes DEF IInv
<1>1. CASE \/ \E j \in Jobs : Start(w, j)
           \/ LockEvent(w) \/ SelectRuns(w) \/ LockRun(w) \/ ReadSequence(w) \/ LockReport(w)
           \/ ReadReport(w)
  <2>1. /\ AttemptTypes' /\ Quiet /\ done' = done /\ failures' = failures
        /\ Locking(w) /\ \A v \in Worker \ {w} : Untouched(v)
    BY <1>1, StatementTypes
  <2> QED
    BY <1>0, <2>1 DEF Quiet, TableTypes, Writes
<1>2. CASE Deliver(w)
  <2>1. /\ AttemptTypes' /\ locks' = locks /\ \A v \in Worker \ {w} : Untouched(v)
    BY <1>2, DeliverTypes
  <2>2. queued' = queued /\ receipt' = receipt /\ acks' = acks /\ done' = done /\ failures' = failures
    BY <1>2 DEF Deliver, webhooks
  <2> QED
    BY <1>0, <1>2, <2>1, <2>2 DEF TableTypes, Writes, Locking
<1>3. ASSUME pc[w] # "idle", Reset(w), Writes(w), queued' = queued, receipt' = receipt, acks' = acks,
             Commit(w) \/ (done' = done /\ failures' \in 0..MaxFailures)
      PROVE  /\ AttemptTypes' /\ failures' \in 0..MaxFailures
             /\ done' \subseteq {j \in Jobs : queued'[j] = 1}
             /\ \A v \in Worker \ {w} : Untouched(v)
  <2>1. AttemptTypes' /\ \A v \in Worker \ {w} : Untouched(v)
    BY <1>0, <1>3, ResetTypes
  <2>2. CASE Commit(w)
    BY <1>3, <2>1, <2>2, CommitTypes
  <2>3. CASE done' = done /\ failures' \in 0..MaxFailures
    BY <1>0, <1>3, <2>1, <2>3 DEF TableTypes
  <2> QED
    BY <1>3, <2>2, <2>3
<1>4. CASE AlreadyProcessed(w) \/ AlreadyRecorded(w) \/ Abort(w) \/ BreakDeadlock(w)
  <2>1. Ends(w) /\ (Commit(w) \/ (done' = done /\ failures' \in 0..MaxFailures))
    BY <1>4, FailureEnds
  <2>2. /\ pc[w] # "idle" /\ Reset(w) /\ Writes(w) /\ queued' = queued /\ receipt' = receipt
        /\ acks' = acks
    BY <2>1 DEF Ends, Quiet, Writes
  <2> QED
    BY <1>3, <2>1, <2>2
<1>5. CASE RejectReceipt(w) \/ FinishUnmatched(w)
  <2>1. /\ Commit(w)
        /\ \E e \in StripeEvent, s \in [state : {"unmatched", "ignored"}, code : Codes, run : {None}] :
              GivesUp(w, e, s)
    BY <1>5, FinishGivesUp
  <2>2. /\ pc[w] # "idle" /\ Reset(w) /\ Writes(w) /\ queued' = queued /\ receipt' = receipt
        /\ acks' = acks
    BY <2>1 DEF GivesUp, Writes
  <2> QED
    BY <1>3, <2>1, <2>2
<1>6. CASE CommitMatched(w)
  <2>1. Commit(w) /\ \E e \in StripeEvent, r \in Run : Records(w, e, r)
    BY <1>6, MatchedRecords
  <2>2. /\ pc[w] # "idle" /\ Reset(w) /\ Writes(w) /\ queued' = queued /\ receipt' = receipt
        /\ acks' = acks
    BY <2>1 DEF Records, Writes
  <2> QED
    BY <1>3, <2>1, <2>2
<1>7. CASE CommitVerification(w)
  <2>1. Commit(w) /\ \E r \in Run : Verifies(w, r)
    BY <1>7, VerificationVerifies
  <2>2. /\ pc[w] # "idle" /\ Reset(w) /\ Writes(w) /\ queued' = queued /\ receipt' = receipt
        /\ acks' = acks
    BY <2>1 DEF Verifies, Writes
  <2> QED
    BY <1>3, <2>1, <2>2
<1> QED
  BY <1>1, <1>2, <1>4, <1>5, <1>6, <1>7 DEF Works, ProcessStripeWebhook, ProcessVerification

\* A step of the API.
Receives ==
    \/ \E r \in Run : CreateRun(r)
    \/ \E e \in StripeEvent, c \in Content : ReceiveNew(e, c) \/ ReceiveAgain(e, c)

(* The steps are the API's and the workers'.                                *)
LEMMA Steps == Next => Receives \/ \E w \in Worker : Works(w)
  BY DEF Next, Receives, Works

(* The lists of assertions stay lists of assertions.                        *)
LEMMA AddedTypes ==
  ASSUME NEW list \in Seq(Assertions), NEW a \in Assertions
  PROVE  Append(list, a) \in Seq(Assertions) /\ AddAssertion(list, a) \in Seq(Assertions)
  BY AppendProperties DEF AddAssertion

(* TypeOK is preserved.                                                     *)
LEMMA TypeStep ==
  ASSUME IInv, Next
  PROVE  TypeOK'
<1>0. AttemptTypes /\ TableTypes /\ failures \in 0..MaxFailures
  BY SplitTypes DEF IInv
<1>1. ASSUME NEW r \in Run, CreateRun(r) PROVE TypeOK'
  <2> USE <1>1 DEF CreateRun, webhooks, attempt
  <2>1. AttemptTypes' /\ failures' \in 0..MaxFailures
    BY <1>0 DEF AttemptTypes
  <2> DEFINE j == [kind |-> "verification", id |-> r]
  <2>2. j \in Jobs /\ queued[j] = 0
    BY DEF Jobs, IInv, QueueTrue
  <2>3. queued' = [queued EXCEPT ![j] = 1] /\ queued' \in [Jobs -> 0..1]
    BY <1>0, <2>2 DEF TableTypes
  <2>4. done' \subseteq {i \in Jobs : queued'[i] = 1}
    <3> HIDE DEF j
    <3> QED
      BY <1>0, <2>2, <2>3 DEF TableTypes
  <2>5. ledger' \in [Run -> SUBSET LedgerRows]
    <3>1. Timeline \in LedgerRows
      BY DEF Timeline, LedgerRows
    <3> QED
      BY <1>0, <3>1 DEF TableTypes
  <2>6. report' \in [Run -> Reports]
    <3>1. [report[r] EXCEPT !.count = 1] \in Reports
      BY <1>0 DEF TableTypes, Reports
    <3>2. report' = [report EXCEPT ![r] = [report[r] EXCEPT !.count = 1]]
      OBVIOUS
    <3> QED
      BY <1>0, <3>1, <3>2 DEF TableTypes
  <2>7. count' \in [Run -> Nat]
    BY <1>0 DEF TableTypes
  <2>8. UNCHANGED <<receipt, status, acks, asserted, evidence, merchant>>
    OBVIOUS
  <2> HIDE DEF CreateRun, j
  <2> QED
    BY <1>0, <2>1, <2>3, <2>4, <2>5, <2>6, <2>7, <2>8, SplitTypes DEF TableTypes
<1>2. ASSUME NEW e \in StripeEvent, NEW c \in Content, ReceiveNew(e, c) PROVE TypeOK'
  <2> USE <1>2 DEF ReceiveNew, runState, attempt, Acknowledge
  <2>1. AttemptTypes' /\ failures' \in 0..MaxFailures
    BY <1>0 DEF AttemptTypes
  <2> DEFINE j == [kind |-> "webhook", id |-> e]
  <2>2. j \in Jobs /\ queued[j] = 0
    BY DEF Jobs, IInv, QueueTrue
  <2>3. queued' = [queued EXCEPT ![j] = 1] /\ queued' \in [Jobs -> 0..1]
    BY <1>0, <2>2 DEF TableTypes
  <2>4. done' \subseteq {i \in Jobs : queued'[i] = 1}
    <3> HIDE DEF j
    <3> QED
      BY <1>0, <2>2, <2>3 DEF TableTypes
  <2>5. receipt' \in [StripeEvent -> Content \cup {None}] /\ acks' \subseteq StripeEvent \X Content
    BY <1>0 DEF TableTypes
  <2>6. UNCHANGED <<status, count, ledger, report, asserted, evidence, merchant>>
    OBVIOUS
  <2> HIDE DEF ReceiveNew, j
  <2> QED
    BY <1>0, <2>1, <2>3, <2>4, <2>5, <2>6, SplitTypes DEF TableTypes
<1>3. ASSUME NEW e \in StripeEvent, NEW c \in Content, ReceiveAgain(e, c) PROVE TypeOK'
  <2> USE <1>3 DEF ReceiveAgain, runState, attempt, Acknowledge
  <2>1. AttemptTypes' /\ failures' \in 0..MaxFailures
    BY <1>0 DEF AttemptTypes
  <2>2. TableTypes'
    BY <1>0 DEF TableTypes
  <2> QED
    BY <2>1, <2>2, SplitTypes
<1>4. ASSUME NEW w \in Worker, Works(w) PROVE TypeOK'
  <2>1. /\ AttemptTypes' /\ failures' \in 0..MaxFailures /\ queued' = queued /\ receipt' = receipt
        /\ acks' = acks /\ done' \subseteq {j \in Jobs : queued'[j] = 1} /\ Writes(w)
    BY <1>4, WorkerStep
  <2>2. CASE Quiet
    BY <1>0, <2>1, <2>2, SplitTypes DEF Quiet, TableTypes
  <2>3. ASSUME NEW e \in StripeEvent,
               NEW s \in [state : {"unmatched", "ignored"}, code : Codes, run : {None}],
               GivesUp(w, e, s)
        PROVE  TypeOK'
    <3>1. s \in Statuses
      BY DEF Statuses
    <3>2. status' \in [StripeEvent -> Statuses]
      BY <1>0, <2>3, <3>1 DEF GivesUp, TableTypes
    <3>3. UNCHANGED <<count, ledger, report, asserted, evidence, merchant>>
      BY <2>3 DEF GivesUp
    <3> QED
      BY <1>0, <2>1, <3>2, <3>3, SplitTypes DEF TableTypes
  <2>4. ASSUME NEW e \in StripeEvent, NEW r \in Run, Records(w, e, r)
        PROVE  TypeOK'
    <3> DEFINE s == [state |-> "matched", code |-> None, run |-> r]
               row == [seq |-> count[r] + 1, id |-> e]
               list == AddAssertion(report[r].asserts, Correlated)
    <3>1. s \in Statuses /\ row \in LedgerRows /\ Correlated \in Assertions /\ count[r] \in Nat
      BY <1>0 DEF Statuses, LedgerRows, Correlated, Assertions, TableTypes
    <3>2. list \in Seq(Assertions)
      BY <1>0, <3>1, AddedTypes DEF TableTypes, Reports
    <3>3. [count |-> count[r] + 1, asserts |-> list] \in Reports
      BY <3>1, <3>2 DEF Reports
    <3> HIDE DEF s, row, list
    <3>4. /\ status' = [status EXCEPT ![e] = s] /\ ledger' = [ledger EXCEPT ![r] = @ \cup {row}]
          /\ report' = [report EXCEPT ![r] = [count |-> count[r] + 1, asserts |-> list]]
          /\ count' = [count EXCEPT ![r] = count[r] + 1]
          /\ evidence' = evidence \cup {<<e, r>>}
      BY <2>4 DEF Records, s, row, list
    <3>5. status' \in [StripeEvent -> Statuses] /\ ledger' \in [Run -> SUBSET LedgerRows]
      BY <1>0, <3>1, <3>4 DEF TableTypes
    <3>6. report' \in [Run -> Reports] /\ count' \in [Run -> Nat] /\ evidence' \subseteq StripeEvent \X Run
      BY <1>0, <3>1, <3>3, <3>4 DEF TableTypes
    <3>7. asserted' \in [Run -> SUBSET Assertions] /\ merchant' = merchant
      BY <1>0, <2>4, <3>1 DEF Records, TableTypes
    <3> QED
      BY <1>0, <2>1, <3>5, <3>6, <3>7, SplitTypes DEF TableTypes
  <2>5. ASSUME NEW r \in Run, Verifies(w, r) PROVE TypeOK'
    <3>1. Verified \in Assertions
      BY DEF Verified, Assertions
    <3>2. [count |-> report[r].count, asserts |-> Append(report[r].asserts, Verified)] \in Reports
      BY <1>0, <3>1, AddedTypes DEF TableTypes, Reports
    <3>3. report' \in [Run -> Reports] /\ asserted' \in [Run -> SUBSET Assertions]
      BY <1>0, <2>5, <3>1, <3>2 DEF Verifies, TableTypes
    <3>4. UNCHANGED <<status, count, ledger, evidence, merchant>>
      BY <2>5 DEF Verifies
    <3> QED
      BY <1>0, <2>1, <3>3, <3>4, SplitTypes DEF TableTypes
  <2>6. CASE Deliver(w)
    <3>1. merchant' \in [Run -> 0..2]
      BY <2>6, DeliverTypes
    <3>2. UNCHANGED <<status, count, ledger, report, asserted, evidence>>
      BY <2>6 DEF Deliver, webhooks, runState
    <3> QED
      BY <1>0, <2>1, <3>1, <3>2, SplitTypes DEF TableTypes
  <2> QED
    BY <2>1, <2>2, <2>3, <2>4, <2>5, <2>6 DEF Writes
<1> QED
  BY <1>1, <1>2, <1>3, <1>4, Steps DEF Receives

(* A row that is locked has one holder.                                     *)
LEMMA LocksStep ==
  ASSUME IInv, Next
  PROVE  LocksApart'
<1>1. CASE Receives
  BY <1>1 DEF Receives, CreateRun, ReceiveNew, ReceiveAgain, attempt, IInv, LocksApart
<1>2. ASSUME NEW w \in Worker, Works(w) PROVE LocksApart'
  <2>1. (\A v \in Worker \ {w} : locks'[v] = locks[v]) /\ (Locking(w) \/ Reset(w))
    BY <1>2, WorkerStep DEF Untouched
  <2>2. \A v \in Worker \ {w} : locks'[w] \cap locks[v] = {}
    <3>1. locks \in [Worker -> SUBSET Rows] /\ \A v \in Worker \ {w} : locks[w] \cap locks[v] = {}
      BY DEF IInv, TypeOK, LocksApart
    <3>2. CASE Reset(w)
      BY <3>1, <3>2 DEF Reset
    <3>3. CASE Locking(w)
      BY <3>1, <3>3 DEF Locking, Free
    <3> QED
      BY <2>1, <3>2, <3>3
  <2> QED
    BY <2>1, <2>2 DEF IInv, LocksApart
<1> QED
  BY <1>1, <1>2, Steps

(* A job is queued with the receipt or the run it is for, once.             *)
LEMMA QueueStep ==
  ASSUME IInv, Next
  PROVE  QueueTrue'
<1>0. TableTypes /\ QueueTrue
  BY SplitTypes DEF IInv
<1>1. ASSUME NEW r \in Run, CreateRun(r) PROVE QueueTrue'
  <2>1. receipt' = receipt /\ count' = [count EXCEPT ![r] = 1] /\ count[r] = 0
    BY <1>1 DEF CreateRun, webhooks
  <2>2. queued' = [queued EXCEPT ![[kind |-> "verification", id |-> r]] = 1]
    <3>1. queued[[kind |-> "verification", id |-> r]] = 0
      BY <1>0, <2>1 DEF QueueTrue
    <3> QED
      BY <1>0, <1>1, <3>1 DEF CreateRun, TableTypes, Jobs
  <2> QED
    BY <1>0, <2>1, <2>2 DEF QueueTrue, TableTypes, Jobs
<1>2. ASSUME NEW e \in StripeEvent, NEW c \in Content, ReceiveNew(e, c) PROVE QueueTrue'
  <2>1. count' = count /\ receipt' = [receipt EXCEPT ![e] = c] /\ receipt[e] = None /\ c # None
    BY <1>2, EvidenceConstants DEF ReceiveNew, runState
  <2>2. queued' = [queued EXCEPT ![[kind |-> "webhook", id |-> e]] = 1]
    <3>1. queued[[kind |-> "webhook", id |-> e]] = 0
      BY <1>0, <2>1 DEF QueueTrue
    <3> QED
      BY <1>0, <1>2, <3>1 DEF ReceiveNew, TableTypes, Jobs
  <2> QED
    BY <1>0, <2>1, <2>2 DEF QueueTrue, TableTypes, Jobs
<1>3. ASSUME NEW e \in StripeEvent, NEW c \in Content, ReceiveAgain(e, c) PROVE QueueTrue'
  BY <1>0, <1>3 DEF ReceiveAgain, runState, QueueTrue
<1>4. ASSUME NEW w \in Worker, Works(w) PROVE QueueTrue'
  <2>1. queued' = queued /\ receipt' = receipt /\ Writes(w)
    BY <1>4, WorkerStep
  <2>2. \A r \in Run : count'[r] = 0 <=> count[r] = 0
    <3>1. ASSUME NEW e \in StripeEvent, NEW q \in Run, Records(w, e, q)
          PROVE  \A r \in Run : count'[r] = 0 <=> count[r] = 0
      BY <1>0, <3>1 DEF Records, TableTypes
    <3> QED
      BY <2>1, <3>1 DEF Writes, Quiet, GivesUp, Verifies, Deliver, runState
  <2> QED
    BY <1>0, <2>1, <2>2 DEF QueueTrue
<1> QED
  BY <1>1, <1>2, <1>3, <1>4, Steps DEF Receives

(* What an attempt relies on: its own state, a receipt once stored, a run   *)
(* once created, and the rows it has locked.                                *)
Relied(v) ==
    /\ Untouched(v)
    /\ \A e \in StripeEvent : receipt[e] # None => receipt'[e] = receipt[e]
    /\ \A r \in Run : count[r] > 0 => count'[r] > 0
    /\ \A e \in StripeEvent : <<"event", e>> \in locks[v] => status'[e] = status[e]
    /\ \A r \in Run : <<"run", r>> \in locks[v] /\ count[r] > 0 => count'[r] = count[r]
    /\ \A r \in Run : <<"report", r>> \in locks[v] /\ count[r] > 0 => report'[r] = report[r]

(* No step of the API or of another worker changes what an attempt relies on. *)
LEMMA Isolation ==
  ASSUME IInv
  PROVE  /\ Receives => \A v \in Worker : Relied(v)
         /\ \A w \in Worker : Works(w) => \A v \in Worker \ {w} : Relied(v)
<1>0. TableTypes
  BY SplitTypes DEF IInv
<1>1. ASSUME Receives, NEW v \in Worker PROVE Relied(v)
  <2>1. Untouched(v) /\ status' = status
    BY <1>1 DEF Receives, CreateRun, ReceiveNew, ReceiveAgain, attempt, webhooks, Untouched
  <2>2. \A e \in StripeEvent : receipt[e] # None => receipt'[e] = receipt[e]
    BY <1>0, <1>1 DEF Receives, CreateRun, ReceiveNew, ReceiveAgain, webhooks, TableTypes
  <2>3. \A r \in Run : count[r] > 0 => count'[r] = count[r] /\ report'[r] = report[r]
    <3>1. ASSUME NEW q \in Run, CreateRun(q)
          PROVE  \A r \in Run : count[r] > 0 => count'[r] = count[r] /\ report'[r] = report[r]
      <4>1. count[q] = 0 /\ \A r \in Run : r # q => count'[r] = count[r] /\ report'[r] = report[r]
        BY <1>0, <3>1 DEF CreateRun, TableTypes
      <4> QED
        BY <4>1
    <3>2. ASSUME NEW e \in StripeEvent, NEW c \in Content, ReceiveNew(e, c) \/ ReceiveAgain(e, c)
          PROVE  count' = count /\ report' = report
      BY <3>2 DEF ReceiveNew, ReceiveAgain, runState
    <3> QED
      BY <1>1, <3>1, <3>2 DEF Receives
  <2> QED
    BY <2>1, <2>2, <2>3 DEF Relied
<1>2. ASSUME NEW w \in Worker, Works(w), NEW v \in Worker \ {w} PROVE Relied(v)
  <2>1. Untouched(v) /\ receipt' = receipt /\ Writes(w)
    BY <1>2, WorkerStep
  <2>2. locks[w] \cap locks[v] = {}
    BY DEF IInv, LocksApart
  <2>3. /\ \A e \in StripeEvent : <<"event", e>> \in locks[v] => status'[e] = status[e]
        /\ \A r \in Run : count[r] > 0 => count'[r] > 0
        /\ \A r \in Run : <<"run", r>> \in locks[v] => count'[r] = count[r]
        /\ \A r \in Run : <<"report", r>> \in locks[v] => report'[r] = report[r]
    <3>1. CASE Quiet \/ Deliver(w)
      BY <3>1 DEF Quiet, Deliver, webhooks, runState
    <3>2. ASSUME NEW e \in StripeEvent,
                 NEW s \in [state : {"unmatched", "ignored"}, code : Codes, run : {None}],
                 GivesUp(w, e, s)
          PROVE  /\ \A x \in StripeEvent : <<"event", x>> \in locks[v] => status'[x] = status[x]
                 /\ count' = count /\ report' = report
      BY <1>0, <2>2, <3>2 DEF GivesUp, TableTypes
    <3>3. ASSUME NEW e \in StripeEvent, NEW q \in Run, Records(w, e, q)
          PROVE  /\ \A x \in StripeEvent : <<"event", x>> \in locks[v] => status'[x] = status[x]
                 /\ \A r \in Run : count[r] > 0 => count'[r] > 0
                 /\ \A r \in Run : <<"run", r>> \in locks[v] => count'[r] = count[r]
                 /\ \A r \in Run : <<"report", r>> \in locks[v] => report'[r] = report[r]
      <4>1. <<"event", e>> \notin locks[v] /\ <<"run", q>> \notin locks[v] /\ <<"report", q>> \notin locks[v]
        BY <2>2, <3>3 DEF Records
      <4>2. \A x \in StripeEvent : x # e => status'[x] = status[x]
        BY <1>0, <3>3 DEF Records, TableTypes
      <4>3. \A r \in Run : r # q => count'[r] = count[r] /\ report'[r] = report[r]
        BY <1>0, <3>3 DEF Records, TableTypes
      <4>4. count'[q] > 0
        BY <1>0, <3>3 DEF Records, TableTypes
      <4> QED
        BY <4>1, <4>2, <4>3, <4>4
    <3>4. ASSUME NEW q \in Run, Verifies(w, q)
          PROVE  /\ status' = status /\ count' = count
                 /\ \A r \in Run : <<"report", r>> \in locks[v] => report'[r] = report[r]
      BY <1>0, <2>2, <3>4 DEF Verifies, TableTypes
    <3> QED
      BY <2>1, <3>1, <3>2, <3>3, <3>4 DEF Writes
  <2> QED
    BY <2>1, <2>3 DEF Relied
<1> QED
  BY <1>1, <1>2

(* What an attempt has read stays true while it relies on it.               *)
LEMMA KeptTrue ==
  ASSUME IInv, NEW v \in Worker, Relied(v)
  PROVE  AttemptTrue(v)'
<1>1. AttemptTrue(v) /\ cand[v] \subseteq Run
  BY DEF IInv, AttemptsTrue, TypeOK
<1>2. /\ pc'[v] = pc[v] /\ task'[v] = task[v] /\ locks'[v] = locks[v]
      /\ cand'[v] = cand[v] /\ seq'[v] = seq[v] /\ seen'[v] = seen[v] /\ Job(v)' = Job(v)
  BY DEF Relied, Untouched, Job
<1>3. ASSUME pc[v] \in {"event", "select", "locking", "report", "write"}
      PROVE  /\ Job(v) \in StripeEvent /\ receipt[Job(v)] # None /\ task[v].kind = "webhook"
             /\ receipt'[Job(v)] = receipt[Job(v)] /\ Matches(v)' = Matches(v)
  <2>1. /\ Job(v) \in StripeEvent /\ receipt[Job(v)] # None /\ task[v].kind = "webhook"
    BY <1>1, <1>3 DEF AttemptTrue
  <2>2. receipt'[Job(v)] = receipt[Job(v)]
    BY <2>1 DEF Relied
  <2> QED
    BY <1>2, <2>1, <2>2 DEF Matches
<1>4. ASSUME pc[v] \in {"relay", "record"}
      PROVE  task[v].kind = "verification" /\ Job(v) \in Run /\ count[Job(v)] > 0 /\ count'[Job(v)] > 0
  BY <1>1, <1>4 DEF AttemptTrue, Relied
<1>5. ASSUME pc[v] \in {"select", "locking", "report", "write"}
      PROVE  <<"event", Job(v)>> \in locks[v] /\ status[Job(v)] = Pending /\ status'[Job(v)] = Pending
  BY <1>1, <1>3, <1>5 DEF AttemptTrue, Relied
<1>6. ASSUME pc[v] \in {"locking", "report", "write"}
      PROVE  \A r \in cand[v] : count'[r] > 0 /\ Shape[r].object = receipt'[Job(v)].object
  BY <1>1, <1>3, <1>6 DEF AttemptTrue, Relied
<1>7. ASSUME pc[v] \in {"report", "write"}
      PROVE  \E r \in Run : /\ Matches(v)' = {r} /\ <<"run", r>> \in locks[v]
                            /\ seq[v] = count'[r] + 1
  <2>1. PICK r \in Run : Matches(v) = {r} /\ <<"run", r>> \in locks[v] /\ seq[v] = count[r] + 1
    BY <1>1, <1>7 DEF AttemptTrue
  <2>2. count[r] > 0
    BY <1>1, <1>7, <2>1, OneMatch DEF AttemptTrue
  <2>3. count'[r] = count[r]
    BY <2>1, <2>2 DEF Relied
  <2> QED
    BY <1>3, <1>7, <2>1, <2>3
<1>8. ASSUME pc[v] = "write"
      PROVE  <<"report", Match(v)'>> \in locks[v] /\ seen[v] = report'[Match(v)']
  <2>1. PICK r \in Run : Matches(v) = {r}
    BY <1>1, <1>8 DEF AttemptTrue
  <2>2. Match(v) = r /\ r \in cand[v]
    BY <2>1, OneMatch
  <2>3. Match(v)' = Match(v)
    BY <1>3, <1>8 DEF Match
  <2>4. count[r] > 0 /\ <<"report", r>> \in locks[v] /\ seen[v] = report[r]
    BY <1>1, <1>8, <2>2 DEF AttemptTrue
  <2>5. report'[r] = report[r]
    BY <2>4 DEF Relied
  <2> QED
    BY <2>2, <2>3, <2>4, <2>5
<1>9. ASSUME pc[v] = "record"
      PROVE  <<"report", Job(v)>> \in locks[v] /\ seen[v] = report'[Job(v)]
  BY <1>1, <1>4, <1>9 DEF AttemptTrue, Relied
<1> QED
  BY <1>2, <1>3, <1>4, <1>5, <1>6, <1>7, <1>8, <1>9 DEF AttemptTrue

(* What each attempt has read and locked is still so.                       *)
LEMMA AttemptsStep ==
  ASSUME IInv, Next
  PROVE  AttemptsTrue'
<1>0. TableTypes /\ AttemptTypes /\ AttemptsTrue
  BY SplitTypes DEF IInv
<1>1. CASE Receives
  BY <1>1, Isolation, KeptTrue DEF AttemptsTrue
<1>2. ASSUME NEW w \in Worker, Works(w) PROVE AttemptsTrue'
  <2>1. \A v \in Worker \ {w} : AttemptTrue(v)'
    BY <1>2, Isolation, KeptTrue
  <2>2. AttemptTrue(w)'
    <3>0. AttemptTrue(w)
      BY <1>0 DEF AttemptsTrue
    <3>1. CASE Reset(w)
      BY <1>0, <3>1 DEF Reset, AttemptTypes, AttemptTrue
    <3>2. ASSUME NEW j \in Jobs, Start(w, j) PROVE AttemptTrue(w)'
      <4>1. /\ pc'[w] = (IF j.kind = "webhook" THEN "event" ELSE "relay")
            /\ task'[w] = j /\ queued[j] > 0 /\ receipt' = receipt /\ count' = count
        BY <1>0, <3>2 DEF Start, AttemptTypes, webhooks, runState
      <4>2. CASE j.kind = "webhook"
        <5>1. j.id \in StripeEvent /\ j = [kind |-> "webhook", id |-> j.id]
          BY <4>2 DEF Jobs
        <5>2. receipt[j.id] # None
          BY <4>1, <5>1 DEF IInv, QueueTrue
        <5> QED
          BY <4>1, <4>2, <5>1, <5>2 DEF AttemptTrue, Job
      <4>3. CASE j.kind # "webhook"
        <5>1. j.id \in Run /\ j = [kind |-> "verification", id |-> j.id] /\ j.kind = "verification"
          BY <4>3 DEF Jobs
        <5>2. count[j.id] # 0 /\ count[j.id] \in Nat
          BY <1>0, <4>1, <5>1 DEF IInv, QueueTrue, TableTypes
        <5> QED
          BY <4>1, <4>3, <5>1, <5>2 DEF AttemptTrue, Job
      <4> QED
        BY <4>2, <4>3
    <3>3. CASE LockEvent(w)
      <4>1. /\ pc[w] = "event" /\ pc'[w] = "select" /\ task' = task /\ receipt' = receipt
            /\ status' = status /\ status[Job(w)] = Pending /\ <<"event", Job(w)>> \in locks'[w]
        BY <1>0, <3>3 DEF LockEvent, AttemptTypes, webhooks
      <4> QED
        BY <3>0, <4>1 DEF AttemptTrue, Job
    <3>4. CASE SelectRuns(w)
      <4>1. /\ pc[w] = "select" /\ pc'[w] = "locking" /\ task' = task /\ receipt' = receipt
            /\ status' = status /\ locks' = locks /\ count' = count
            /\ cand'[w] = {r \in Run : count[r] > 0 /\ Shape[r].object = receipt[Job(w)].object}
        BY <1>0, <3>4 DEF SelectRuns, AttemptTypes, webhooks, runState
      <4> QED
        BY <3>0, <4>1 DEF AttemptTrue, Job
    <3>5. CASE LockRun(w)
      <4>1. /\ pc[w] = "locking" /\ pc'[w] = "locking" /\ task' = task /\ receipt' = receipt
            /\ status' = status /\ locks[w] \subseteq locks'[w] /\ count' = count
            /\ cand' = cand
        BY <1>0, <3>5 DEF LockRun, AttemptTypes, webhooks, runState
      <4> QED
        BY <3>0, <4>1 DEF AttemptTrue, Job
    <3>6. CASE ReadSequence(w)
      <4>1. /\ pc[w] = "locking" /\ pc'[w] = "report" /\ task' = task /\ receipt' = receipt
            /\ status' = status /\ locks' = locks /\ count' = count /\ cand' = cand
            /\ Unlocked(w) = {}
        BY <1>0, <3>6 DEF ReadSequence, AttemptTypes, webhooks, runState
      <4>2. PICK r \in Run : Matches(w) = {r} /\ seq' = [seq EXCEPT ![w] = count[r] + 1]
        BY <3>6, SequenceRead
      <4>3. r \in cand[w] /\ <<"run", r>> \in locks[w]
        BY <4>1, <4>2, OneMatch DEF Unlocked
      <4>4. Matches(w)' = {r} /\ seq'[w] = count'[r] + 1
        BY <1>0, <4>1, <4>2 DEF Matches, Job, AttemptTypes
      <4> QED
        BY <3>0, <4>1, <4>3, <4>4 DEF AttemptTrue, Job
    <3>7. CASE LockReport(w)
      <4>1. /\ pc[w] = "report" /\ pc'[w] = "write" /\ task' = task /\ receipt' = receipt
            /\ status' = status /\ count' = count /\ cand' = cand /\ report' = report
            /\ locks'[w] = locks[w] \cup {<<"report", Match(w)>>} /\ seen'[w] = report[Match(w)]
            /\ seq' = seq
        BY <1>0, <3>7 DEF LockReport, TakeReport, AttemptTypes, webhooks, runState
      <4>2. Job(w)' = Job(w) /\ Matches(w)' = Matches(w) /\ Match(w)' = Match(w)
        BY <4>1 DEF Matches, Match, Job
      <4> QED
        BY <3>0, <4>1, <4>2 DEF AttemptTrue
    <3>8. CASE ReadReport(w)
      <4>1. /\ pc[w] = "relay" /\ pc'[w] = "record" /\ task' = task /\ count' = count
            /\ report' = report
            /\ locks'[w] = locks[w] \cup {<<"report", Job(w)>>} /\ seen'[w] = report[Job(w)]
        BY <1>0, <3>8 DEF ReadReport, TakeReport, AttemptTypes, webhooks, runState
      <4> QED
        BY <3>0, <4>1 DEF AttemptTrue, Job
    <3>9. CASE Deliver(w)
      <4>1. pc[w] = "relay" /\ pc' = pc /\ task' = task /\ count' = count
        BY <3>9 DEF Deliver, runState
      <4> QED
        BY <3>0, <4>1 DEF AttemptTrue, Job
    <3>10. \/ Reset(w) \/ \E j \in Jobs : Start(w, j)
           \/ LockEvent(w) \/ SelectRuns(w) \/ LockRun(w) \/ ReadSequence(w) \/ LockReport(w)
           \/ ReadReport(w) \/ Deliver(w)
      BY <1>2 DEF Works, ProcessStripeWebhook, ProcessVerification, AlreadyProcessed, RejectReceipt,
                  FinishUnmatched, Finish, CommitMatched, AlreadyRecorded, CommitVerification, Commit,
                  Abort, BreakDeadlock, Fail
    <3> QED
      BY <3>1, <3>2, <3>3, <3>4, <3>5, <3>6, <3>7, <3>8, <3>9, <3>10
  <2> QED
    BY <2>1, <2>2 DEF AttemptsTrue
<1> QED
  BY <1>1, <1>2, Steps

(* A delivery brings the merchant to the newest sequence number, where it   *)
(* stays, and the attempt's tally towards passing.                          *)
LEMMA Delivered ==
  ASSUME IInv, NEW w \in Worker, Deliver(w)
  PROVE  /\ \A r \in Run : merchant'[r] \in {merchant[r], Newest(Shape[r].fault)}
         /\ RelayAt(w)'
<1> DEFINE r == Job(w)
           fault == Shape[r].fault
           n == Head(todo[w])
<1>1. /\ pc[w] = "relay" /\ pc' = pc /\ Job(w)' = r /\ todo[w] # <<>> /\ r \in Run
      /\ fault \in Fault
  BY EvidenceConstants DEF Deliver, Job, IInv, AttemptsTrue, AttemptTrue
<1>2. merchant[r] \in {0, Newest(fault)} /\ RelayAt(w)
  BY <1>1 DEF IInv, RelayTrue
<1>3. AttemptTypes /\ TableTypes
  BY SplitTypes DEF IInv
<1>4. todo'[w] = Tail(todo[w])
  BY <1>3 DEF Deliver, AttemptTypes
<1>5. \A q \in Run : q # r => merchant'[q] = merchant[q]
  BY DeliverTypes
<1>6. ASSUME n = 0
      PROVE  /\ tally'[w].effects = 0 /\ tally'[w].rejected = tally[w].rejected + 1
             /\ merchant'[r] = merchant[r]
  BY <1>3, <1>6 DEF Deliver, AttemptTypes
<1>7. ASSUME n > 0
      PROVE  /\ tally'[w].effects = 1 /\ tally'[w].rejected = tally[w].rejected
             /\ tally'[w].duplicates = (IF merchant[r] > 0 THEN tally[w].duplicates + 1
                                        ELSE tally[w].duplicates)
             /\ merchant'[r] = (IF n > merchant[r] THEN n ELSE merchant[r])
  <2>1. ~(n = 0)
    BY <1>7
  <2> QED
    BY <1>1, <1>3, <1>7, <2>1 DEF Deliver, AttemptTypes, TableTypes
<1>8. tally[w].duplicates \in Nat /\ merchant[r] \in 0..2
  BY <1>1, <1>3 DEF AttemptTypes, TableTypes
<1>9. SUFFICES /\ merchant'[r] \in {merchant[r], Newest(fault)}
               /\ \/ /\ fault \in {"duplicate", "reorder"} /\ todo'[w] = <<1>>
                     /\ merchant'[r] = Newest(fault) /\ tally'[w].effects = 1 /\ tally'[w].rejected = 0
                  \/ todo'[w] = <<>> /\ merchant'[r] = Newest(fault) /\ Passed(fault, tally'[w])
  BY <1>1, <1>5, <1>9 DEF RelayAt
<1> HIDE DEF r, fault
<1>10. CASE todo[w] = Deliveries(fault) /\ tally[w] = NoTally
  <2>0. tally[w].rejected = 0 /\ tally[w].effects = 0
    BY <1>10 DEF NoTally
  <2>1. CASE fault \in {"none", "timeout"}
    <3>1. n = 1 /\ todo'[w] = <<>>
      BY <1>4, <1>10, <2>1 DEF Deliveries
    <3>2. merchant'[r] = 1 /\ tally'[w].effects = 1 /\ tally'[w].rejected = 0
      BY <1>2, <1>7, <2>0, <2>1, <3>1 DEF Newest
    <3> QED
      BY <2>1, <3>1, <3>2 DEF Newest, Passed
  <2>2. CASE fault = "duplicate"
    <3>1. n = 1 /\ todo'[w] = <<1>>
      BY <1>4, <1>10, <2>2 DEF Deliveries
    <3>2. merchant'[r] = 1 /\ tally'[w].effects = 1 /\ tally'[w].rejected = 0
      BY <1>2, <1>7, <2>0, <2>2, <3>1 DEF Newest
    <3> QED
      BY <2>2, <3>1, <3>2 DEF Newest
  <2>3. CASE fault = "reorder"
    <3>1. n = 2 /\ todo'[w] = <<1>>
      BY <1>4, <1>10, <2>3 DEF Deliveries
    <3>2. merchant'[r] = 2 /\ tally'[w].effects = 1 /\ tally'[w].rejected = 0
      BY <1>2, <1>7, <2>0, <2>3, <3>1 DEF Newest
    <3> QED
      BY <2>3, <3>1, <3>2 DEF Newest
  <2>4. CASE fault = "tamper"
    <3>1. n = 0 /\ todo'[w] = <<>>
      BY <1>4, <1>10, <2>4 DEF Deliveries
    <3>2. merchant'[r] = 0 /\ tally'[w].effects = 0 /\ tally'[w].rejected = 1
      BY <1>2, <1>6, <2>0, <2>4, <3>1 DEF Newest
    <3> QED
      BY <2>4, <3>1, <3>2 DEF Newest, Passed
  <2> QED
    BY <1>1, <2>1, <2>2, <2>3, <2>4 DEF Fault
<1>11. CASE /\ fault \in {"duplicate", "reorder"} /\ todo[w] = <<1>>
            /\ merchant[r] = Newest(fault) /\ tally[w].effects = 1 /\ tally[w].rejected = 0
  <2>1. n = 1 /\ todo'[w] = <<>>
    BY <1>4, <1>11
  <2>2. merchant[r] >= 1 /\ merchant'[r] = Newest(fault)
    BY <1>7, <1>11, <2>1 DEF Newest
  <2>3. tally'[w].effects = 1 /\ tally'[w].rejected = 0 /\ tally'[w].duplicates >= 1
    BY <1>7, <1>8, <1>11, <2>1, <2>2
  <2> QED
    BY <1>11, <2>1, <2>2, <2>3 DEF Passed
<1> QED
  BY <1>1, <1>2, <1>10, <1>11 DEF RelayAt, r, fault

(* The relay's deliveries reach the verdict whatever earlier attempts did.  *)
LEMMA RelayStep ==
  ASSUME IInv, Next
  PROVE  RelayTrue'
<1>0. AttemptTypes /\ TableTypes /\ RelayTrue
  BY SplitTypes DEF IInv
<1>1. /\ \A r \in Run : merchant[r] \in {0, Newest(Shape[r].fault)}
      /\ \A w \in Worker : pc[w] \in {"relay", "record"} => RelayAt(w) /\ Job(w) \in Run
  BY DEF IInv, RelayTrue, AttemptsTrue, AttemptTrue
<1>2. SUFFICES /\ \A r \in Run : merchant'[r] \in {0, Newest(Shape[r].fault)}
               /\ \A w \in Worker : pc'[w] \in {"relay", "record"} => RelayAt(w)'
  <2>1. \A w \in Worker : pc'[w] = "idle" => tally'[w] = NoTally
    <3>1. CASE Receives
      BY <1>0, <3>1 DEF Receives, CreateRun, ReceiveNew, ReceiveAgain, attempt, RelayTrue
    <3>2. ASSUME NEW w \in Worker, Works(w)
          PROVE  \A v \in Worker : pc'[v] = "idle" => tally'[v] = NoTally
      <4>1. \A v \in Worker \ {w} : pc'[v] = pc[v] /\ tally'[v] = tally[v]
        BY <3>2, WorkerStep DEF Untouched
      <4>2. Reset(w) \/ pc'[w] # "idle"
        BY <1>0, <3>2 DEF Works, ProcessStripeWebhook, ProcessVerification, AlreadyProcessed, RejectReceipt,
               FinishUnmatched, Finish, CommitMatched, AlreadyRecorded, CommitVerification, Commit,
               Abort, BreakDeadlock, Fail, Start, LockEvent, SelectRuns, LockRun, ReadSequence,
               LockReport, Deliver, ReadReport, AttemptTypes
      <4>3. Reset(w) => tally'[w] = NoTally
        BY <1>0 DEF Reset, AttemptTypes
      <4> QED
        BY <1>0, <4>1, <4>2, <4>3 DEF RelayTrue
    <3> QED
      BY <3>1, <3>2, Steps
  <2> QED
    BY <1>2, <2>1 DEF RelayTrue
<1>3. ASSUME NEW v \in Worker, Untouched(v), pc'[v] \in {"relay", "record"},
             \A r \in Run : merchant'[r] \in {merchant[r], Newest(Shape[r].fault)}
      PROVE  RelayAt(v)'
  <2>1. RelayAt(v) /\ Job(v) \in Run /\ Job(v)' = Job(v) /\ merchant'[Job(v)] \in {merchant[Job(v)], Newest(Shape[Job(v)].fault)}
    BY <1>1, <1>3 DEF Untouched, Job
  <2>2. pc'[v] = pc[v] /\ todo'[v] = todo[v] /\ tally'[v] = tally[v]
    BY <1>3 DEF Untouched
  <2> QED
    BY <2>1, <2>2 DEF RelayAt
<1>4. CASE Receives
  <2>1. merchant' = merchant /\ \A v \in Worker : Untouched(v)
    BY <1>4 DEF Receives, CreateRun, ReceiveNew, ReceiveAgain, attempt, Untouched
  <2> QED
    BY <1>1, <1>3, <2>1
<1>5. ASSUME NEW w \in Worker, Works(w)
      PROVE  /\ \A r \in Run : merchant'[r] \in {0, Newest(Shape[r].fault)}
             /\ \A v \in Worker : pc'[v] \in {"relay", "record"} => RelayAt(v)'
  <2>1. (\A v \in Worker \ {w} : Untouched(v)) /\ Writes(w)
    BY <1>5, WorkerStep
  <2>2. \A r \in Run : merchant'[r] \in {merchant[r], Newest(Shape[r].fault)}
    <3>1. CASE Deliver(w)
      BY <3>1, Delivered
    <3> QED
      BY <2>1, <3>1 DEF Writes, Quiet, GivesUp, Records, Verifies
  <2>3. \A v \in Worker \ {w} : pc'[v] \in {"relay", "record"} => RelayAt(v)'
    BY <1>3, <2>1, <2>2
  <2>4. pc'[w] \in {"relay", "record"} => RelayAt(w)'
    <3>1. CASE Deliver(w)
      BY <3>1, Delivered
    <3>2. ASSUME NEW j \in Jobs, Start(w, j), pc'[w] = "relay" PROVE RelayAt(w)'
      <4>1. task'[w] = j /\ tally' = tally /\ todo'[w] = Deliveries(Shape[j.id].fault)
        BY <1>0, <3>2 DEF Start, AttemptTypes
      <4>2. tally[w] = NoTally
        BY <1>0, <3>2 DEF Start, RelayTrue
      <4> QED
        BY <3>2, <4>1, <4>2 DEF RelayAt, Job
    <3>3. CASE ReadReport(w)
      <4>1. /\ pc[w] = "relay" /\ todo[w] = <<>> /\ todo' = todo /\ tally' = tally /\ merchant' = merchant
            /\ Job(w)' = Job(w)
        BY <3>3 DEF ReadReport, Job
      <4>2. Deliveries(Shape[Job(w)].fault) # <<>> /\ <<1>> # <<>>
        <5>1. Shape[Job(w)].fault \in Fault
          BY <1>1, <4>1, EvidenceConstants
        <5> QED
          BY <5>1 DEF Fault, Deliveries
      <4>3. merchant[Job(w)] = Newest(Shape[Job(w)].fault) /\ Passed(Shape[Job(w)].fault, tally[w])
        BY <1>1, <4>1, <4>2 DEF RelayAt
      <4> QED
        BY <4>1, <4>3 DEF RelayAt
    <3>4. \/ Deliver(w) \/ (\E j \in Jobs : Start(w, j)) \/ ReadReport(w)
          \/ pc'[w] \notin {"relay", "record"}
      BY <1>0, <1>5 DEF Works, ProcessStripeWebhook, ProcessVerification, AlreadyProcessed, RejectReceipt,
             FinishUnmatched, Finish, CommitMatched, AlreadyRecorded, CommitVerification, Commit, Reset,
             Abort, BreakDeadlock, Fail, LockEvent, SelectRuns, LockRun, ReadSequence, LockReport,
             AttemptTypes
    <3>5. ASSUME NEW j \in Jobs, Start(w, j) PROVE pc'[w] \in {"event", "relay"}
      BY <1>0, <3>5 DEF Start, AttemptTypes
    <3> QED
      BY <3>1, <3>2, <3>3, <3>4, <3>5
  <2> QED
    BY <1>1, <2>2, <2>3, <2>4
<1> QED
  BY <1>4, <1>5, Steps

(* A run that was not created has no event row.                             *)
LEMMA NoRowsYet ==
  ASSUME IInv, NEW r \in Run, count[r] = 0
  PROVE  ledger[r] = {}
  BY FS_EmptySet DEF IInv, LedgerConsistent, RowsTrue

(* A pending event has left no trace in any run.                            *)
LEMMA PendingHasNoRow ==
  ASSUME IInv, NEW e \in StripeEvent, status[e] = Pending, NEW r \in Run
  PROVE  (\A row \in ledger[r] : row.id # e) /\ <<e, r>> \notin evidence
  BY DEF IInv, MatchedExactlyOnce, Pending

(* The tables stay finite, and only receipts are processed.                 *)
LEMMA RowsStep ==
  ASSUME IInv, Next
  PROVE  RowsTrue'
<1>0. TableTypes /\ RowsTrue
  BY SplitTypes DEF IInv
<1>1. ASSUME NEW q \in Run, CreateRun(q) PROVE RowsTrue'
  <2>1. UNCHANGED <<receipt, status, asserted>> /\ count' = [count EXCEPT ![q] = 1]
        /\ ledger' = [ledger EXCEPT ![q] = {Timeline}]
    BY <1>1 DEF CreateRun, webhooks
  <2>2. IsFiniteSet({r \in Run : count'[r] > 0})
    <3>1. {r \in Run : count'[r] > 0} \subseteq {r \in Run : count[r] > 0} \cup {q}
      BY <1>0, <2>1 DEF TableTypes
    <3>2. IsFiniteSet({r \in Run : count[r] > 0} \cup {q})
      BY <1>0, FS_AddElement DEF RowsTrue
    <3> QED
      BY <3>1, <3>2, FS_Subset
  <2>3. \A r \in Run : IsFiniteSet(ledger'[r])
    BY <1>0, <2>1, FS_Singleton DEF TableTypes, RowsTrue
  <2> QED
    BY <1>0, <2>1, <2>2, <2>3 DEF RowsTrue
<1>2. ASSUME NEW e \in StripeEvent, NEW c \in Content, ReceiveNew(e, c) \/ ReceiveAgain(e, c)
      PROVE  RowsTrue'
  <2>1. UNCHANGED <<status, asserted, count, ledger>>
    BY <1>2 DEF ReceiveNew, ReceiveAgain, runState
  <2>2. \A x \in StripeEvent : receipt[x] # None => receipt'[x] # None
    BY <1>0, <1>2, EvidenceConstants DEF ReceiveNew, ReceiveAgain, TableTypes
  <2> QED
    BY <1>0, <2>1, <2>2 DEF RowsTrue
<1>3. ASSUME NEW w \in Worker, Works(w) PROVE RowsTrue'
  <2>1. receipt' = receipt /\ Writes(w)
    BY <1>3, WorkerStep
  <2>2. CASE Quiet \/ Deliver(w)
    BY <1>0, <2>2 DEF Quiet, Deliver, webhooks, runState, RowsTrue
  <2>3. ASSUME NEW e \in StripeEvent,
               NEW s \in [state : {"unmatched", "ignored"}, code : Codes, run : {None}],
               GivesUp(w, e, s)
        PROVE  RowsTrue'
    BY <1>0, <2>1, <2>3 DEF GivesUp, TableTypes, RowsTrue
  <2>4. ASSUME NEW e \in StripeEvent, NEW q \in Run, Records(w, e, q) PROVE RowsTrue'
    <3>1. {r \in Run : count'[r] > 0} = {r \in Run : count[r] > 0}
      BY <1>0, <2>4 DEF Records, TableTypes
    <3>2. \A r \in Run : IsFiniteSet(ledger'[r])
      <4>1. IsFiniteSet(ledger[q] \cup {[seq |-> count[q] + 1, id |-> e]})
        BY <1>0, FS_AddElement DEF RowsTrue
      <4>2. ledger'[q] = ledger[q] \cup {[seq |-> count[q] + 1, id |-> e]}
            /\ \A r \in Run : r # q => ledger'[r] = ledger[r]
        BY <1>0, <2>4 DEF Records, TableTypes
      <4> QED
        BY <1>0, <4>1, <4>2 DEF RowsTrue
    <3>3. \A x \in StripeEvent : status'[x] # Pending => receipt[x] # None
      BY <1>0, <2>4 DEF Records, TableTypes, RowsTrue
    <3>4. \A r \in Run : asserted'[r] \subseteq asserted[r] \cup {Correlated}
      BY <1>0, <2>4 DEF Records, TableTypes
    <3>5. \A r \in Run : \A a \in asserted'[r] : a.id = "webhook_correlated" => a.passed
      BY <1>0, <3>4 DEF RowsTrue, Correlated
    <3> QED
      BY <1>0, <2>1, <3>1, <3>2, <3>3, <3>5 DEF RowsTrue
  <2>5. ASSUME NEW q \in Run, Verifies(w, q) PROVE RowsTrue'
    <3>1. \A r \in Run : asserted'[r] \subseteq asserted[r] \cup {Verified}
      BY <1>0, <2>5 DEF Verifies, TableTypes
    <3>2. \A r \in Run : \A a \in asserted'[r] : a.id = "webhook_correlated" => a.passed
      BY <1>0, <3>1 DEF RowsTrue, Verified
    <3>3. UNCHANGED <<status, count, ledger>>
      BY <2>5 DEF Verifies
    <3> QED
      BY <1>0, <2>1, <3>2, <3>3 DEF RowsTrue
  <2> QED
    BY <2>1, <2>2, <2>3, <2>4, <2>5 DEF Writes
<1> QED
  BY <1>1, <1>2, <1>3, Steps DEF Receives

\* LedgerConsistent for one run.
LedgerOf(r) ==
    /\ count[r] = Cardinality(ledger[r])
    /\ report[r].count = count[r]
    /\ {row.seq : row \in ledger[r]} = 1..count[r]
    /\ \A a, b \in ledger[r] : a.id = b.id => a = b

(* The ledger, the count and its copy move together, without a gap.         *)
LEMMA LedgerStep ==
  ASSUME IInv, Next
  PROVE  LedgerConsistent'
<1>0. TableTypes /\ \A r \in Run : LedgerOf(r)
  BY SplitTypes DEF IInv, LedgerConsistent, LedgerOf
<1>1. SUFFICES \A r \in Run : LedgerOf(r)'
  BY <1>1 DEF LedgerConsistent, LedgerOf
<1>2. ASSUME NEW r \in Run, count'[r] = count[r], ledger'[r] = ledger[r], report'[r].count = report[r].count
      PROVE  LedgerOf(r)'
  BY <1>0, <1>2 DEF LedgerOf
<1>3. ASSUME NEW q \in Run, CreateRun(q), NEW r \in Run PROVE LedgerOf(r)'
  <2>1. r # q => count'[r] = count[r] /\ ledger'[r] = ledger[r] /\ report'[r] = report[r]
    BY <1>0, <1>3 DEF CreateRun, TableTypes
  <2>2. ASSUME r = q PROVE LedgerOf(r)'
    <3>1. count'[r] = 1 /\ ledger'[r] = {Timeline}
      BY <1>0, <1>3, <2>2 DEF CreateRun, TableTypes
    <3>2. report'[r].count = 1
      BY <1>0, <1>3, <2>2 DEF CreateRun, TableTypes, Reports
    <3>3. Cardinality({Timeline}) = 1 /\ {row.seq : row \in {Timeline}} = 1..1
      BY FS_Singleton DEF Timeline
    <3> QED
      BY <3>1, <3>2, <3>3 DEF LedgerOf
  <2> QED
    BY <1>2, <2>1, <2>2
<1>4. ASSUME NEW e \in StripeEvent, NEW c \in Content, ReceiveNew(e, c) \/ ReceiveAgain(e, c)
      PROVE  \A r \in Run : LedgerOf(r)'
  BY <1>2, <1>4 DEF ReceiveNew, ReceiveAgain, runState
<1>5. ASSUME NEW w \in Worker, Works(w), NEW r \in Run PROVE LedgerOf(r)'
  <2>1. Writes(w)
    BY <1>5, WorkerStep
  <2>2. CASE Quiet \/ Deliver(w)
    BY <1>2, <2>2 DEF Quiet, Deliver, runState
  <2>3. ASSUME NEW e \in StripeEvent,
               NEW s \in [state : {"unmatched", "ignored"}, code : Codes, run : {None}],
               GivesUp(w, e, s)
        PROVE  LedgerOf(r)'
    BY <1>2, <2>3 DEF GivesUp
  <2>4. ASSUME NEW e \in StripeEvent, NEW q \in Run, Records(w, e, q) PROVE LedgerOf(r)'
    <3>1. r # q => count'[r] = count[r] /\ ledger'[r] = ledger[r] /\ report'[r] = report[r]
      BY <1>0, <2>4 DEF Records, TableTypes
    <3>2. ASSUME r = q PROVE LedgerOf(r)'
      <4> DEFINE row == [seq |-> count[r] + 1, id |-> e]
      <4>1. count'[r] = count[r] + 1 /\ ledger'[r] = ledger[r] \cup {row} /\ count[r] \in Nat
        BY <1>0, <2>4, <3>2 DEF Records, TableTypes
      <4>2. report'[r].count = count[r] + 1
        BY <1>0, <2>4, <3>2 DEF Records, TableTypes
      <4>3. LedgerOf(r) /\ IsFiniteSet(ledger[r]) /\ \A x \in ledger[r] : x.id # e
        BY <1>0, <2>4, PendingHasNoRow DEF Records, IInv, RowsTrue
      <4>4. row \notin ledger[r] /\ row.id = e /\ row.seq = count[r] + 1
        BY <4>3
      <4> HIDE DEF row
      <4>5. Cardinality(ledger'[r]) = count[r] + 1
        BY <4>1, <4>3, <4>4, FS_AddElement DEF LedgerOf
      <4>6. {x.seq : x \in ledger'[r]} = 1..(count[r] + 1)
        <5>1. {x.seq : x \in ledger'[r]} = {x.seq : x \in ledger[r]} \cup {count[r] + 1}
          BY <4>1, <4>4
        <5> QED
          BY <4>1, <4>3, <5>1 DEF LedgerOf
      <4>7. \A a, b \in ledger'[r] : a.id = b.id => a = b
        BY <4>1, <4>3, <4>4 DEF LedgerOf
      <4> QED
        BY <4>1, <4>2, <4>5, <4>6, <4>7 DEF LedgerOf
    <3> QED
      BY <1>2, <3>1, <3>2
  <2>5. ASSUME NEW q \in Run, Verifies(w, q) PROVE LedgerOf(r)'
    <3>1. count' = count /\ ledger' = ledger /\ report'[r].count = report[r].count
      BY <1>0, <2>5 DEF Verifies, TableTypes
    <3> QED
      BY <1>2, <3>1
  <2> QED
    BY <2>1, <2>2, <2>3, <2>4, <2>5 DEF Writes
<1> QED
  BY <1>3, <1>4, <1>5, Steps DEF Receives

\* A report's list of assertions and the assertions rows.
Agree(list, rows) ==
    /\ {list[i] : i \in 1..Len(list)} = rows
    /\ \A i, j \in 1..Len(list) : list[i].id = list[j].id => i = j

(* Appending an assertion whose id is not in the list.                      *)
LEMMA AppendAgrees ==
  ASSUME NEW list \in Seq(Assertions), NEW a \in Assertions, NEW rows, Agree(list, rows),
         ~HasAssertion(list, a.id)
  PROVE  Agree(Append(list, a), rows \cup {a})
<1> DEFINE new == Append(list, a)
           n == Len(list)
<1>1. n \in Nat /\ Len(new) = n + 1 /\ new[n + 1] = a /\ \A i \in 1..n : new[i] = list[i]
  BY AppendProperties, LenProperties
<1>2. \A i \in 1..n : list[i].id # a.id
  BY DEF HasAssertion
<1> HIDE DEF new, n
<1>3. {new[i] : i \in 1..(n + 1)} = rows \cup {a}
  <2>1. {list[i] : i \in 1..n} = rows
    BY DEF Agree, n
  <2>2. \A i \in 1..(n + 1) : i \in 1..n \/ i = n + 1
    BY <1>1
  <2>3. n + 1 \in 1..(n + 1) /\ 1..n \subseteq 1..(n + 1)
    BY <1>1
  <2> QED
    BY <1>1, <2>1, <2>2, <2>3
<1>4. \A i, j \in 1..(n + 1) : new[i].id = new[j].id => i = j
  <2>1. \A i, j \in 1..n : list[i].id = list[j].id => i = j
    BY DEF Agree, n
  <2>2. \A i \in 1..(n + 1) : i \in 1..n \/ i = n + 1
    BY <1>1
  <2> QED
    BY <1>1, <1>2, <2>1, <2>2
<1> QED
  BY <1>1, <1>3, <1>4 DEF Agree, new

(* The report's list and the assertions rows get the same assertions.       *)
LEMMA AssertionsStep ==
  ASSUME IInv, Next
  PROVE  AssertionsAgree'
<1>0. TableTypes /\ \A r \in Run : Agree(report[r].asserts, asserted[r])
  BY SplitTypes DEF IInv, AssertionsAgree, Agree
<1>1. SUFFICES \A r \in Run : Agree(report'[r].asserts, asserted'[r])
  BY <1>1 DEF AssertionsAgree, Agree
<1>2. \A r \in Run : report[r].asserts \in Seq(Assertions)
  BY <1>0 DEF TableTypes, Reports
<1>3. ASSUME NEW q \in Run, CreateRun(q) PROVE \A r \in Run : Agree(report'[r].asserts, asserted'[r])
  <2>1. asserted' = asserted /\ \A r \in Run : report'[r].asserts = report[r].asserts
    BY <1>0, <1>3 DEF CreateRun, TableTypes, Reports
  <2> QED
    BY <1>0, <2>1
<1>4. ASSUME NEW e \in StripeEvent, NEW c \in Content, ReceiveNew(e, c) \/ ReceiveAgain(e, c)
      PROVE  \A r \in Run : Agree(report'[r].asserts, asserted'[r])
  BY <1>0, <1>4 DEF ReceiveNew, ReceiveAgain, runState
<1>5. ASSUME NEW w \in Worker, Works(w), NEW r \in Run PROVE Agree(report'[r].asserts, asserted'[r])
  <2>1. Writes(w)
    BY <1>5, WorkerStep
  <2>2. CASE Quiet \/ Deliver(w)
    BY <1>0, <2>2 DEF Quiet, Deliver, runState
  <2>3. ASSUME NEW e \in StripeEvent,
               NEW s \in [state : {"unmatched", "ignored"}, code : Codes, run : {None}],
               GivesUp(w, e, s)
        PROVE  Agree(report'[r].asserts, asserted'[r])
    BY <1>0, <2>3 DEF GivesUp
  <2>4. ASSUME NEW e \in StripeEvent, NEW q \in Run, Records(w, e, q)
        PROVE  Agree(report'[r].asserts, asserted'[r])
    <3>1. r # q => report'[r] = report[r] /\ asserted'[r] = asserted[r]
      BY <1>0, <2>4 DEF Records, TableTypes
    <3>2. ASSUME r = q PROVE Agree(report'[r].asserts, asserted'[r])
      <4>1. report'[r].asserts = AddAssertion(report[r].asserts, Correlated)
        BY <1>0, <2>4, <3>2 DEF Records, TableTypes
      <4>2. CASE HasAssertion(report[r].asserts, Correlated.id)
        BY <1>0, <2>4, <3>2, <4>1, <4>2 DEF Records, AddAssertion
      <4>3. CASE ~HasAssertion(report[r].asserts, Correlated.id)
        <5>1. asserted'[r] = asserted[r] \cup {Correlated}
          BY <1>0, <2>4, <3>2, <4>3 DEF Records, TableTypes
        <5>2. report'[r].asserts = Append(report[r].asserts, Correlated)
          BY <4>1, <4>3 DEF AddAssertion
        <5>3. Correlated \in Assertions
          BY DEF Correlated, Assertions
        <5> QED
          BY <1>0, <1>2, <4>3, <5>1, <5>2, <5>3, AppendAgrees
      <4> QED
        BY <4>2, <4>3
    <3> QED
      BY <1>0, <3>1, <3>2
  <2>5. ASSUME NEW q \in Run, Verifies(w, q)
        PROVE  Agree(report'[r].asserts, asserted'[r])
    <3>1. r # q => report'[r] = report[r] /\ asserted'[r] = asserted[r]
      BY <1>0, <2>5 DEF Verifies, TableTypes
    <3>2. ASSUME r = q PROVE Agree(report'[r].asserts, asserted'[r])
      <4>1. /\ report'[r].asserts = Append(report[r].asserts, Verified)
            /\ asserted'[r] = asserted[r] \cup {Verified}
            /\ ~HasAssertion(report[r].asserts, Verified.id)
        BY <1>0, <2>5, <3>2 DEF Verifies, TableTypes
      <4>2. Verified \in Assertions
        BY DEF Verified, Assertions
      <4> QED
        BY <1>0, <1>2, <4>1, <4>2, AppendAgrees
    <3> QED
      BY <1>0, <3>1, <3>2
  <2> QED
    BY <2>1, <2>2, <2>3, <2>4, <2>5 DEF Writes
<1> QED
  BY <1>3, <1>4, <1>5, Steps DEF Receives

(* A 200 is given for the stored content, and stored content stays.         *)
LEMMA AcknowledgedStep ==
  ASSUME IInv, Next
  PROVE  AcknowledgedIsDurable'
<1>0. TableTypes /\ QueueTrue' /\ AcknowledgedIsDurable
  BY SplitTypes, QueueStep DEF IInv
<1>1. \A e \in StripeEvent, c \in Content : <<e, c>> \in acks' => receipt'[e] = c
  <2>1. \A e \in StripeEvent, c \in Content : <<e, c>> \in acks => receipt[e] = c /\ c # None
    BY <1>0, EvidenceConstants DEF AcknowledgedIsDurable
  <2>2. ASSUME NEW q \in Run, CreateRun(q) PROVE acks' = acks /\ receipt' = receipt
    BY <2>2 DEF CreateRun, webhooks
  <2>3. ASSUME NEW x \in StripeEvent, NEW d \in Content, ReceiveNew(x, d),
               NEW e \in StripeEvent, NEW c \in Content, <<e, c>> \in acks'
        PROVE  receipt'[e] = c
    BY <1>0, <2>1, <2>3 DEF ReceiveNew, Acknowledge, TableTypes
  <2>4. ASSUME NEW x \in StripeEvent, NEW d \in Content, ReceiveAgain(x, d),
               NEW e \in StripeEvent, NEW c \in Content, <<e, c>> \in acks'
        PROVE  receipt'[e] = c
    BY <2>1, <2>4 DEF ReceiveAgain, Acknowledge
  <2>5. ASSUME NEW w \in Worker, Works(w) PROVE acks' = acks /\ receipt' = receipt
    BY <2>5, WorkerStep
  <2> QED
    BY <2>1, <2>2, <2>3, <2>4, <2>5, Steps DEF Receives
<1>2. \A e \in StripeEvent, c \in Content :
        receipt'[e] = c => queued'[[kind |-> "webhook", id |-> e]] = 1
  BY <1>0, EvidenceConstants DEF QueueTrue
<1> QED
  BY <1>1, <1>2 DEF AcknowledgedIsDurable

(* A verdict is written with the merchant at the newest sequence number,    *)
(* and no later delivery moves it.                                          *)
LEMMA VerdictStep ==
  ASSUME IInv, Next
  PROVE  VerdictIndependentOfRetries'
<1>0. TableTypes /\ VerdictIndependentOfRetries
  BY SplitTypes DEF IInv
<1>1. \A r \in Run : \A a \in asserted[r] :
        a.id = "reference_merchant" => a.passed /\ merchant[r] = Newest(Shape[r].fault)
  BY <1>0 DEF VerdictIndependentOfRetries, Newest
<1>2. SUFFICES \A r \in Run : \A a \in asserted'[r] :
        a.id = "reference_merchant" => a.passed /\ merchant'[r] = Newest(Shape[r].fault)
  BY <1>2 DEF VerdictIndependentOfRetries, Newest
<1>3. CASE Receives
  BY <1>1, <1>3 DEF Receives, CreateRun, ReceiveNew, ReceiveAgain, runState
<1>4. ASSUME NEW w \in Worker, Works(w), NEW r \in Run, NEW a \in asserted'[r],
             a.id = "reference_merchant"
      PROVE  a.passed /\ merchant'[r] = Newest(Shape[r].fault)
  <2>1. Writes(w)
    BY <1>4, WorkerStep
  <2>2. CASE Quiet
    BY <1>1, <1>4, <2>2 DEF Quiet
  <2>3. CASE Deliver(w)
    <3>1. merchant'[r] \in {merchant[r], Newest(Shape[r].fault)} /\ asserted' = asserted
      BY <2>3, Delivered DEF Deliver, runState
    <3> QED
      BY <1>1, <1>4, <3>1
  <2>4. ASSUME NEW e \in StripeEvent,
               NEW s \in [state : {"unmatched", "ignored"}, code : Codes, run : {None}],
               GivesUp(w, e, s)
        PROVE  a.passed /\ merchant'[r] = Newest(Shape[r].fault)
    BY <1>1, <1>4, <2>4 DEF GivesUp
  <2>5. ASSUME NEW e \in StripeEvent, NEW q \in Run, Records(w, e, q)
        PROVE  a.passed /\ merchant'[r] = Newest(Shape[r].fault)
    <3>1. merchant' = merchant /\ asserted'[r] \subseteq asserted[r] \cup {Correlated}
      BY <1>0, <2>5 DEF Records, TableTypes
    <3>2. a \in asserted[r]
      BY <1>4, <3>1 DEF Correlated
    <3> QED
      BY <1>1, <1>4, <3>1, <3>2
  <2>6. ASSUME NEW q \in Run, Verifies(w, q)
        PROVE  a.passed /\ merchant'[r] = Newest(Shape[r].fault)
    <3>1. /\ merchant' = merchant /\ merchant[q] = Newest(Shape[q].fault)
          /\ asserted'[r] = IF r = q THEN asserted[r] \cup {Verified} ELSE asserted[r]
      BY <1>0, <2>6 DEF Verifies, TableTypes
    <3>2. a \in asserted[r] \/ (r = q /\ a = Verified)
      BY <1>4, <3>1
    <3> QED
      BY <1>1, <1>4, <3>1, <3>2 DEF Verified
  <2> QED
    BY <2>1, <2>2, <2>3, <2>4, <2>5, <2>6 DEF Writes
<1> QED
  BY <1>3, <1>4, Steps

\* MatchedExactlyOnce for one event and one run.
TracedIn(e, r) ==
    LET matched == status[e].state = "matched" /\ status[e].run = r IN
    /\ matched <=> \E row \in ledger[r] : row.id = e
    /\ matched <=> <<e, r>> \in evidence
    /\ matched => /\ Shape[r].object = receipt[e].object
                  /\ Shape[r].correlation = receipt[e].correlation
                  /\ Correlated \in asserted[r]

(* A match leaves all of its traces in the run that was matched, at once.   *)
LEMMA MatchedStep ==
  ASSUME IInv, Next
  PROVE  MatchedExactlyOnce'
<1>0. TableTypes /\ \A e \in StripeEvent, r \in Run : TracedIn(e, r)
  BY SplitTypes DEF IInv, MatchedExactlyOnce, TracedIn
<1>1. SUFFICES ASSUME NEW e \in StripeEvent, NEW r \in Run PROVE TracedIn(e, r)'
  BY <1>1 DEF MatchedExactlyOnce, TracedIn
<1>2. ASSUME status'[e] = status[e], status[e] # Pending => receipt'[e] = receipt[e],
             (\E row \in ledger'[r] : row.id = e) <=> (\E row \in ledger[r] : row.id = e),
             <<e, r>> \in evidence' <=> <<e, r>> \in evidence,
             asserted[r] \subseteq asserted'[r]
      PROVE  TracedIn(e, r)'
  BY <1>0, <1>2 DEF TracedIn, Pending
<1>3. ASSUME NEW q \in Run, CreateRun(q) PROVE TracedIn(e, r)'
  <2>1. UNCHANGED <<status, receipt, evidence, asserted>>
    BY <1>3 DEF CreateRun, webhooks
  <2>2. ledger[q] = {}
    BY <1>3, NoRowsYet DEF CreateRun
  <2>3. ledger'[r] = IF r = q THEN {Timeline} ELSE ledger[r]
    BY <1>0, <1>3 DEF CreateRun, TableTypes
  <2>4. Timeline.id # e
    BY EvidenceConstants DEF Timeline
  <2> QED
    BY <1>2, <2>1, <2>2, <2>3, <2>4
<1>4. ASSUME NEW x \in StripeEvent, NEW c \in Content, ReceiveNew(x, c) \/ ReceiveAgain(x, c)
      PROVE  TracedIn(e, r)'
  <2>1. UNCHANGED <<status, ledger, evidence, asserted>>
    BY <1>4 DEF ReceiveNew, ReceiveAgain, runState
  <2>2. status[e] # Pending => receipt'[e] = receipt[e]
    BY <1>0, <1>4 DEF ReceiveNew, ReceiveAgain, TableTypes, IInv, RowsTrue
  <2> QED
    BY <1>2, <2>1, <2>2
<1>5. ASSUME NEW w \in Worker, Works(w) PROVE TracedIn(e, r)'
  <2>1. Writes(w) /\ receipt' = receipt
    BY <1>5, WorkerStep
  <2>2. CASE Quiet \/ Deliver(w)
    BY <1>2, <2>1, <2>2 DEF Quiet, Deliver, webhooks, runState
  <2>3. ASSUME NEW x \in StripeEvent,
               NEW s \in [state : {"unmatched", "ignored"}, code : Codes, run : {None}],
               GivesUp(w, x, s)
        PROVE  TracedIn(e, r)'
    <3>1. UNCHANGED <<ledger, evidence, asserted>> /\ status[x] = Pending
          /\ status'[e] = IF e = x THEN s ELSE status[e]
      BY <1>0, <2>3 DEF GivesUp, TableTypes
    <3>2. CASE e # x
      BY <1>2, <2>1, <3>1, <3>2
    <3>3. CASE e = x
      <4>1. (\A row \in ledger[r] : row.id # e) /\ <<e, r>> \notin evidence
        BY <3>1, <3>3, PendingHasNoRow
      <4>2. status'[e].state # "matched"
        BY <3>1, <3>3
      <4> QED
        BY <3>1, <4>1, <4>2 DEF TracedIn
    <3> QED
      BY <3>2, <3>3
  <2>4. ASSUME NEW x \in StripeEvent, NEW q \in Run, Records(w, x, q) PROVE TracedIn(e, r)'
    <3> DEFINE row == [seq |-> count[q] + 1, id |-> x]
    <3>1. /\ status[x] = Pending
          /\ status'[e] = IF e = x THEN [state |-> "matched", code |-> None, run |-> q] ELSE status[e]
          /\ evidence' = evidence \cup {<<x, q>>}
      BY <1>0, <2>4 DEF Records, TableTypes
    <3>2. ledger'[r] = IF r = q THEN ledger[r] \cup {row} ELSE ledger[r]
      BY <1>0, <2>4 DEF Records, TableTypes
    <3>3. row.id = x
      OBVIOUS
    <3>4. asserted[r] \subseteq asserted'[r]
      BY <1>0, <2>4 DEF Records, TableTypes
    <3>5. Correlated \in asserted'[q]
      <4>1. CASE HasAssertion(report[q].asserts, Correlated.id)
        <5> DEFINE list == report[q].asserts
        <5>1. PICK i \in 1..Len(list) : list[i].id = Correlated.id
          BY <4>1 DEF HasAssertion
        <5>2. list[i] \in asserted[q] /\ list[i] \in Assertions
          BY <1>0, <5>1 DEF IInv, AssertionsAgree, TableTypes
        <5>3. list[i].id = "webhook_correlated" /\ list[i].passed
          BY <5>1, <5>2 DEF Correlated, IInv, RowsTrue
        <5> HIDE DEF list
        <5>4. list[i] = Correlated
          BY <5>2, <5>3 DEF Assertions, Correlated
        <5>5. asserted' = asserted
          BY <2>4, <4>1 DEF Records
        <5> QED
          BY <5>2, <5>4, <5>5
      <4>2. CASE ~HasAssertion(report[q].asserts, Correlated.id)
        BY <1>0, <2>4, <4>2 DEF Records, TableTypes
      <4> QED
        BY <4>1, <4>2
    <3> HIDE DEF row
    <3>6. CASE e # x
      <4>1. (\E y \in ledger'[r] : y.id = e) <=> (\E y \in ledger[r] : y.id = e)
        BY <3>2, <3>3, <3>6
      <4>2. <<e, r>> \in evidence' <=> <<e, r>> \in evidence
        BY <3>1, <3>6
      <4>3. status'[e] = status[e]
        BY <3>1, <3>6
      <4> QED
        BY <1>2, <2>1, <3>4, <4>1, <4>2, <4>3
    <3>7. CASE e = x
      <4>1. (\A y \in ledger[r] : y.id # e) /\ <<e, r>> \notin evidence
        BY <3>1, <3>7, PendingHasNoRow
      <4>2. (status'[e].state = "matched" /\ status'[e].run = r) <=> r = q
        BY <3>1, <3>7
      <4>3. (\E y \in ledger'[r] : y.id = e) <=> r = q
        BY <3>2, <3>3, <3>7, <4>1
      <4>4. <<e, r>> \in evidence' <=> r = q
        BY <3>1, <3>7, <4>1
      <4>5. r = q => /\ Shape[r].object = receipt'[e].object
                     /\ Shape[r].correlation = receipt'[e].correlation
                     /\ Correlated \in asserted'[r]
        BY <2>1, <2>4, <3>5, <3>7 DEF Records
      <4> QED
        BY <4>2, <4>3, <4>4, <4>5 DEF TracedIn
    <3> QED
      BY <3>6, <3>7
  <2>5. ASSUME NEW q \in Run, Verifies(w, q) PROVE TracedIn(e, r)'
    <3>1. UNCHANGED <<status, ledger, evidence>> /\ asserted[r] \subseteq asserted'[r]
      BY <1>0, <2>5 DEF Verifies, TableTypes
    <3> QED
      BY <1>2, <2>1, <3>1
  <2> QED
    BY <2>1, <2>2, <2>3, <2>4, <2>5 DEF Writes
<1> QED
  BY <1>3, <1>4, <1>5, Steps DEF Receives

(* A step of the system, or none, keeps the invariant.                      *)
LEMMA NextIInv == IInv /\ [Next]_vars => IInv'
<1>1. ASSUME IInv, Next PROVE IInv'
  BY <1>1, TypeStep, LocksStep, QueueStep, AttemptsStep, RelayStep, RowsStep, LedgerStep,
     AssertionsStep, MatchedStep, AcknowledgedStep, VerdictStep DEF IInv
<1>2. ASSUME IInv, UNCHANGED vars PROVE IInv'
  <2> USE <1>2 DEF vars, webhooks, runState, attempt
  <2>1. TypeOK' /\ LocksApart' /\ QueueTrue'
    BY DEF IInv, TypeOK, LocksApart, QueueTrue
  <2>2. AttemptsTrue'
    <3>1. \A v \in Worker : Relied(v)
      BY DEF Relied, Untouched
    <3> QED
      BY <3>1, KeptTrue DEF AttemptsTrue
  <2>3. RelayTrue' /\ RowsTrue'
    BY DEF IInv, RelayTrue, RelayAt, Job, RowsTrue
  <2>4. LedgerConsistent' /\ AssertionsAgree' /\ MatchedExactlyOnce'
    BY DEF IInv, LedgerConsistent, AssertionsAgree, MatchedExactlyOnce
  <2>5. AcknowledgedIsDurable' /\ VerdictIndependentOfRetries'
    BY DEF IInv, AcknowledgedIsDurable, VerdictIndependentOfRetries
  <2> QED
    BY <2>1, <2>2, <2>3, <2>4, <2>5 DEF IInv
<1> QED
  BY <1>1, <1>2

(* No step takes back an event row, an assertion or a processed state.      *)
LEMMA GrowStep ==
  ASSUME IInv, Next
  PROVE  /\ \A r \in Run : EvidenceKept(r)
         /\ \A e \in StripeEvent : status[e] # Pending => status'[e] = status[e]
<1>0. TableTypes
  BY SplitTypes DEF IInv
<1>1. \A r \in Run : report[r].asserts \in Seq(Assertions) /\ Len(report[r].asserts) \in Nat
  BY <1>0, LenProperties DEF TableTypes, Reports
<1>2. ASSUME NEW r \in Run, ledger[r] \subseteq ledger'[r], report'[r].asserts = report[r].asserts
      PROVE  EvidenceKept(r)
  BY <1>1, <1>2 DEF EvidenceKept
<1>3. ASSUME NEW r \in Run, NEW a \in Assertions, ledger[r] \subseteq ledger'[r],
             report'[r].asserts = Append(report[r].asserts, a)
      PROVE  EvidenceKept(r)
  BY <1>1, <1>3, AppendProperties DEF EvidenceKept
<1>4. ASSUME NEW q \in Run, CreateRun(q) PROVE status' = status /\ \A r \in Run : EvidenceKept(r)
  <2>1. ledger[q] = {}
    BY <1>4, NoRowsYet DEF CreateRun
  <2>2. \A r \in Run : ledger[r] \subseteq ledger'[r]
    BY <1>0, <1>4, <2>1 DEF CreateRun, TableTypes
  <2>3. \A r \in Run : report'[r].asserts = report[r].asserts
    BY <1>0, <1>4 DEF CreateRun, TableTypes, Reports
  <2>4. status' = status
    BY <1>4 DEF CreateRun, webhooks
  <2> QED
    BY <1>2, <2>2, <2>3, <2>4
<1>5. ASSUME NEW e \in StripeEvent, NEW c \in Content, ReceiveNew(e, c) \/ ReceiveAgain(e, c)
      PROVE  status' = status /\ \A r \in Run : EvidenceKept(r)
  BY <1>2, <1>5 DEF ReceiveNew, ReceiveAgain, runState
<1>6. ASSUME NEW w \in Worker, Works(w)
      PROVE  /\ \A r \in Run : EvidenceKept(r)
             /\ \A e \in StripeEvent : status[e] # Pending => status'[e] = status[e]
  <2>1. Writes(w)
    BY <1>6, WorkerStep
  <2>2. CASE Quiet \/ Deliver(w)
    BY <1>2, <2>2 DEF Quiet, Deliver, webhooks, runState
  <2>3. ASSUME NEW x \in StripeEvent,
               NEW s \in [state : {"unmatched", "ignored"}, code : Codes, run : {None}],
               GivesUp(w, x, s)
        PROVE  /\ \A r \in Run : EvidenceKept(r)
               /\ \A e \in StripeEvent : status[e] # Pending => status'[e] = status[e]
    <3>1. UNCHANGED <<ledger, report>>
      BY <2>3 DEF GivesUp
    <3>2. \A e \in StripeEvent : status[e] # Pending => status'[e] = status[e]
      BY <1>0, <2>3 DEF GivesUp, TableTypes
    <3> QED
      BY <1>2, <3>1, <3>2
  <2>4. ASSUME NEW x \in StripeEvent, NEW q \in Run, Records(w, x, q)
        PROVE  /\ \A r \in Run : EvidenceKept(r)
               /\ \A e \in StripeEvent : status[e] # Pending => status'[e] = status[e]
    <3>1. \A e \in StripeEvent : status[e] # Pending => status'[e] = status[e]
      BY <1>0, <2>4 DEF Records, TableTypes
    <3>2. \A r \in Run : ledger[r] \subseteq ledger'[r]
      BY <1>0, <2>4 DEF Records, TableTypes
    <3>3. /\ report'[q].asserts = AddAssertion(report[q].asserts, Correlated)
          /\ \A r \in Run : r # q => report'[r] = report[r]
      BY <1>0, <2>4 DEF Records, TableTypes
    <3>4. Correlated \in Assertions
      BY DEF Correlated, Assertions
    <3>5. EvidenceKept(q)
      BY <1>2, <1>3, <3>2, <3>3, <3>4 DEF AddAssertion
    <3>6. \A r \in Run : r # q => EvidenceKept(r)
      BY <1>2, <3>2, <3>3
    <3> QED
      BY <3>1, <3>5, <3>6
  <2>5. ASSUME NEW q \in Run, Verifies(w, q)
        PROVE  /\ \A r \in Run : EvidenceKept(r)
               /\ \A e \in StripeEvent : status[e] # Pending => status'[e] = status[e]
    <3>1. /\ report'[q].asserts = Append(report[q].asserts, Verified)
          /\ \A r \in Run : r # q => report'[r] = report[r]
          /\ status' = status /\ ledger' = ledger
      BY <1>0, <2>5 DEF Verifies, TableTypes
    <3>2. Verified \in Assertions
      BY DEF Verified, Assertions
    <3> QED
      BY <1>2, <1>3, <3>1, <3>2
  <2> QED
    BY <2>1, <2>2, <2>3, <2>4, <2>5 DEF Writes
<1> QED
  BY <1>4, <1>5, <1>6, Steps DEF Receives

-----------------------------------------------------------------------------
(* The theorems.                                                            *)

(* The invariant holds in every state the API and the workers reach.        *)
THEOREM Inductive == Spec => []IInv
<1>1. Init => IInv
  BY InitIInv
<1>2. IInv /\ [Next]_vars => IInv'
  BY NextIInv
<1> QED
  BY <1>1, <1>2, PTL DEF Spec

(* Every table and every attempt has its type; an outbox row is inserted    *)
(* once for a job (createRun, MarkWebhookSeen).                             *)
THEOREM TypeCorrect == Spec => []TypeOK
  BY Inductive, PTL DEF IInv

(* ProcessStripeWebhook and RecordVerification keep event_count, its copy   *)
(* in the report and the event rows in step, in any interleaving.           *)
THEOREM LedgerAgrees == Spec => []LedgerConsistent
  BY Inductive, PTL DEF IInv

(* The report's copy of the assertions is the assertions table: no update   *)
(* of the snapshot is lost although two transactions write it.              *)
THEOREM ReportAgrees == Spec => []AssertionsAgree
  BY Inductive, PTL DEF IInv

(* An event is correlated to at most one run, once, and with all of its     *)
(* traces, for any number of deliveries, attempts and failures.             *)
THEOREM MatchedOnce == Spec => []MatchedExactlyOnce
  BY Inductive, PTL DEF IInv

(* A webhook that was answered 200 is stored as delivered, with one job.    *)
THEOREM AcknowledgedDurable == Spec => []AcknowledgedIsDurable
  BY Inductive, PTL DEF IInv

(* The relay's verdict is the one of an attempt that never failed.          *)
THEOREM VerdictStable == Spec => []VerdictIndependentOfRetries
  BY Inductive, PTL DEF IInv

(* No transaction removes or rewrites evidence that was committed.          *)
THEOREM OnlyGrows == Spec => EvidenceOnlyGrows
<1>1. IInv /\ [Next]_vars =>
        [/\ \A r \in Run : EvidenceKept(r)
         /\ \A e \in StripeEvent : status[e] # Pending => status'[e] = status[e]]_vars
  BY GrowStep
<1> QED
  BY <1>1, Inductive, PTL DEF Spec, EvidenceOnlyGrows
=============================================================================
