------------------------- MODULE RunCreationProofs -------------------------
(* Proofs that run creation on PostgreSQL (module RunCreation) implements   *)
(* the contract of idempotent runs, for any requests, scopes and keys.      *)
EXTENDS RunCreation, TLAPS

-----------------------------------------------------------------------------
(* The inductive invariant.                                                 *)

\* The request has a run number and has not been answered.
Numbered(r) == pc[r] \in {"intent", "begin", "waiting", "lookup", "insert"}

(* nextval gives every request a number of its own, and no stored run has   *)
(* the number of a request that still may store one.                        *)
NumbersOwn ==
    /\ \A r \in Request : Numbered(r) => runId[r] \in RunId /\ runId[r] < nextRun
    /\ \A r, q \in Request : Numbered(r) /\ Numbered(q) /\ runId[r] = runId[q] => r = q
    /\ \A b \in runs : b.id < nextRun /\ \A r \in Request : Numbered(r) => b.id # runId[r]

\* Two records tell of the same run, whether or not they have expired.
SameRun(a, b) == a # None /\ b # None /\ a.body = b.body /\ a.run = b.run

(* A snapshot may miss the record of its key, but what it shows is still    *)
(* there when the lock has been waited for.                                 *)
SnapshotHolds == \A r \in Request : snap[r] # None => SameRun(snap[r], idem[Slot(r)])

(* The record and the run of a key are stored together.                     *)
RecordsMatchRuns ==
    /\ \A b \in runs :
         idem[<<b.scope, b.key>>] # None /\ idem[<<b.scope, b.key>>].run = b.id
    /\ \A sc \in Scope, k \in Key :
         idem[<<sc, k>>] # None =>
           \E b \in runs : b.id = idem[<<sc, k>>].run /\ b.scope = sc /\ b.key = k

\* Who was told a run was told the one on record.
AnswersOnRecord ==
    \A r \in Request :
        answer[r] # None /\ answer[r].kind \in {"created", "replayed"} =>
            /\ idem[Slot(r)] # None
            /\ idem[Slot(r)].run = answer[r].run /\ idem[Slot(r)].body = req[r].body

IInv == TypeOK /\ NumbersOwn /\ SnapshotHolds /\ RecordsMatchRuns /\ AnswersOnRecord

-----------------------------------------------------------------------------
(* The initial state satisfies the inductive invariant.                     *)
LEMMA InitIInv == Init => IInv
  BY RunConstants
  DEF Init, IInv, TypeOK, NumbersOwn, Numbered, SnapshotHolds, SameRun, RecordsMatchRuns,
      AnswersOnRecord, Records, Bundles, Requests

(* A request's slot is a row of idempotency_records.                        *)
LEMMA SlotType ==
  ASSUME TypeOK, NEW r \in Request
  PROVE  /\ req[r] \in Requests /\ Slot(r) \in Scope \X Key
         /\ Slot(r) = <<req[r].scope, req[r].key>> /\ idem[Slot(r)] \in Records \cup {None}
  BY DEF TypeOK, Requests, Slot

(* Answering a request and releasing its lock keeps the types.              *)
LEMMA FinishType ==
  ASSUME TypeOK, NEW r \in Request, NEW kind \in Kinds, NEW run \in RunId \cup {0},
         Finish(r, kind, run)
  PROVE  /\ pc' \in [Request -> {"new", "allocate", "intent", "begin", "waiting", "lookup",
                                 "insert", "done"}]
         /\ answer' \in [Request -> Answers \cup {None}]
         /\ snap' \in [Request -> Records \cup {None}]
         /\ lock' \in [Key -> Request \cup {None}]
         /\ req' \in [Request -> Requests]
         /\ runId' \in [Request -> RunId \cup {0}]
         /\ \A q \in Request : (answer'[q] # None) = (pc'[q] = "done")
<1>1. [kind |-> kind, run |-> run] \in Answers
  BY DEF Answers
<1>2. [kind |-> kind, run |-> run] # None
  BY <1>1, RunConstants
<1>3. lock' \in [Key -> Request \cup {None}] /\ snap' \in [Request -> Records \cup {None}]
  BY DEF Finish, TypeOK
<1>4. answer' \in [Request -> Answers \cup {None}]
  BY <1>1 DEF Finish, TypeOK
<1>5. \A q \in Request : (answer'[q] # None) = (pc'[q] = "done")
  BY <1>2 DEF Finish, TypeOK
<1> QED
  BY <1>3, <1>4, <1>5 DEF Finish, TypeOK

NewRecord(r) == [body |-> req[r].body, run |-> runId[r], expired |-> FALSE]

(* The record that Store inserts is one, with the number of the request.    *)
LEMMA StoredRecord ==
  ASSUME TypeOK, NumbersOwn, NEW r \in Request, Store(r)
  PROVE  /\ runId[r] \in RunId /\ NewRecord(r) \in Records /\ NewRecord(r) # None
         /\ NewRecord(r).run = runId[r] /\ NewRecord(r).body = req[r].body
<1>1. runId[r] \in RunId
  BY DEF Store, NumbersOwn, Numbered
<1>2. NewRecord(r) \in Records
  BY <1>1, SlotType DEF NewRecord, Records, Requests
<1> QED
  BY <1>1, <1>2, RunConstants DEF NewRecord

(* Every step of a request, an abort at any point and the expiry of a       *)
(* record keep the types of the tables and of the handlers' locals.         *)
LEMMA TypeStep == TypeOK /\ NumbersOwn /\ [Next]_vars => TypeOK'
<1> SUFFICES ASSUME TypeOK, NumbersOwn, [Next]_vars PROVE TypeOK'
  OBVIOUS
<1> USE RunConstants DEF local
<1>1. ASSUME NEW r \in Request, Reject(r) \/ RejectConnection(r) \/ UniqueViolation(r) \/ Abort(r)
      PROVE  TypeOK'
  <2>1. PICK kind \in {"rejected", "lost_race", "failed"} : Finish(r, kind, 0)
    BY <1>1 DEF Reject, RejectConnection, UniqueViolation, Abort
  <2> QED
    BY <1>1, <2>1, FinishType
    DEF TypeOK, Kinds, Reject, RejectConnection, UniqueViolation, Abort
<1>2. ASSUME NEW r \in Request, Preflight(r) PROVE TypeOK'
  <2>1. CASE Live(idem[Slot(r)])
    <3>1. PICK kind \in Kinds, run \in RunId \cup {0} : Finish(r, kind, run)
      BY <1>2, <2>1, SlotType DEF Preflight, Live, Records, Kinds
    <3> QED
      BY <1>2, <3>1, FinishType DEF TypeOK, Preflight
  <2>2. CASE ~Live(idem[Slot(r)])
    BY <1>2, <2>2 DEF TypeOK, Preflight, GoTo
  <2> QED
    BY <2>1, <2>2
<1>3. ASSUME NEW r \in Request, NextRunID(r) PROVE TypeOK'
  BY <1>3 DEF TypeOK, NextRunID, GoTo
<1>4. ASSUME NEW r \in Request, CreateIntent(r) PROVE TypeOK'
  BY <1>4, SlotType DEF TypeOK, CreateIntent, GoTo, Requests
<1>5. ASSUME NEW r \in Request, CreateIntentFails(r) PROVE TypeOK'
  BY <1>5, SlotType, FinishType DEF TypeOK, CreateIntentFails, Kinds, Requests
<1>6. ASSUME NEW r \in Request, Begin(r) \/ AcquireLock(r) PROVE TypeOK'
  <2>1. CASE Begin(r)
    BY <2>1, SlotType DEF TypeOK, Begin, GoTo
  <2>2. CASE AcquireLock(r)
    BY <2>2, SlotType DEF TypeOK, AcquireLock, GoTo, Requests
  <2> QED
    BY <1>6, <2>1, <2>2
<1>7. ASSUME NEW r \in Request, Lookup(r) PROVE TypeOK'
  <2>1. CASE Live(snap[r])
    <3>1. PICK kind \in Kinds, run \in RunId \cup {0} : Finish(r, kind, run)
      BY <1>7, <2>1 DEF Lookup, Live, Records, Kinds, TypeOK
    <3> QED
      BY <1>7, <3>1, FinishType DEF TypeOK, Lookup
  <2>2. CASE ~Live(snap[r])
    BY <1>7, <2>2 DEF TypeOK, Lookup, GoTo
  <2> QED
    BY <2>1, <2>2
<1>8. ASSUME NEW r \in Request, Commit(r) \/ CommitAnswerLost(r) PROVE TypeOK'
  <2>1. Store(r)
    BY <1>8 DEF Commit, CommitAnswerLost
  <2>2. PICK kind \in Kinds, run \in RunId \cup {0} : Finish(r, kind, run)
    BY <1>8, <2>1 DEF Commit, CommitAnswerLost, Kinds, TypeOK
  <2>3. runId[r] \in RunId /\ NewRecord(r) \in Records
    BY <2>1, StoredRecord
  <2>4. Bundle(r) \in Bundles
    BY <2>3, SlotType DEF Bundle, Bundles, Requests, Topics
  <2>5. idem' \in [Scope \X Key -> Records \cup {None}] /\ runs' \in SUBSET Bundles
        /\ UNCHANGED <<nextRun, intents>>
    BY <2>1, <2>3, <2>4, SlotType DEF Store, TypeOK, NewRecord
  <2> QED
    BY <2>2, <2>5, FinishType DEF TypeOK
<1>9. ASSUME NEW s \in Scope \X Key, Expire(s) PROVE TypeOK'
  <2>1. idem[s] \in Records
    BY <1>9 DEF Expire, Live, TypeOK
  <2>2. [idem[s] EXCEPT !.expired = TRUE] \in Records
    BY <2>1 DEF Records
  <2> QED
    BY <1>9, <2>2 DEF TypeOK, Expire
<1>10. CASE UNCHANGED vars
  BY <1>10 DEF vars, TypeOK
<1> QED
  BY <1>1, <1>2, <1>3, <1>4, <1>5, <1>6, <1>7, <1>8, <1>9, <1>10 DEF Next, Handle

(* Only NextRunID takes a number, and the sequence never gives it again; a  *)
(* request that stores its run is answered with it.                         *)
LEMMA NumbersStep == TypeOK /\ NumbersOwn /\ [Next]_vars => NumbersOwn'
<1> SUFFICES ASSUME TypeOK, NumbersOwn, [Next]_vars PROVE NumbersOwn'
  OBVIOUS
<1> USE RunConstants DEF local, NumbersOwn, Numbered, TypeOK
<1>1. ASSUME NEW r \in Request, NextRunID(r) PROVE NumbersOwn'
  <2>1. /\ nextRun \in Nat /\ nextRun' = nextRun + 1 /\ runs' = runs
        /\ runId' = [runId EXCEPT ![r] = nextRun] /\ runId'[r] = nextRun /\ nextRun \in RunId
        /\ \A q \in Request : Numbered(q)' => q = r \/ Numbered(q)
    BY <1>1 DEF NextRunID, GoTo
  <2>2. \A q \in Request : q # r => runId'[q] = runId[q]
    BY <2>1
  <2>3. \A b \in runs : b.id \in Nat
    BY DEF Bundles
  <2>4. \A q \in Request : Numbered(q) => runId[q] \in Nat
    OBVIOUS
  <2> HIDE DEF Numbered, TypeOK
  <2> QED
    BY <2>1, <2>2, <2>3, <2>4
<1>2. ASSUME NEW r \in Request, Commit(r) \/ CommitAnswerLost(r) PROVE NumbersOwn'
  <2>1. /\ Store(r) /\ pc' = [pc EXCEPT ![r] = "done"] /\ UNCHANGED <<runId, nextRun>>
    BY <1>2 DEF Commit, CommitAnswerLost, Store, Finish
  <2>2. runs' = runs \cup {Bundle(r)} /\ Bundle(r).id = runId[r]
    BY <2>1 DEF Store, Bundle
  <2> QED
    BY <2>1, <2>2 DEF Store
<1>3. ASSUME NEW r \in Request,
             \/ Reject(r) \/ Preflight(r) \/ RejectConnection(r) \/ CreateIntent(r)
             \/ CreateIntentFails(r) \/ Begin(r) \/ AcquireLock(r) \/ Lookup(r)
             \/ UniqueViolation(r) \/ Abort(r)
      PROVE  NumbersOwn'
  <2>1. UNCHANGED <<runId, nextRun, runs>>
    BY <1>3 DEF Reject, Preflight, RejectConnection, CreateIntent, CreateIntentFails, Begin,
                AcquireLock, Lookup, UniqueViolation, Abort, Finish
  <2>2. \A q \in Request : Numbered(q)' => Numbered(q)
    BY <1>3 DEF Reject, Preflight, RejectConnection, CreateIntent, CreateIntentFails, Begin,
                AcquireLock, Lookup, UniqueViolation, Abort, Finish, GoTo
  <2> QED
    BY <2>1, <2>2
<1>4. ASSUME NEW s \in Scope \X Key, Expire(s) PROVE NumbersOwn'
  BY <1>4 DEF Expire
<1>5. CASE UNCHANGED vars
  BY <1>5 DEF vars
<1> QED
  BY <1>1, <1>2, <1>3, <1>4, <1>5 DEF Next, Handle

(* A record is never removed or overwritten: it expires.                    *)
LEMMA RecordsStay ==
  ASSUME IInv, [Next]_vars, NEW s \in Scope \X Key, idem[s] # None
  PROVE  SameRun(idem[s], idem'[s])
<1> USE DEF IInv, local
<1>1. idem[s] \in Records /\ idem \in [Scope \X Key -> Records \cup {None}]
  BY DEF TypeOK
<1>2. CASE idem' = idem
  BY <1>2 DEF SameRun
<1>3. ASSUME NEW r \in Request, Store(r) PROVE SameRun(idem[s], idem'[s])
  <2>1. Slot(r) # s
    BY <1>3 DEF Store
  <2> QED
    BY <1>1, <1>3, <2>1, SlotType DEF Store, SameRun
<1>4. ASSUME NEW t \in Scope \X Key, Expire(t) PROVE SameRun(idem[s], idem'[s])
  <2>1. CASE s = t
    <3>1. idem'[s] = [idem[s] EXCEPT !.expired = TRUE]
      BY <1>1, <1>4, <2>1 DEF Expire
    <3>2. /\ idem'[s] \in Records /\ idem'[s].body = idem[s].body
          /\ idem'[s].run = idem[s].run
      BY <1>1, <3>1 DEF Records
    <3> QED
      BY <3>2, RunConstants DEF SameRun
  <2>2. CASE s # t
    BY <1>1, <1>4, <2>2 DEF Expire, SameRun
  <2> QED
    BY <2>1, <2>2
<1> QED
  BY <1>2, <1>3, <1>4
  DEF Next, Handle, vars, Reject, Preflight, RejectConnection, NextRunID, CreateIntent,
      CreateIntentFails, Begin, AcquireLock, Lookup, Commit, CommitAnswerLost,
      UniqueViolation, Abort

(* What a request asks never changes.                                       *)
LEMMA RequestsStay == ASSUME [Next]_vars PROVE req' = req
  BY DEF Next, Handle, vars, local, Reject, Preflight, RejectConnection, NextRunID,
         CreateIntent, CreateIntentFails, Begin, AcquireLock, Lookup, Commit,
         CommitAnswerLost, UniqueViolation, Abort, Expire, Finish

(* Begin copies the record, and RecordsStay keeps the copy true through the *)
(* wait for the advisory lock.                                              *)
LEMMA SnapshotStep == IInv /\ [Next]_vars => SnapshotHolds'
<1> SUFFICES ASSUME IInv, [Next]_vars, NEW r \in Request, snap'[r] # None
             PROVE  SameRun(snap'[r], idem'[Slot(r)'])
  BY DEF SnapshotHolds, SameRun
<1>1. Slot(r)' = Slot(r) /\ Slot(r) \in Scope \X Key
  BY RequestsStay, SlotType DEF Slot, IInv
<1>2. CASE snap'[r] = snap[r]
  <2>1. SameRun(snap[r], idem[Slot(r)])
    BY <1>2 DEF IInv, SnapshotHolds
  <2> QED
    BY <1>1, <1>2, <2>1, RecordsStay DEF SameRun
<1>3. CASE snap'[r] # snap[r]
  <2>1. PICK q \in Request : snap' = [snap EXCEPT ![q] = None] \/ Begin(q)
    BY <1>3
    DEF Next, Handle, vars, local, Reject, Preflight, RejectConnection, NextRunID,
        CreateIntent, CreateIntentFails, AcquireLock, Lookup, Commit,
        CommitAnswerLost, UniqueViolation, Abort, Expire, Finish
  <2>2. Begin(r)
    BY <1>3, <2>1 DEF Begin, IInv, TypeOK
  <2>3. snap'[r] = idem[Slot(r)] /\ idem' = idem
    BY <2>2 DEF Begin, IInv, TypeOK
  <2> QED
    BY <1>1, <2>3 DEF SameRun
<1> QED
  BY <1>2, <1>3

(* Only Store adds a record or a run, and it adds both.                     *)
LEMMA MatchStep == IInv /\ [Next]_vars => RecordsMatchRuns'
<1> SUFFICES ASSUME IInv, [Next]_vars PROVE RecordsMatchRuns'
  OBVIOUS
<1> USE DEF IInv, local
<1>1. idem \in [Scope \X Key -> Records \cup {None}] /\ runs \in SUBSET Bundles
  BY DEF TypeOK
<1>2. ASSUME NEW r \in Request, Store(r) PROVE RecordsMatchRuns'
  <2>1. /\ Slot(r) = <<req[r].scope, req[r].key>> /\ Slot(r) \in Scope \X Key
        /\ Bundle(r).id = runId[r] /\ Bundle(r).scope = req[r].scope
        /\ Bundle(r).key = req[r].key
    BY SlotType DEF Bundle
  <2>2. NewRecord(r) # None /\ NewRecord(r).run = runId[r]
    BY <1>2, StoredRecord
  <2>3. idem' = [idem EXCEPT ![Slot(r)] = NewRecord(r)] /\ runs' = runs \cup {Bundle(r)}
    BY <1>2 DEF Store, NewRecord
  <2>4. ASSUME NEW b \in runs'
        PROVE  idem'[<<b.scope, b.key>>] # None /\ idem'[<<b.scope, b.key>>].run = b.id
    <3>1. CASE b = Bundle(r)
      BY <1>1, <2>1, <2>2, <2>3, <3>1
    <3>2. CASE b \in runs
      <4>1. <<b.scope, b.key>> \in Scope \X Key /\ <<b.scope, b.key>> # Slot(r)
        BY <1>1, <1>2, <3>2 DEF Store, Bundles, RecordsMatchRuns
      <4> QED
        BY <1>1, <2>3, <3>2, <4>1 DEF RecordsMatchRuns
    <3> QED
      BY <2>3, <3>1, <3>2
  <2>5. ASSUME NEW sc \in Scope, NEW k \in Key, idem'[<<sc, k>>] # None
        PROVE  \E b \in runs' : b.id = idem'[<<sc, k>>].run /\ b.scope = sc /\ b.key = k
    <3>1. CASE <<sc, k>> = Slot(r)
      BY <1>1, <2>1, <2>2, <2>3, <3>1
    <3>2. CASE <<sc, k>> # Slot(r)
      BY <1>1, <2>3, <2>5, <3>2 DEF RecordsMatchRuns
    <3> QED
      BY <3>1, <3>2
  <2> QED
    BY <2>4, <2>5 DEF RecordsMatchRuns
<1>3. CASE runs' = runs /\ \A s \in Scope \X Key : idem[s] = None => idem'[s] = None
  <2>1. \A s \in Scope \X Key : idem[s] # None => SameRun(idem[s], idem'[s])
    BY RecordsStay
  <2>2. \A b \in runs : <<b.scope, b.key>> \in Scope \X Key
    BY <1>1 DEF Bundles
  <2> QED
    BY <1>3, <2>1, <2>2 DEF RecordsMatchRuns, SameRun
<1>4. ASSUME NEW t \in Scope \X Key, Expire(t)
      PROVE  \A s \in Scope \X Key : idem[s] = None => idem'[s] = None
  BY <1>1, <1>4 DEF Expire, Live
<1> QED
  BY <1>2, <1>3, <1>4
  DEF Next, Handle, vars, Reject, Preflight, RejectConnection, NextRunID, CreateIntent,
      CreateIntentFails, Begin, AcquireLock, Lookup, Commit, CommitAnswerLost,
      UniqueViolation, Abort, Expire

(* A run is answered from the record, from a snapshot that holds, or by the *)
(* transaction that stored it.                                              *)
LEMMA AnswersStep == IInv /\ [Next]_vars => AnswersOnRecord'
<1> SUFFICES ASSUME IInv, [Next]_vars, NEW r \in Request,
                    answer'[r] # None, answer'[r].kind \in {"created", "replayed"}
             PROVE  /\ idem'[Slot(r)] # None
                    /\ idem'[Slot(r)].run = answer'[r].run
                    /\ idem'[Slot(r)].body = req[r].body
  BY RequestsStay DEF AnswersOnRecord, Slot
<1> USE DEF IInv, local
<1>1. Slot(r) \in Scope \X Key /\ answer \in [Request -> Answers \cup {None}]
      /\ idem \in [Scope \X Key -> Records \cup {None}]
  BY SlotType DEF TypeOK
<1>2. CASE answer'[r] = answer[r]
  BY <1>1, <1>2, RecordsStay DEF AnswersOnRecord, SameRun
<1>3. CASE answer'[r] # answer[r]
  <2>1. CASE Preflight(r)
    <3>1. Live(idem[Slot(r)]) /\ idem[Slot(r)].body = req[r].body
          /\ answer'[r] = [kind |-> "replayed", run |-> idem[Slot(r)].run] /\ idem' = idem
      BY <1>1, <1>3, <2>1 DEF Preflight, Finish
    <3> QED
      BY <3>1 DEF Live
  <2>2. CASE Lookup(r)
    <3>1. Live(snap[r]) /\ snap[r].body = req[r].body
          /\ answer'[r] = [kind |-> "replayed", run |-> snap[r].run] /\ idem' = idem
      BY <1>1, <1>3, <2>2 DEF Lookup, Finish
    <3> QED
      BY <3>1 DEF Live, SnapshotHolds, SameRun
  <2>3. CASE Commit(r)
    <3>1. answer'[r] = [kind |-> "created", run |-> runId[r]]
      BY <1>1, <2>3 DEF Commit, Finish
    <3>2. idem'[Slot(r)] = NewRecord(r)
      BY <1>1, <2>3 DEF Commit, Store, NewRecord
    <3> QED
      BY <2>3, <3>1, <3>2, StoredRecord DEF Commit
  <2>4. CASE \/ Reject(r) \/ RejectConnection(r) \/ CreateIntentFails(r)
             \/ CommitAnswerLost(r) \/ UniqueViolation(r) \/ Abort(r)
    <3>1. PICK kind \in {"rejected", "upstream", "failed", "lost_race"} : Finish(r, kind, 0)
      BY <2>4 DEF Reject, RejectConnection, CreateIntentFails, CommitAnswerLost,
                  UniqueViolation, Abort
    <3> QED
      BY <1>1, <3>1 DEF Finish
  <2>5. \A q \in Request : q # r /\ (Handle(q) \/ Abort(q)) => answer'[r] = answer[r]
    BY <1>1 DEF Handle, Reject, Preflight, RejectConnection, NextRunID, CreateIntent,
                CreateIntentFails, Begin, AcquireLock, Lookup, Commit, CommitAnswerLost,
                UniqueViolation, Abort, Finish
  <2>6. NextRunID(r) \/ CreateIntent(r) \/ Begin(r) \/ AcquireLock(r) => answer' = answer
    BY DEF NextRunID, CreateIntent, Begin, AcquireLock
  <2> QED
    BY <1>3, <2>1, <2>2, <2>3, <2>4, <2>5, <2>6 DEF Next, Handle, vars, Expire
<1> QED
  BY <1>2, <1>3

-----------------------------------------------------------------------------
(* The inductive invariant holds of every behaviour of run creation.        *)
THEOREM Inductive == Spec => []IInv
<1>1. IInv /\ [Next]_vars => IInv'
  BY TypeStep, NumbersStep, SnapshotStep, MatchStep, AnswersStep DEF IInv
<1> QED
  BY <1>1, InitIInv, PTL DEF Spec

(* Type correctness of the tables and of the handlers' locals.              *)
THEOREM TypeCorrect == Spec => []TypeOK
  BY Inductive, PTL DEF IInv

(* Preflights, lock waits on stale snapshots, lost answers and expiry never *)
(* yield two runs for one idempotency key of one scope.                     *)
THEOREM OneRunPerKey == Spec => []AtMostOneRunPerKey
<1>1. ASSUME IInv PROVE AtMostOneRunPerKey
  <2>1. ASSUME NEW a \in runs, NEW b \in runs, a.scope = b.scope, a.key = b.key
        PROVE  a.id = b.id
    <3>1. <<a.scope, a.key>> = <<b.scope, b.key>>
      BY <2>1
    <3>2. idem[<<a.scope, a.key>>].run = a.id /\ idem[<<b.scope, b.key>>].run = b.id
      BY <1>1 DEF IInv, RecordsMatchRuns
    <3> QED
      BY <3>1, <3>2
  <2> QED
    BY <2>1 DEF AtMostOneRunPerKey, Contract!AtMostOneRunPerKey
<1> QED
  BY <1>1, Inductive, PTL

(* Requests that are told a run agree on it and on what they asked.         *)
THEOREM Agreement == Spec => []AnswersAgree
<1>1. IInv => AnswersAgree
  <2> SUFFICES ASSUME IInv, NEW r \in Request, NEW q \in Request,
                      AbstractAnswer(answer[r]) # None, AbstractAnswer(answer[q]) # None,
                      AbstractAnswer(answer[r]).kind \in {"created", "replayed"}
               PROVE  /\ \E b \in runs : b.id = AbstractAnswer(answer[r]).run
                                         /\ b.scope = req[r].scope /\ b.key = req[r].key
                      /\ AbstractAnswer(answer[q]).kind \in {"created", "replayed"}
                         /\ Slot(r) = Slot(q) =>
                           /\ AbstractAnswer(answer[r]).run = AbstractAnswer(answer[q]).run
                           /\ req[r].body = req[q].body
    BY DEF AnswersAgree, Contract!AnswersAgree, Contract!Slot, Slot
  <2>1. \A p \in Request :
          AbstractAnswer(answer[p]) # None
          /\ AbstractAnswer(answer[p]).kind \in {"created", "replayed"} =>
            /\ answer[p] # None /\ answer[p].kind \in {"created", "replayed"}
            /\ answer[p].run = AbstractAnswer(answer[p]).run
    BY DEF AbstractAnswer
  <2>2. \A p \in Request : Slot(p) = <<req[p].scope, req[p].key>> /\ req[p] \in Requests
    BY SlotType DEF IInv
  <2> QED
    BY <2>1, <2>2 DEF IInv, AnswersOnRecord, RecordsMatchRuns, Requests
<1> QED
  BY <1>1, Inductive, PTL

-----------------------------------------------------------------------------
(* The refinement.                                                          *)

AbstractKind(kind) == IF kind \in {"created", "replayed", "conflict"} THEN kind ELSE "failed"

(* A request that is answered here is answered in the contract.             *)
LEMMA FinishImplements ==
  ASSUME TypeOK, NEW r \in Request, NEW kind \in Kinds, NEW run \in RunId \cup {0},
         Finish(r, kind, run), pc[r] # "done"
  PROVE  Contract!Answer(r, AbstractKind(kind), run)
<1> DEFINE given == [kind |-> kind, run |-> run]
<1>1. answer[r] = None /\ answer \in [Request -> Answers \cup {None}]
  BY DEF TypeOK
<1>2. given # None
  BY RunConstants DEF Answers
<1>3. AbstractAnswer(given) = [kind |-> AbstractKind(kind), run |-> run]
  BY <1>2 DEF AbstractAnswer, AbstractKind
<1>4. answer' = [answer EXCEPT ![r] = given] /\ req' = req
  BY DEF Finish
<1> HIDE DEF given
<1>5. [q \in Request |-> AbstractAnswer(answer'[q])]
        = [[q \in Request |-> AbstractAnswer(answer[q])] EXCEPT ![r] = AbstractAnswer(given)]
  BY <1>1, <1>4
<1> QED
  BY <1>1, <1>3, <1>4, <1>5 DEF Contract!Answer, AbstractAnswer

(* Only the record's body and run are abstract, and None stands for none.   *)
LEMMA AbstractSlot ==
  ASSUME TypeOK, NEW r \in Request
  PROVE  /\ Contract!Slot(r) = Slot(r)
         /\ [s \in Scope \X Key |-> AbstractRecord(idem[s])][Slot(r)] = AbstractRecord(idem[Slot(r)])
         /\ AbstractRecord(idem[Slot(r)]) = None <=> idem[Slot(r)] = None
         /\ idem[Slot(r)] # None =>
              /\ AbstractRecord(idem[Slot(r)]).body = idem[Slot(r)].body
              /\ AbstractRecord(idem[Slot(r)]).run = idem[Slot(r)].run
<1>1. Slot(r) \in Scope \X Key /\ idem[Slot(r)] \in Records \cup {None}
  BY SlotType
<1>2. idem[Slot(r)] # None => AbstractRecord(idem[Slot(r)]) \in [body : Body, run : RunId]
  BY <1>1 DEF AbstractRecord, Records
<1> QED
  BY <1>1, <1>2, RunConstants DEF AbstractRecord, Contract!Slot, Slot

(* Every step of a handler is a step of the contract or changes nothing     *)
(* that it tells apart; the expiry of a record is among the latter.         *)
LEMMA ContractStep == IInv /\ [Next]_vars => [Contract!Next]_(Contract!vars)
<1> SUFFICES ASSUME IInv, [Next]_vars PROVE [Contract!Next]_(Contract!vars)
  OBVIOUS
<1> USE DEF IInv, local
<1>1. CASE UNCHANGED <<req, idem, runs, answer>>
  BY <1>1 DEF Contract!vars
<1>2. ASSUME NEW r \in Request, NEW kind \in {"rejected", "upstream", "lost_race", "failed"},
             Finish(r, kind, 0), pc[r] # "done", UNCHANGED <<idem, runs>>
      PROVE  Contract!Next
  <2>1. Contract!Answer(r, "failed", 0)
    BY <1>2, FinishImplements DEF Kinds, AbstractKind
  <2> QED
    BY <1>2, <2>1 DEF Contract!Fail, Contract!Next
<1>3. ASSUME NEW r \in Request, NEW record \in Records, SameRun(record, idem[Slot(r)]),
             record.body = req[r].body, Finish(r, "replayed", record.run),
             pc[r] # "done", UNCHANGED <<idem, runs>>
      PROVE  Contract!Next
  <2>1. Contract!Answer(r, "replayed", idem[Slot(r)].run)
    BY <1>3, FinishImplements DEF Kinds, AbstractKind, SameRun, Records
  <2> QED
    BY <1>3, <2>1, AbstractSlot DEF Contract!Replay, Contract!Next, SameRun
<1>4. ASSUME NEW r \in Request, NEW record \in Records, SameRun(record, idem[Slot(r)]),
             record.body # req[r].body, Finish(r, "conflict", 0),
             pc[r] # "done", UNCHANGED <<idem, runs>>
      PROVE  Contract!Next
  <2>1. Contract!Answer(r, "conflict", 0)
    BY <1>4, FinishImplements DEF Kinds, AbstractKind
  <2> QED
    BY <1>4, <2>1, AbstractSlot DEF Contract!Conflict, Contract!Next, SameRun
<1>5. ASSUME NEW r \in Request, Store(r) PROVE Contract!Store(r, runId[r])
  <2>1. \A b \in runs : b.id # runId[r]
    BY <1>5 DEF Store, NumbersOwn, Numbered
  <2>2. idem' = [idem EXCEPT ![Slot(r)] = NewRecord(r)] /\ runs' = runs \cup {Bundle(r)}
        /\ idem[Slot(r)] = None
    BY <1>5 DEF Store, NewRecord
  <2>3. AbstractRecord(NewRecord(r)) = [body |-> req[r].body, run |-> runId[r]]
    BY <1>5, StoredRecord DEF AbstractRecord
  <2>4. [s \in Scope \X Key |-> AbstractRecord(idem'[s])]
          = [[s \in Scope \X Key |-> AbstractRecord(idem[s])]
               EXCEPT ![Slot(r)] = AbstractRecord(NewRecord(r))]
    BY <2>2, SlotType DEF TypeOK
  <2>5. {[id |-> b.id, scope |-> b.scope, key |-> b.key] : b \in runs'}
          = {[id |-> b.id, scope |-> b.scope, key |-> b.key] : b \in runs}
              \cup {[id |-> runId[r], scope |-> req[r].scope, key |-> req[r].key]}
    <3>1. Bundle(r).id = runId[r] /\ Bundle(r).scope = req[r].scope /\ Bundle(r).key = req[r].key
      BY DEF Bundle
    <3> QED
      BY <2>2, <3>1
  <2>6. \A b \in {[id |-> c.id, scope |-> c.scope, key |-> c.key] : c \in runs} : b.id # runId[r]
    BY <2>1
  <2>7. Contract!Slot(r) = Slot(r)
        /\ [s \in Scope \X Key |-> AbstractRecord(idem[s])][Slot(r)] = None
    BY <2>2, AbstractSlot
  <2> QED
    BY <2>3, <2>4, <2>5, <2>6, <2>7 DEF Contract!Store
<1>6. ASSUME NEW r \in Request, Commit(r) \/ CommitAnswerLost(r) PROVE Contract!Next
  <2>1. Store(r) /\ runId[r] \in RunId /\ pc[r] # "done"
    BY <1>6, StoredRecord DEF Commit, CommitAnswerLost, Store
  <2>2. Contract!Answer(r, "created", runId[r]) \/ Contract!Answer(r, "failed", 0)
    BY <1>6, <2>1, FinishImplements DEF Commit, CommitAnswerLost, Kinds, AbstractKind
  <2>3. Contract!Create(r, runId[r]) \/ Contract!CreateUnacknowledged(r, runId[r])
    BY <1>5, <2>1, <2>2 DEF Contract!Create, Contract!CreateUnacknowledged
  <2> QED
    BY <2>1, <2>3 DEF Contract!Next
<1>7. ASSUME NEW r \in Request, Preflight(r) PROVE [Contract!Next]_(Contract!vars)
  <2>1. CASE ~Live(idem[Slot(r)])
    BY <1>1, <1>7, <2>1 DEF Preflight
  <2>2. CASE Live(idem[Slot(r)])
    <3>1. idem[Slot(r)] \in Records /\ SameRun(idem[Slot(r)], idem[Slot(r)])
      BY <2>2, SlotType DEF Live, SameRun
    <3> QED
      BY <1>3, <1>4, <1>7, <2>2, <3>1 DEF Preflight
  <2> QED
    BY <2>1, <2>2
<1>8. ASSUME NEW r \in Request, Lookup(r) PROVE [Contract!Next]_(Contract!vars)
  <2>1. CASE ~Live(snap[r])
    BY <1>1, <1>8, <2>1 DEF Lookup
  <2>2. CASE Live(snap[r])
    <3>1. snap[r] \in Records /\ SameRun(snap[r], idem[Slot(r)])
      BY <2>2 DEF Live, TypeOK, SnapshotHolds
    <3> QED
      BY <1>3, <1>4, <1>8, <2>2, <3>1 DEF Lookup
  <2> QED
    BY <2>1, <2>2
<1>9. ASSUME NEW s \in Scope \X Key, Expire(s) PROVE UNCHANGED Contract!vars
  <2>1. idem[s] \in Records /\ idem \in [Scope \X Key -> Records \cup {None}]
    BY <1>9 DEF Expire, Live, TypeOK
  <2>2. idem'[s] = [idem[s] EXCEPT !.expired = TRUE]
        /\ \A t \in Scope \X Key : t # s => idem'[t] = idem[t]
    BY <1>9, <2>1 DEF Expire
  <2>3. idem'[s] \in Records /\ idem'[s].body = idem[s].body /\ idem'[s].run = idem[s].run
    BY <2>1, <2>2 DEF Records
  <2>4. \A t \in Scope \X Key : AbstractRecord(idem'[t]) = AbstractRecord(idem[t])
    BY <2>1, <2>2, <2>3, RunConstants DEF AbstractRecord
  <2> QED
    BY <1>9, <2>4 DEF Expire, Contract!vars
<1>10. ASSUME NEW r \in Request,
              Reject(r) \/ RejectConnection(r) \/ CreateIntentFails(r) \/ UniqueViolation(r) \/ Abort(r)
       PROVE  Contract!Next
  BY <1>2, <1>10 DEF Reject, RejectConnection, CreateIntentFails, UniqueViolation, Abort
<1>11. ASSUME NEW r \in Request, NextRunID(r) \/ CreateIntent(r) \/ Begin(r) \/ AcquireLock(r)
       PROVE  UNCHANGED Contract!vars
  BY <1>11 DEF NextRunID, CreateIntent, Begin, AcquireLock, Contract!vars
<1> QED
  BY <1>1, <1>6, <1>7, <1>8, <1>9, <1>10, <1>11 DEF Next, Handle, vars

(* The PostgreSQL adapter implements the idempotency contract that the      *)
(* in-memory adapter keeps with one mutex.                                  *)
THEOREM Refinement == Spec => ImplementsContract
<1>1. Init => Contract!Init
  BY DEF Init, Contract!Init, AbstractRecord, AbstractAnswer, Requests, Contract!Requests
<1> QED
  BY <1>1, ContractStep, Inductive, PTL DEF Spec, ImplementsContract, Contract!Spec
=============================================================================
