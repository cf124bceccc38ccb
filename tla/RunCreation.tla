---------------------------- MODULE RunCreation ----------------------------
(***************************************************************************)
(* Run creation on PostgreSQL: the preflight, the run number, the Stripe   *)
(* PaymentIntent and the serializable transaction of the repository        *)
(* (engine/service.go and stripe_service.go, createRun and                 *)
(* createPaymentIntentRun; postgres/repository.go, replayRun, createRun).  *)
(*                                                                         *)
(* Requests run concurrently.  The snapshot of a serializable transaction  *)
(* is taken by its first statement, which here is the one that waits for   *)
(* the advisory lock: what the transaction reads afterwards is the state   *)
(* from before the wait.                                                   *)
(***************************************************************************)
EXTENDS Naturals

CONSTANTS
    Request,  \* API requests, each handled once
    Scope,    \* idempotency scopes: the public demo and the projects
    Key,      \* Idempotency-Key header values
    Body,     \* fingerprints of request bodies
    Stripe,   \* the bodies that ask for a PaymentIntent run
    RunId,    \* run numbers; bounds run_number_seq
    None      \* no row, no holder, no answer

Records == [body : Body, run : RunId, expired : BOOLEAN]
Kinds == {"created", "replayed", "conflict", "rejected", "upstream", "lost_race", "failed"}
Answers == [kind : Kinds, run : RunId \cup {0}]

ASSUME RunConstants ==
    /\ RunId \subseteq Nat \ {0}
    /\ Stripe \subseteq Body
    /\ None \notin Request \cup Body
    /\ None \notin Records \cup [body : Body, run : RunId] \cup Answers

VARIABLES
    req,       \* scope, key and body of each request
    pc,        \* where the request stands
    runId,     \* the run number NextRunID gave it, 0 before
    snap,      \* its slot of idempotency_records as its transaction's snapshot has it
    answer,    \* the answer it was given
    nextRun,   \* run_number_seq
    lock,      \* pg_advisory_xact_lock by idempotency key hash: the holder
    idem,      \* idempotency_records by (scope, key), its primary key
    runs,      \* committed bundles: run, events, report, findings and outbox row
    intents    \* external: PaymentIntents at Stripe, by Stripe idempotency key

local == <<pc, runId, snap, answer>>
vars == <<req, local, nextRun, lock, idem, runs, intents>>

Requests == [scope : Scope, key : Key, body : Body]
Topics == {"run.persisted", "verification.run.queued"}
Bundles == [id : RunId, scope : Scope, key : Key, topic : Topics]

TypeOK ==
    /\ req \in [Request -> Requests]
    /\ pc \in [Request -> {"new", "allocate", "intent", "begin", "waiting", "lookup",
                           "insert", "done"}]
    /\ runId \in [Request -> RunId \cup {0}]
    /\ snap \in [Request -> Records \cup {None}]
    /\ answer \in [Request -> Answers \cup {None}]
    /\ nextRun \in Nat
    /\ lock \in [Key -> Request \cup {None}]
    /\ idem \in [Scope \X Key -> Records \cup {None}]
    /\ runs \in SUBSET Bundles
    /\ intents \in [Key -> Body \cup {None}]
    /\ \A r \in Request : (answer[r] # None) = (pc[r] = "done")

Init ==
    /\ req \in [Request -> Requests]
    /\ pc = [r \in Request |-> "new"]
    /\ runId = [r \in Request |-> 0]
    /\ snap = [r \in Request |-> None]
    /\ answer = [r \in Request |-> None]
    /\ nextRun = 1
    /\ lock = [k \in Key |-> None]
    /\ idem = [s \in Scope \X Key |-> None]
    /\ runs = {}
    /\ intents = [k \in Key |-> None]

Slot(r) == <<req[r].scope, req[r].key>>
IsStripe(r) == req[r].body \in Stripe
Live(record) == record # None /\ ~record.expired

FinishHoldingLock(r, kind, run) ==
    /\ pc' = [pc EXCEPT ![r] = "done"]
    /\ answer' = [answer EXCEPT ![r] = [kind |-> kind, run |-> run]]
    /\ snap' = [snap EXCEPT ![r] = None]
    /\ UNCHANGED <<req, runId, lock>>

\* The request is answered; its transaction, if it has one, releases the advisory lock.
Finish(r, kind, run) ==
    /\ pc' = [pc EXCEPT ![r] = "done"]
    /\ answer' = [answer EXCEPT ![r] = [kind |-> kind, run |-> run]]
    /\ lock' = [k \in Key |-> IF lock[k] = r THEN None ELSE lock[k]]
    /\ snap' = [snap EXCEPT ![r] = None]
    /\ UNCHANGED <<req, runId>>

GoTo(r, next) == pc' = [pc EXCEPT ![r] = next]

-----------------------------------------------------------------------------
(* Before the transaction.                                                  *)

\* Missing key, unknown scenario, unsupported fault, bad amount or currency.
Reject(r) ==
    /\ pc[r] = "new"
    /\ Finish(r, "rejected", 0)
    /\ UNCHANGED <<nextRun, idem, runs, intents>>

\* replayRun: one statement outside any transaction.
Preflight(r) ==
    /\ pc[r] = "new"
    /\ LET record == idem[Slot(r)] IN
       \/ /\ Live(record) /\ record.body = req[r].body
          /\ Finish(r, "replayed", record.run)
       \/ /\ Live(record) /\ record.body # req[r].body
          /\ Finish(r, "conflict", 0)
       \/ /\ ~Live(record)
          /\ GoTo(r, "allocate")
          /\ UNCHANGED <<req, runId, snap, answer, lock>>
    /\ UNCHANGED <<nextRun, idem, runs, intents>>

\* A Stripe run whose connection is unknown, disconnected or cannot be decrypted.
RejectConnection(r) ==
    /\ pc[r] = "allocate" /\ IsStripe(r)
    /\ Finish(r, "rejected", 0)
    /\ UNCHANGED <<nextRun, idem, runs, intents>>

NextRunIDReused(r) ==
    /\ pc[r] = "allocate"
    /\ nextRun \in RunId
    /\ runId' = [runId EXCEPT ![r] = nextRun]
    /\ GoTo(r, IF IsStripe(r) THEN "intent" ELSE "begin")
    /\ UNCHANGED <<req, snap, answer, nextRun, lock, idem, runs, intents>>

NextRunIDIgnored(r) ==
    /\ pc[r] = "allocate"
    /\ nextRun \in RunId
    /\ nextRun' = nextRun + 1
    /\ GoTo(r, IF IsStripe(r) THEN "intent" ELSE "begin")
    /\ UNCHANGED <<req, runId, snap, answer, lock, idem, runs, intents>>

\* nextval: never rolled back.
NextRunID(r) ==
    /\ pc[r] = "allocate"
    /\ nextRun \in RunId
    /\ runId' = [runId EXCEPT ![r] = nextRun]
    /\ nextRun' = nextRun + 1
    /\ GoTo(r, IF IsStripe(r) THEN "intent" ELSE "begin")
    /\ UNCHANGED <<req, snap, answer, lock, idem, runs, intents>>

(* CreatePaymentIntent.  The Stripe idempotency key is derived from the     *)
(* request's key alone: Stripe answers the first intent again, or refuses   *)
(* other parameters under the same key.                                     *)
CreateIntent(r) ==
    LET known == intents[req[r].key] IN
    /\ pc[r] = "intent"
    /\ known \in {None, req[r].body}
    /\ intents' = [intents EXCEPT ![req[r].key] = req[r].body]
    /\ GoTo(r, "begin")
    /\ UNCHANGED <<req, runId, snap, answer, nextRun, lock, idem, runs>>

\* Stripe refuses, cannot be reached, or its answer is lost after it made the intent.
CreateIntentFails(r) ==
    LET known == intents[req[r].key] IN
    /\ pc[r] = "intent"
    /\ \/ UNCHANGED intents
       \/ known = None /\ intents' = [intents EXCEPT ![req[r].key] = req[r].body]
    /\ Finish(r, "upstream", 0)
    /\ UNCHANGED <<nextRun, idem, runs>>

-----------------------------------------------------------------------------
(* The transaction of createRun.                                            *)

\* BEGIN ISOLATION LEVEL SERIALIZABLE; the lock statement takes the snapshot and waits.
Begin(r) ==
    /\ pc[r] = "begin"
    /\ snap' = [snap EXCEPT ![r] = idem[Slot(r)]]
    /\ GoTo(r, "waiting")
    /\ UNCHANGED <<req, runId, answer, nextRun, lock, idem, runs, intents>>

\* The lock is on the key hash, whatever the scope.
AcquireLock(r) ==
    /\ pc[r] = "waiting"
    /\ lock[req[r].key] = None
    /\ lock' = [lock EXCEPT ![req[r].key] = r]
    /\ GoTo(r, "lookup")
    /\ UNCHANGED <<req, runId, snap, answer, nextRun, idem, runs, intents>>

LookupAnyBody(r) ==
    /\ pc[r] = "lookup"
    /\ \/ Live(snap[r]) /\ Finish(r, "replayed", snap[r].run)
       \/ /\ ~Live(snap[r])
          /\ GoTo(r, "insert")
          /\ UNCHANGED <<req, runId, snap, answer, lock>>
    /\ UNCHANGED <<nextRun, idem, runs, intents>>

\* SELECT ... expires_at > now(), in the snapshot.
Lookup(r) ==
    /\ pc[r] = "lookup"
    /\ \/ /\ Live(snap[r]) /\ snap[r].body = req[r].body
          /\ Finish(r, "replayed", snap[r].run)
       \/ /\ Live(snap[r]) /\ snap[r].body # req[r].body
          /\ Finish(r, "conflict", 0)
       \/ /\ ~Live(snap[r])
          /\ GoTo(r, "insert")
          /\ UNCHANGED <<req, runId, snap, answer, lock>>
    /\ UNCHANGED <<nextRun, idem, runs, intents>>

Bundle(r) ==
    [id |-> runId[r], scope |-> req[r].scope, key |-> req[r].key,
     topic |-> IF IsStripe(r) THEN "verification.run.queued" ELSE "run.persisted"]

StoreUpsert(r) ==
    /\ pc[r] = "insert"
    /\ idem' = [idem EXCEPT ![Slot(r)] =
                  [body |-> req[r].body, run |-> runId[r], expired |-> FALSE]]
    /\ runs' = runs \cup {Bundle(r)}
    /\ UNCHANGED <<nextRun, intents>>

(* The INSERTs and the COMMIT, one step: the advisory lock keeps every      *)
(* other transaction on the key out.  The primary key counts every row,     *)
(* expired or invisible to the snapshot.                                    *)
Store(r) ==
    /\ pc[r] = "insert"
    /\ idem[Slot(r)] = None
    /\ idem' = [idem EXCEPT ![Slot(r)] =
                  [body |-> req[r].body, run |-> runId[r], expired |-> FALSE]]
    /\ runs' = runs \cup {Bundle(r)}
    /\ UNCHANGED <<nextRun, intents>>

Commit(r) == Store(r) /\ Finish(r, "created", runId[r])

\* COMMIT took effect but its answer did not arrive: 500 persistence_failed.
CommitAnswerLost(r) == Store(r) /\ Finish(r, "failed", 0)

\* The row is there after all: the INSERT fails and the transaction rolls back.
UniqueViolation(r) ==
    /\ pc[r] = "insert"
    /\ idem[Slot(r)] # None
    /\ Finish(r, "lost_race", 0)
    /\ UNCHANGED <<nextRun, idem, runs, intents>>

\* A statement fails, the transaction is not serializable, or the API process dies.
Abort(r) ==
    /\ pc[r] # "done"
    /\ Finish(r, "failed", 0)
    /\ UNCHANGED <<nextRun, idem, runs, intents>>

\* 24 hours pass.  No code deletes the record.
Expire(s) ==
    /\ Live(idem[s])
    /\ idem' = [idem EXCEPT ![s].expired = TRUE]
    /\ UNCHANGED <<req, local, nextRun, lock, runs, intents>>

-----------------------------------------------------------------------------
\* What the handler does when nothing interrupts it.
Handle(r) ==
    \/ Reject(r) \/ Preflight(r) \/ RejectConnection(r) \/ NextRunID(r)
    \/ CreateIntent(r) \/ CreateIntentFails(r)
    \/ Begin(r) \/ AcquireLock(r) \/ Lookup(r) \/ Commit(r) \/ CommitAnswerLost(r)
    \/ UniqueViolation(r)

Next ==
    \/ \E r \in Request : Handle(r) \/ Abort(r)
    \/ \E s \in Scope \X Key : Expire(s)

Spec == Init /\ [][Next]_vars

(* Every request is a goroutine that keeps running, and the database grants *)
(* a free lock.  A request need not be sent, and an abort need not rescue   *)
(* one that waits.                                                          *)
FairSpec == Spec /\ \A r \in Request : WF_vars(pc[r] # "new" /\ Handle(r))
-----------------------------------------------------------------------------
(* The contract: forgetting expiry, topics and the reasons of a failure,    *)
(* every step is a step of IdempotentRuns, whose properties hold here too.  *)
AbstractRecord(record) ==
    IF record = None THEN None ELSE [body |-> record.body, run |-> record.run]

AbstractAnswer(a) ==
    IF a = None THEN None
    ELSE [kind |-> IF a.kind \in {"created", "replayed", "conflict"} THEN a.kind ELSE "failed",
          run |-> a.run]

Contract == INSTANCE IdempotentRuns WITH
    idem <- [s \in Scope \X Key |-> AbstractRecord(idem[s])],
    runs <- {[id |-> b.id, scope |-> b.scope, key |-> b.key] : b \in runs},
    answer <- [r \in Request |-> AbstractAnswer(answer[r])]

ImplementsContract == Contract!Spec

(* One idempotency key of a scope yields at most one committed run, however *)
(* preflights, lock waits, lost commit answers and expiry interleave.       *)
AtMostOneRunPerKey == Contract!AtMostOneRunPerKey

(* Whoever is told a run, by the creation, the preflight or the transaction *)
(* is told the one committed for its key and body.                          *)
AnswersAgree == Contract!AnswersAgree

(* No request waits for ever: on the advisory lock or on another request.   *)
EveryRequestAnswered == \A r \in Request : pc[r] # "new" ~> pc[r] = "done"

(* docs/WORKSTREAMS/ENGINE.md: concurrent misses converge through the       *)
(* repository transaction.  A request never fails because an equal request  *)
(* committed while it waited.                                               *)
ConcurrentMissesConverge ==
    \A r \in Request :
        answer[r] # None /\ answer[r].kind = "lost_race" =>
            ~(Live(idem[Slot(r)]) /\ idem[Slot(r)].body = req[r].body)
=============================================================================
