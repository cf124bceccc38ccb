--------------------------- MODULE IdempotentRuns ---------------------------
(***************************************************************************)
(* What run creation promises: a request carries an idempotency key, and   *)
(* all requests with one key in one scope (a project, or the public demo)  *)
(* create at most one run.  The steps are those of the in-memory adapter,  *)
(* whose mutex makes one request one step (engine/memory_repository.go),   *)
(* and a request that fails, as the service may answer with any adapter.   *)
(* RunCreation shows that the PostgreSQL adapter implements it.            *)
(***************************************************************************)
EXTENDS Naturals

CONSTANTS Request, Scope, Key, Body,
          RunId,   \* run numbers
          None

VARIABLES
    req,     \* what each request asks: its scope, key and body
    idem,    \* the idempotency records, by scope and key
    runs,    \* the run bundles stored: run, events, report and outbox row
    answer   \* what each request was told

vars == <<req, idem, runs, answer>>

Kinds == {"created", "replayed", "conflict", "failed"}
Requests == [scope : Scope, key : Key, body : Body]
Records == [body : Body, run : RunId]
Bundles == [id : RunId, scope : Scope, key : Key]

TypeOK ==
    /\ req \in [Request -> Requests]
    /\ idem \in [Scope \X Key -> Records \cup {None}]
    /\ runs \in SUBSET Bundles
    /\ answer \in [Request -> [kind : Kinds, run : RunId \cup {0}] \cup {None}]

Slot(r) == <<req[r].scope, req[r].key>>

Init ==
    /\ req \in [Request -> Requests]
    /\ idem = [s \in Scope \X Key |-> None]
    /\ runs = {}
    /\ answer = [r \in Request |-> None]

Answer(r, kind, run) ==
    /\ answer[r] = None
    /\ answer' = [answer EXCEPT ![r] = [kind |-> kind, run |-> run]]
    /\ UNCHANGED req

\* The bundle, the record and the outbox row are stored together or not at all.
Store(r, id) ==
    /\ idem[Slot(r)] = None
    /\ \A b \in runs : b.id # id
    /\ idem' = [idem EXCEPT ![Slot(r)] = [body |-> req[r].body, run |-> id]]
    /\ runs' = runs \cup {[id |-> id, scope |-> req[r].scope, key |-> req[r].key]}

Create(r, id) == Store(r, id) /\ Answer(r, "created", id)

\* The storing request may still be told that it failed: the answer was lost.
CreateUnacknowledged(r, id) == Store(r, id) /\ Answer(r, "failed", 0)

Replay(r) ==
    /\ idem[Slot(r)] # None
    /\ idem[Slot(r)].body = req[r].body
    /\ Answer(r, "replayed", idem[Slot(r)].run)
    /\ UNCHANGED <<idem, runs>>

Conflict(r) ==
    /\ idem[Slot(r)] # None
    /\ idem[Slot(r)].body # req[r].body
    /\ Answer(r, "conflict", 0)
    /\ UNCHANGED <<idem, runs>>

Fail(r) == Answer(r, "failed", 0) /\ UNCHANGED <<idem, runs>>

Next ==
    \E r \in Request :
        \/ \E id \in RunId : Create(r, id) \/ CreateUnacknowledged(r, id)
        \/ Replay(r) \/ Conflict(r) \/ Fail(r)

Spec == Init /\ [][Next]_vars
-----------------------------------------------------------------------------
(* At most one run is ever stored for a key of a scope.                     *)
AtMostOneRunPerKey ==
    \A a, b \in runs : a.scope = b.scope /\ a.key = b.key => a = b

(* Requests with one scope and key that succeed asked the same thing and    *)
(* were told the same run, which is stored.                                 *)
AnswersAgree ==
    \A r, q \in Request :
        answer[r] # None /\ answer[q] # None =>
        (answer[r].kind \in {"created", "replayed"} =>
          /\ [id |-> answer[r].run, scope |-> req[r].scope, key |-> req[r].key] \in runs
          /\ answer[q].kind \in {"created", "replayed"} /\ Slot(r) = Slot(q) =>
               answer[r].run = answer[q].run /\ req[r].body = req[q].body)
=============================================================================
