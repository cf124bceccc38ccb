-------------------------- MODULE TenantResources --------------------------
(***************************************************************************)
(* The protected resources of one project: environments, notifications,    *)
(* findings and settings, as concurrent requests change them               *)
(* (httpapi/auth_routes.go, auth/service.go) in READ COMMITTED             *)
(* transactions (postgres/auth_repository.go).  A statement works on the   *)
(* rows its snapshot shows, waits for a row another transaction has        *)
(* written, and evaluates its WHERE clause again on what it then finds; a  *)
(* row lock lasts to the end of its transaction.                           *)
(***************************************************************************)
EXTENDS Naturals, FiniteSets

CONSTANTS
    Request,       \* requests in their order of arrival, each served by some API process
    Environment,   \* rows of environments
    Selected,      \* the default environment of a registration
    Run,           \* the project's runs, each with a notification
    Failed,        \* those with a finding
    MaxFaults,     \* bound: failed statements and lost answers
    None           \* SQL NULL; as an id, a row of another project

ASSUME TenantConstants ==
    /\ Selected \in Environment
    /\ Failed \subseteq Run /\ Run \subseteq Nat /\ Request \subseteq Nat
    /\ MaxFaults \in Nat
    /\ None \notin Request \cup Environment \cup Run
    /\ None \notin {"ok", "refused", "failed"}

VARIABLES
    \* the committed rows
    defaults,    \* environments with is_default
    stored,      \* runs whose notification and finding are there
    readBy,      \* the request whose transaction set read_at
    resolved,    \* findings with resolved
    settings,    \* name and retention_days: the request whose value it is
    \* the transactions
    locks,       \* row locks, held by requests
    pc, ask,
    found,       \* the rows a statement has still to visit
    written,     \* the rows written and not yet committed: cleared or marked read
    draft,       \* the version of the projects row written and not yet committed
    answer,      \* what the client was told
    \* observed
    unreadAtStart,   \* what was unread when the request came in
    overtaken,       \* another selection committed while the request ran
    faults

database == <<defaults, stored, readBy, resolved, settings>>
transactions == <<locks, pc, ask, found, written, draft, answer>>
observed == <<unreadAtStart, overtaken>>
vars == <<database, transactions, observed, faults>>

Row(table, ids) == {table} \X ids
Rows == Row("environment", Environment) \cup Row("notification", Run)
            \cup Row("finding", Failed) \cup Row("project", {"own"})

Ask == [op : {"select"}, row : Environment \cup {None}]
           \cup [op : {"read"}, row : Run]
           \cup [op : {"resolve", "reopen"}, row : Failed]
           \cup [op : {"readAll", "name", "days"}, row : {"own"}]

NoAsk == [op |-> "none", row |-> None]

\* name and retention_days as the registration left them.
Registered == [f \in {"name", "days"} |-> None]

Unread == {n \in stored : readBy[n] = None}

TypeOK ==
    /\ defaults \subseteq Environment
    /\ stored \subseteq Run /\ resolved \subseteq stored
    /\ readBy \in [Run -> Request \cup {None}]
    /\ settings \in [{"name", "days"} -> Request \cup {None}]
    /\ locks \subseteq Rows \X Request
    /\ pc \in [Request -> {"idle", "lock", "clear", "clearRow", "set", "scan", "mark",
                           "update", "commit", "done"}]
    /\ ask \in [Request -> Ask \cup {NoAsk}]
    /\ found \in [Request -> SUBSET (Environment \cup Run)]
    /\ written \in [Request -> SUBSET (Environment \cup Run)]
    /\ draft \in [Request -> [{"name", "days"} -> Request \cup {None}]]
    /\ answer \in [Request -> {None, "ok", "refused", "failed"}]
    /\ unreadAtStart \in [Request -> SUBSET stored]
    /\ overtaken \subseteq Request
    /\ faults \in 0..MaxFaults
    /\ \A l, m \in locks : l[1] = m[1] => l = m
    /\ \A l \in locks : pc[l[2]] \notin {"idle", "done"}

Init ==
    /\ defaults = {Selected}
    /\ stored = {} /\ resolved = {}
    /\ readBy = [n \in Run |-> None]
    /\ settings = Registered
    /\ locks = {}
    /\ pc = [r \in Request |-> "idle"]
    /\ ask = [r \in Request |-> NoAsk]
    /\ found = [r \in Request |-> {}]
    /\ written = [r \in Request |-> {}]
    /\ draft = [r \in Request |-> Registered]
    /\ answer = [r \in Request |-> None]
    /\ unreadAtStart = [r \in Request |-> {}]
    /\ overtaken = {}
    /\ faults = 0

-----------------------------------------------------------------------------
(* Transactions.                                                            *)

Fault == faults < MaxFaults /\ faults' = faults + 1

GoTo(r, step) == pc' = [pc EXCEPT ![r] = step]

Free(r, row) == \A l \in locks : l[1] = row => l[2] = r

Hold(r, row) ==
    /\ Free(r, row)
    /\ locks' = locks \cup {<<row, r>>}

\* The handler is over; the properties look back at acknowledgements and refused selections.
Forget(r, reply) ==
    /\ found' = [found EXCEPT ![r] = {}]
    /\ written' = [written EXCEPT ![r] = IF reply = "ok" THEN @ ELSE {}]
    /\ draft' = [draft EXCEPT ![r] = Registered]
    /\ ask' = [ask EXCEPT ![r] =
                  IF reply = "ok" \/ (reply = "failed" /\ @.op = "select") THEN @ ELSE NoAsk]

\* A statement has these rows left to visit; after the last one comes the next statement.
Visit(r, rows, step, after) ==
    /\ found' = [found EXCEPT ![r] = rows]
    /\ GoTo(r, IF rows = {} THEN after ELSE step)

EndKeepingLocks(r, reply) ==
    /\ GoTo(r, "done")
    /\ answer' = [answer EXCEPT ![r] = reply]
    /\ Forget(r, reply)
    /\ UNCHANGED locks

\* Commit or rollback: the locks go, and the handler answers.
End(r, reply) ==
    /\ GoTo(r, "done")
    /\ answer' = [answer EXCEPT ![r] = reply]
    /\ locks' = {l \in locks : l[2] # r}
    /\ Forget(r, reply)

Arrives(r) == pc[r] = "idle" /\ \A q \in Request : q < r => pc[q] # "idle"

\* requireSession lets the request in, and its transaction begins.
Begin(r, a) ==
    /\ Arrives(r)
    /\ ask' = [ask EXCEPT ![r] = a]
    /\ GoTo(r, CASE a.op = "select" -> "lock" [] a.op = "readAll" -> "scan" [] OTHER -> "update")
    /\ unreadAtStart' = [unreadAtStart EXCEPT ![r] = IF a.op = "readAll" THEN Unread ELSE {}]
    /\ UNCHANGED <<database, locks, found, written, draft, answer, overtaken, faults>>

\* session_required, session_invalid, or a body that does not validate.
Unauthorized(r) ==
    /\ Arrives(r)
    /\ End(r, "refused")
    /\ UNCHANGED <<database, observed, faults>>

\* A statement fails, or the context is cancelled, and all of it is rolled back.
Abort(r) ==
    /\ pc[r] \notin {"idle", "done"}
    /\ Fault
    /\ End(r, "failed")
    /\ UNCHANGED <<database, observed>>

\* Every lookup names the project: another project's row is not there.
InProject(a) ==
    CASE a.op = "select" -> a.row \in Environment
      [] a.op \in {"read", "resolve", "reopen"} -> a.row \in stored
      [] OTHER -> TRUE

NotFound(r) ==
    /\ pc[r] \in {"lock", "update"}
    /\ ~InProject(ask[r])
    /\ End(r, "refused")
    /\ UNCHANGED <<database, observed, faults>>

-----------------------------------------------------------------------------
(* SelectEnvironment.                                                       *)

\* SELECT ... FOR UPDATE.
LockTarget(r) ==
    /\ pc[r] = "lock"
    /\ InProject(ask[r])
    /\ Hold(r, <<"environment", ask[r].row>>)
    /\ GoTo(r, "clear")
    /\ UNCHANGED <<database, ask, found, written, draft, answer, observed, faults>>

ClearSelectTarget(r) ==
    /\ pc[r] = "clear"
    /\ Visit(r, defaults \cap {ask[r].row}, "clearRow", "set")
    /\ UNCHANGED <<database, locks, ask, written, draft, answer, observed, faults>>

ClearSelectAll(r) ==
    /\ pc[r] = "clear"
    /\ Visit(r, Environment, "clearRow", "set")
    /\ UNCHANGED <<database, locks, ask, written, draft, answer, observed, faults>>

\* UPDATE ... SET is_default = false WHERE is_default: what its snapshot shows.
ClearSelect(r) ==
    /\ pc[r] = "clear"
    /\ Visit(r, defaults, "clearRow", "set")
    /\ UNCHANGED <<database, locks, ask, written, draft, answer, observed, faults>>

\* The row is locked, and cleared unless its last committed version is clear.
ClearRow(r, e) ==
    /\ pc[r] = "clearRow"
    /\ e \in found[r]
    /\ Hold(r, <<"environment", e>>)
    /\ Visit(r, found[r] \ {e}, "clearRow", "set")
    /\ written' = [written EXCEPT ![r] = @ \cup ({e} \cap defaults)]
    /\ UNCHANGED <<database, ask, draft, answer, observed, faults>>

\* Defaults of the project other than the target that this transaction left in place.
Others(r) == defaults \ (written[r] \cup {ask[r].row})

\* environments_one_default_idx waits for transactions that may still settle the matter.
IndexMustWait(r) ==
    \E q \in Request \ {r} :
        /\ ask[q].op = "select"
        /\ pc[q] = "commit" \/ (pc[q] \in {"clearRow", "set"} /\ written[q] \cap Others(r) # {})

SetWithoutIndex(r) ==
    /\ pc[r] = "set"
    /\ GoTo(r, "commit")
    /\ UNCHANGED <<database, locks, ask, found, written, draft, answer, observed, faults>>

\* UPDATE ... SET is_default = true: the unique index lets one default in.
SetTarget(r) ==
    /\ pc[r] = "set"
    /\ ~IndexMustWait(r)
    /\ Others(r) = {}
    /\ GoTo(r, "commit")
    /\ UNCHANGED <<database, locks, ask, found, written, draft, answer, observed, faults>>

\* A unique violation: environment_update_failed.
SetRefused(r) ==
    /\ pc[r] = "set"
    /\ ~IndexMustWait(r)
    /\ Others(r) # {}
    /\ End(r, "failed")
    /\ UNCHANGED <<database, observed, faults>>

-----------------------------------------------------------------------------
(* MarkAllNotificationsRead.                                                *)

Scan(r) ==
    /\ pc[r] = "scan"
    /\ Visit(r, Unread, "mark", "commit")
    /\ UNCHANGED <<database, locks, ask, written, draft, answer, observed, faults>>

MarkRowFromSnapshot(r) ==
    /\ pc[r] = "mark"
    /\ \E n \in found[r] :
        /\ \A o \in found[r] : n <= o
        /\ Hold(r, <<"notification", n>>)
        /\ Visit(r, found[r] \ {n}, "mark", "commit")
        /\ written' = [written EXCEPT ![r] = @ \cup {n}]
    /\ UNCHANGED <<database, ask, draft, answer, observed, faults>>

(* Unread rows have never been updated, so that every scan meets them in    *)
(* the order of their insertion; one that was read meanwhile is skipped.    *)
MarkRow(r) ==
    /\ pc[r] = "mark"
    /\ \E n \in found[r] :
        /\ \A o \in found[r] : n <= o
        /\ Hold(r, <<"notification", n>>)
        /\ Visit(r, found[r] \ {n}, "mark", "commit")
        /\ written' = [written EXCEPT ![r] = @ \cup ({n} \cap Unread)]
    /\ UNCHANGED <<database, ask, draft, answer, observed, faults>>

-----------------------------------------------------------------------------
(* MarkNotificationRead, SetFindingResolved, UpdateProject: one row.        *)

Target(a) ==
    CASE a.op = "read" -> <<"notification", a.row>>
      [] a.op \in {"resolve", "reopen"} -> <<"finding", a.row>>
      [] OTHER -> <<"project", "own">>

\* The row as UPDATE writes it: a field the request leaves empty keeps the value it has.
NewVersion(r) ==
    IF ask[r].op \in {"name", "days"} THEN [settings EXCEPT ![ask[r].op] = r] ELSE Registered

UpdateProjectUnlocked(r) ==
    /\ pc[r] = "update"
    /\ InProject(ask[r])
    /\ IF ask[r].op \in {"name", "days"} THEN UNCHANGED locks ELSE Hold(r, Target(ask[r]))
    /\ written' = [written EXCEPT ![r] = IF ask[r].op = "read" THEN {ask[r].row} \cap Unread ELSE {}]
    /\ draft' = [draft EXCEPT ![r] = NewVersion(r)]
    /\ GoTo(r, "commit")
    /\ UNCHANGED <<database, ask, found, answer, observed, faults>>

\* A notification that was read keeps its read_at (COALESCE).
Update(r) ==
    /\ pc[r] = "update"
    /\ InProject(ask[r])
    /\ Hold(r, Target(ask[r]))
    /\ draft' = [draft EXCEPT ![r] = NewVersion(r)]
    /\ written' = [written EXCEPT ![r] = IF ask[r].op = "read" THEN {ask[r].row} \cap Unread ELSE {}]
    /\ GoTo(r, "commit")
    /\ UNCHANGED <<database, ask, found, answer, observed, faults>>

-----------------------------------------------------------------------------
(* The audit record is inserted and the transaction commits.                *)

Select(r) ==
    /\ defaults' = (defaults \ written[r]) \cup {ask[r].row}
    /\ overtaken' = overtaken \cup {q \in Request \ {r} : ask[q].op = "select" /\ pc[q] # "done"}
    /\ UNCHANGED <<stored, readBy, resolved, settings>>

MarkRead(r) ==
    /\ readBy' = [n \in Run |-> IF n \in written[r] THEN r ELSE readBy[n]]
    /\ UNCHANGED <<defaults, stored, resolved, settings, overtaken>>

Resolve(r) ==
    /\ resolved' = IF ask[r].op = "resolve" THEN resolved \cup {ask[r].row} ELSE resolved \ {ask[r].row}
    /\ UNCHANGED <<defaults, stored, readBy, settings, overtaken>>

\* The whole row is replaced by the version the transaction wrote.
UpdateProject(r) ==
    /\ settings' = draft[r]
    /\ UNCHANGED <<defaults, stored, readBy, resolved, overtaken>>

Apply(r) ==
    CASE ask[r].op = "select" -> Select(r)
      [] ask[r].op \in {"read", "readAll"} -> MarkRead(r)
      [] ask[r].op \in {"resolve", "reopen"} -> Resolve(r)
      [] OTHER -> UpdateProject(r)

Commit(r) ==
    /\ pc[r] = "commit"
    /\ Apply(r)
    /\ \/ End(r, "ok") /\ UNCHANGED faults
       \/ End(r, "failed") /\ Fault
    /\ UNCHANGED unreadAtStart

\* createRun commits a run of the project.
CreateRun(n) ==
    /\ n \notin stored
    /\ \A o \in Run : o < n => o \in stored
    /\ stored' = stored \cup {n}
    /\ UNCHANGED <<defaults, readBy, resolved, settings, transactions, observed, faults>>

-----------------------------------------------------------------------------
SelectEnvironment(r) ==
    \/ LockTarget(r) \/ ClearSelect(r) \/ (\E e \in Environment : ClearRow(r, e))
    \/ SetTarget(r) \/ SetRefused(r)

MarkAllNotificationsRead(r) == Scan(r) \/ MarkRow(r)

Handle(r) ==
    SelectEnvironment(r) \/ MarkAllNotificationsRead(r) \/ Update(r) \/ Commit(r) \/ NotFound(r)

Next ==
    \/ \E r \in Request : (\E a \in Ask : Begin(r, a)) \/ Unauthorized(r) \/ Abort(r) \/ Handle(r)
    \/ \E n \in Run : CreateRun(n)

Spec == Init /\ [][Next]_vars

(* A statement that need not wait for a row or for the index ends.  No      *)
(* deadlock detector is assumed: the handlers must not need one.            *)
Fairness == \A r \in Request : WF_vars(Handle(r))

FairSpec == Spec /\ Fairness
-----------------------------------------------------------------------------
(* Properties.                                                              *)

(* ENGINE.md: environments with a single selected default.  Whatever        *)
(* selections run together, fail or lose their answer, a project has        *)
(* exactly one default environment, never none and never two.               *)
OneDefault == Cardinality(defaults) = 1

(* A selection that cannot be made is refused only because another one was  *)
(* committed while it ran, or because a statement failed: a client that     *)
(* selects alone always succeeds.                                           *)
RefusedBehindAnother ==
    \A r \in Request :
        answer[r] = "failed" /\ ask[r].op = "select" /\ faults = 0 => r \in overtaken

(* What an answered request was told stays true: read-all's count is the    *)
(* number of notifications it marked itself, everything unread when it came *)
(* in is read, and a setting one update wrote is not taken back by an       *)
(* update of the other that runs with it and replaces the same row.         *)
AcknowledgedIsKept ==
    \A r \in Request : answer[r] = "ok" =>
        CASE ask[r].op = "readAll" ->
                 /\ written[r] = {n \in stored : readBy[n] = r}
                 /\ unreadAtStart[r] \cap Unread = {}
          [] ask[r].op = "read" -> ask[r].row \notin Unread
          [] ask[r].op \in {"name", "days"} -> settings[ask[r].op] # None
          [] OTHER -> TRUE

(* Every transaction ends without the help of PostgreSQL's deadlock         *)
(* detector: selections lock their targets and the default in one order and *)
(* wait for each other only at the index.                                   *)
RequestsAnswered == \A r \in Request : pc[r] # "idle" ~> pc[r] = "done"
=============================================================================
