------------------------------ MODULE Sessions ------------------------------
(***************************************************************************)
(* Accounts and sessions: the register, login and logout handlers of one   *)
(* API process (httpapi/auth_routes.go, auth/service.go) on the users,     *)
(* sessions and audit_records tables (postgres/auth_repository.go).  Login *)
(* and logout are not one transaction: between any two of their statements *)
(* other handlers run, the request's context may be cancelled, a statement *)
(* may fail, or its answer may be lost after it committed.                 *)
(***************************************************************************)
EXTENDS LoginLimiter

CONSTANTS
    Client,      \* client addresses
    Email,       \* the emails used to sign in
    Handler,     \* handler goroutines, each serving one request after another
    Token,       \* session tokens, drawn fresh by newSessionToken
    MaxFaults    \* bound: failed statements, lost answers, process crashes

ASSUME SessionConstants ==
    /\ Key = Client \X Email
    /\ IsFiniteSet(Handler)
    /\ MaxFaults \in Nat
    /\ None \notin Token /\ None \notin {"live", "ended"}

VARIABLES
    \* the database
    accounts,    \* emails with a users row
    row,         \* sessions rows: live, or ended by revoked_at or by expires_at
    audited,     \* tokens whose sign-in has its audit_records row
    \* the clients
    handed,      \* tokens some client has received in a cookie
    loggedOut,   \* tokens whose logout was answered 204
    \* the handlers
    pc, key, token,
    found,       \* Logout: the session was valid when it was looked up
    faults

database == <<accounts, row, audited>>
clients == <<handed, loggedOut>>
handlers == <<pc, key, token, found>>
vars == <<buckets, database, clients, handlers, faults>>

\* The steps of login, from the limiter's check to its verdict.
SigningIn == {"verify", "create", "audit", "revoke", "reply", "reject"}

TypeOK ==
    /\ buckets \in [Key -> [failures : Nat \ {0}, left : 0..Window] \cup {None}]
    /\ Cardinality(Present(buckets)) <= MaxBuckets
    /\ accounts \subseteq Email
    /\ row \in [Token -> {"live", "ended", None}]
    /\ audited \subseteq Token
    /\ handed \subseteq {t \in Token : row[t] # None}
    /\ loggedOut \subseteq handed
    /\ pc \in [Handler -> SigningIn \cup {"idle", "find", "leave", "auditLeave"}]
    /\ key \in [Handler -> Key \cup {None}]
    /\ token \in [Handler -> Token \cup {None}]
    /\ found \in [Handler -> BOOLEAN]
    /\ faults \in 0..MaxFaults

Init ==
    /\ buckets = Empty
    /\ accounts = {} /\ row = [t \in Token |-> None] /\ audited = {}
    /\ handed = {} /\ loggedOut = {}
    /\ pc = [h \in Handler |-> "idle"]
    /\ key = [h \in Handler |-> None]
    /\ token = [h \in Handler |-> None]
    /\ found = [h \in Handler |-> FALSE]
    /\ faults = 0

\* The WHERE clause of Session: any protected request with the token is let in.
Valid(t) == row[t] = "live"

Fresh == {t \in Token : row[t] = None /\ \A h \in Handler : token[h] # t}

Fault == faults < MaxFaults /\ faults' = faults + 1

GoTo(h, step) ==
    /\ pc' = [pc EXCEPT ![h] = step]
    /\ UNCHANGED <<key, token, found>>

Done(h) ==
    /\ pc' = [pc EXCEPT ![h] = "idle"]
    /\ key' = [key EXCEPT ![h] = None]
    /\ token' = [token EXCEPT ![h] = None]
    /\ found' = [found EXCEPT ![h] = FALSE]

Insert(t) == row' = [row EXCEPT ![t] = "live"]

RevokeSession(t) == row' = [row EXCEPT ![t] = IF @ = None THEN None ELSE "ended"]

-----------------------------------------------------------------------------
(* POST /v1/auth/register.                                                  *)

(* User, tenant, session and audit entries are one transaction; the unique  *)
(* email hash lets one registration of an email through.  The 201 with its  *)
(* cookie may be lost.                                                      *)
Register(h, e, t) ==
    /\ pc[h] = "idle"
    /\ e \notin accounts
    /\ t \in Fresh
    /\ accounts' = accounts \cup {e}
    /\ Insert(t)
    /\ audited' = audited \cup {t}
    /\ \/ handed' = handed \cup {t} /\ UNCHANGED faults
       \/ Fault /\ UNCHANGED handed
    /\ UNCHANGED <<buckets, loggedOut, handlers>>

-----------------------------------------------------------------------------
(* POST /v1/auth/login.                                                     *)

TooManyAttempts(h, k) ==
    /\ pc[h] = "idle"
    /\ Limited(k)
    /\ UNCHANGED <<database, clients, handlers, faults>>

StartLogin(h, k) ==
    /\ pc[h] = "idle"
    /\ NotLimited(k)
    /\ pc' = [pc EXCEPT ![h] = "verify"]
    /\ key' = [key EXCEPT ![h] = k]
    /\ UNCHANGED <<database, clients, token, found, faults>>

\* An account, the right password, and a token.
Verified(h, t) ==
    /\ pc[h] = "verify"
    /\ key[h][2] \in accounts
    /\ t \in Fresh
    /\ pc' = [pc EXCEPT ![h] = "create"]
    /\ token' = [token EXCEPT ![h] = t]
    /\ UNCHANGED <<buckets, database, clients, key, found, faults>>

\* No account, a wrong password or a failed lookup, which are answered alike.
InvalidCredentials(h) ==
    /\ pc[h] = "verify"
    /\ GoTo(h, "reject")
    /\ UNCHANGED <<buckets, database, clients, faults>>

CreateSession(h) ==
    /\ pc[h] = "create"
    /\ Insert(token[h])
    /\ GoTo(h, "audit")
    /\ UNCHANGED <<buckets, accounts, audited, clients, faults>>

CreateSessionFails(h) ==
    /\ pc[h] = "create"
    /\ Fault
    /\ Insert(token[h]) \/ UNCHANGED row
    /\ GoTo(h, "reject")
    /\ UNCHANGED <<buckets, accounts, audited, clients>>

RecordAudit(h) ==
    /\ pc[h] = "audit"
    /\ audited' = audited \cup {token[h]}
    /\ GoTo(h, "reply")
    /\ UNCHANGED <<buckets, accounts, row, clients, faults>>

AuditFailureIgnored(h) ==
    /\ pc[h] = "audit"
    /\ Fault
    /\ GoTo(h, "reply")
    /\ UNCHANGED <<buckets, database, clients>>

RecordAuditFails(h) ==
    /\ pc[h] = "audit"
    /\ Fault
    /\ audited' = audited \cup {token[h]} \/ UNCHANGED audited
    /\ GoTo(h, "revoke")
    /\ UNCHANGED <<buckets, accounts, row, clients>>

\* The session is taken back; the error of this statement is dropped.
RevokeUnaudited(h) ==
    /\ pc[h] = "revoke"
    /\ \/ RevokeSession(token[h]) /\ UNCHANGED faults
       \/ Fault /\ UNCHANGED row
    /\ GoTo(h, "reject")
    /\ UNCHANGED <<buckets, accounts, audited, clients>>

\* The stored email does not decrypt: the session stays, its token is dropped.
DecryptFails(h) ==
    /\ pc[h] = "reply"
    /\ Fault
    /\ GoTo(h, "reject")
    /\ UNCHANGED <<buckets, database, clients>>

\* 200 with the cookie, which may be lost.
LoginSucceeds(h) ==
    /\ pc[h] = "reply"
    /\ Success(key[h])
    /\ \/ handed' = handed \cup {token[h]} /\ UNCHANGED faults
       \/ Fault /\ UNCHANGED handed
    /\ Done(h)
    /\ UNCHANGED <<database, loggedOut>>

\* Every error of Login counts as a failure of its key.
LoginFails(h) ==
    /\ pc[h] = "reject"
    /\ Failure(key[h])
    /\ Done(h)
    /\ UNCHANGED <<database, clients, faults>>

-----------------------------------------------------------------------------
(* POST /v1/auth/logout.                                                    *)

Logout(h, t) ==
    /\ pc[h] = "idle"
    /\ t \in handed
    /\ pc' = [pc EXCEPT ![h] = "find"]
    /\ token' = [token EXCEPT ![h] = t]
    /\ UNCHANGED <<buckets, database, clients, key, found, faults>>

NoContent(h) ==
    /\ loggedOut' = loggedOut \cup {token[h]}
    /\ Done(h)
    /\ UNCHANGED handed

\* A failed lookup counts as a session that is not there.
FindOrReturn(h) ==
    /\ pc[h] = "find"
    /\ \/ /\ Valid(token[h]) /\ UNCHANGED <<clients, faults>>
          /\ found' = [found EXCEPT ![h] = TRUE]
          /\ pc' = [pc EXCEPT ![h] = "leave"] /\ UNCHANGED <<key, token>>
       \/ ~Valid(token[h]) /\ NoContent(h) /\ UNCHANGED faults
       \/ Fault /\ NoContent(h)
    /\ UNCHANGED <<buckets, database>>

FindSession(h) ==
    /\ pc[h] = "find"
    /\ \/ found' = [found EXCEPT ![h] = Valid(token[h])] /\ UNCHANGED faults
       \/ Fault /\ UNCHANGED found
    /\ pc' = [pc EXCEPT ![h] = "leave"]
    /\ UNCHANGED <<buckets, database, clients, key, token>>

LogoutRevokes(h) ==
    /\ pc[h] = "leave"
    /\ RevokeSession(token[h])
    /\ IF found[h] THEN GoTo(h, "auditLeave") /\ UNCHANGED clients ELSE NoContent(h)
    /\ UNCHANGED <<buckets, accounts, audited, faults>>

\* logout_failed, and the statement may have run.
LogoutRevokeFails(h) ==
    /\ pc[h] = "leave"
    /\ Fault
    /\ RevokeSession(token[h]) \/ UNCHANGED row
    /\ Done(h)
    /\ UNCHANGED <<buckets, accounts, audited, clients>>

\* auth.logout is recorded, or not: logout_failed although the session is revoked.
AuditLogout(h) ==
    /\ pc[h] = "auditLeave"
    /\ \/ NoContent(h) /\ UNCHANGED faults
       \/ Fault /\ Done(h) /\ UNCHANGED clients
    /\ UNCHANGED <<buckets, database>>

-----------------------------------------------------------------------------
(* Time and failure.                                                        *)

ClockPasses == Tick /\ UNCHANGED <<database, clients, handlers, faults>>

SessionExpires(t) ==
    /\ Valid(t)
    /\ row' = [row EXCEPT ![t] = "ended"]
    /\ UNCHANGED <<buckets, accounts, audited, clients, handlers, faults>>

\* The process dies with its handlers and its limiter, and is restarted.
CrashAndRestart ==
    /\ Fault
    /\ buckets' = Empty
    /\ pc' = [h \in Handler |-> "idle"]
    /\ key' = [h \in Handler |-> None]
    /\ token' = [h \in Handler |-> None]
    /\ found' = [h \in Handler |-> FALSE]
    /\ UNCHANGED <<database, clients>>

-----------------------------------------------------------------------------
LoginSteps(h) ==
    \/ InvalidCredentials(h) \/ CreateSession(h) \/ CreateSessionFails(h)
    \/ RecordAudit(h) \/ RecordAuditFails(h) \/ RevokeUnaudited(h)
    \/ DecryptFails(h) \/ LoginSucceeds(h) \/ LoginFails(h)

LogoutSteps(h) ==
    FindSession(h) \/ LogoutRevokes(h) \/ LogoutRevokeFails(h) \/ AuditLogout(h)

Next ==
    \/ \E h \in Handler, e \in Email, t \in Token : Register(h, e, t)
    \/ \E h \in Handler, k \in Key : TooManyAttempts(h, k) \/ StartLogin(h, k)
    \/ \E h \in Handler, t \in Token : Verified(h, t) \/ Logout(h, t)
    \/ \E h \in Handler : LoginSteps(h) \/ LogoutSteps(h)
    \/ \E t \in Token : SessionExpires(t)
    \/ ClockPasses
    \/ CrashAndRestart

Spec == Init /\ [][Next]_vars

(* The clock advances; nothing else is needed: no request, sweep or success *)
(* is assumed to come along and clear a bucket.                             *)
Fairness == WF_vars(ClockPasses)

FairSpec == Spec /\ Fairness
-----------------------------------------------------------------------------
(* Properties.                                                              *)

InFlight(k) == {h \in Handler : pc[h] \in SigningIn /\ key[h] = k}

(* limited() and failure() are two critical sections, so logins that run    *)
(* together may all pass the check before one of them counts.  The overrun  *)
(* is bounded by the concurrency: guesses counted in a window, with those   *)
(* still in flight, never exceed the limit by more than the other handlers. *)
OverrunBounded ==
    \A k \in Key :
        Counting(buckets, k) =>
            buckets[k].failures + Cardinality(InFlight(k))
                <= Limit - 1 + Cardinality(Handler)

(* Whatever fails in Login or Register, a client only ever receives a token *)
(* whose sign-in has been recorded in the audit trail.                      *)
HandedIsAudited == handed \subseteq audited

(* STATE.md: logout revokes the server-side session.  After a 204 no        *)
(* request with the token is let in, although the handler ignores the error *)
(* of its own lookup and other handlers work on the same session.           *)
LogoutIsFinal == \A t \in loggedOut : ~Valid(t)

(* A refused key is let in again once the clock has run down its window,    *)
(* however often it is tried meanwhile: a refusal does not push resetAt     *)
(* forward, and an expired bucket that no sweep removed refuses nobody.     *)
LockoutEnds == \A k \in Key : Refuses(buckets, k) ~> ~Refuses(buckets, k)
=============================================================================
