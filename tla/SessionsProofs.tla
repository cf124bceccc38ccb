--------------------------- MODULE SessionsProofs ---------------------------
(* Proofs that concurrent sign-ins overrun the limiter by no more than the  *)
(* handlers there are, that clients hold audited sessions only, and that a  *)
(* logout is final, for any handlers, clients, tokens, limits and faults.   *)
EXTENDS Sessions, FiniteSetTheorems, TLAPS

-----------------------------------------------------------------------------
(* The inductive invariant.                                                 *)

BucketMap == [Key -> [failures : Nat \ {0}, left : 0..Window] \cup {None}]

\* The limiter's map is finite and within maxLoginBuckets.
BucketsOK ==
    /\ buckets \in BucketMap
    /\ IsFiniteSet(Present(buckets)) /\ Cardinality(Present(buckets)) <= MaxBuckets

(* What a handler may rely on between two statements: a login works on a    *)
(* token nobody else has until its row is there, and replies with an        *)
(* audited one; a logout that has revoked the session finds it revoked.     *)
StepsTrue ==
    \A h \in Handler :
        /\ pc[h] \in SigningIn => key[h] \in Key
        /\ pc[h] \in {"create", "audit", "revoke", "reply"} => token[h] \in Token
        /\ pc[h] = "create" =>
             row[token[h]] = None /\ \A g \in Handler \ {h} : token[g] # token[h]
        /\ pc[h] \in {"audit", "revoke", "reply"} => row[token[h]] # None
        /\ pc[h] = "reply" => token[h] \in audited
        /\ pc[h] \in {"find", "leave", "auditLeave"} => token[h] \in handed
        /\ pc[h] = "auditLeave" => row[token[h]] = "ended"

IInv ==
    /\ BucketsOK /\ TypeOK /\ StepsTrue
    /\ HandedIsAudited /\ LogoutIsFinal /\ OverrunBounded

-----------------------------------------------------------------------------
(* The limiter.                                                             *)

(* A sweep forgets buckets and changes none, and leaves room for one more.  *)
LEMMA Maintenance ==
  ASSUME NEW b \in BucketMap, IsFiniteSet(Present(b)), NEW c \in Maintained(b)
  PROVE  /\ c \in BucketMap
         /\ IsFiniteSet(Present(c)) /\ Cardinality(Present(c)) < MaxBuckets
         /\ \A k \in Key : c[k] # None => c[k] = b[k]
<1> USE LimiterConstants
<1>1. CASE c = b /\ Cardinality(Present(b)) < MaxBuckets
  BY <1>1
<1>2. CASE c \in Swept(b)
  <2> DEFINE counting == {k \in Key : Counting(b, k)}
  <2>1. PICK kept \in SUBSET counting :
          /\ c = [k \in Key |-> IF k \in kept THEN b[k] ELSE None]
          /\ \/ kept = counting /\ Cardinality(kept) < MaxBuckets
             \/ Cardinality(counting) >= MaxBuckets /\ Cardinality(kept) = MaxBuckets - 1
    BY <1>2 DEF Swept
  <2>2. kept \subseteq Present(b) /\ kept \subseteq Key
    BY DEF Counting, Present
  <2>3. IsFiniteSet(kept) /\ Cardinality(kept) < MaxBuckets /\ Cardinality(kept) \in Nat
    BY <2>1, <2>2, FS_Subset, FS_CardinalityType
  <2>4. Present(c) \subseteq kept
    BY <2>1 DEF Present
  <2>5. IsFiniteSet(Present(c)) /\ Cardinality(Present(c)) <= Cardinality(kept)
    BY <2>3, <2>4, FS_Subset
  <2>6. Cardinality(Present(c)) \in Nat
    BY <2>5, FS_CardinalityType
  <2>7. c \in BucketMap /\ \A k \in Key : c[k] # None => c[k] = b[k]
    BY <2>1, <2>2 DEF BucketMap
  <2> QED
    BY <2>3, <2>5, <2>6, <2>7
<1> QED
  BY <1>1, <1>2 DEF Maintained

(* A bucket is stored into a map that has room for it.                      *)
LEMMA OneMore ==
  ASSUME NEW b, NEW c, NEW k \in Key, IsFiniteSet(Present(b)),
         Cardinality(Present(b)) < MaxBuckets,
         \A j \in Key : j # k => c[j] = b[j]
  PROVE  IsFiniteSet(Present(c)) /\ Cardinality(Present(c)) <= MaxBuckets
<1>1. Present(c) \subseteq Present(b) \cup {k}
  BY DEF Present
<1>2. /\ IsFiniteSet(Present(b) \cup {k}) /\ Cardinality(Present(b)) \in Nat
      /\ Cardinality(Present(b) \cup {k}) <= Cardinality(Present(b)) + 1
  BY FS_AddElement, FS_CardinalityType
<1>3. IsFiniteSet(Present(c)) /\ Cardinality(Present(c)) <= Cardinality(Present(b) \cup {k})
  BY <1>1, <1>2, FS_Subset
<1>4. Cardinality(Present(c)) \in Nat /\ Cardinality(Present(b) \cup {k}) \in Nat
  BY <1>2, <1>3, FS_CardinalityType
<1> QED
  BY <1>2, <1>3, <1>4, LimiterConstants

\* A map with fewer buckets than a map within the bound is within the bound.
LEMMA NoMore ==
  ASSUME NEW b, NEW c, IsFiniteSet(Present(b)), Cardinality(Present(b)) <= MaxBuckets,
         Present(c) \subseteq Present(b)
  PROVE  IsFiniteSet(Present(c)) /\ Cardinality(Present(c)) <= MaxBuckets
<1>1. IsFiniteSet(Present(c)) /\ Cardinality(Present(c)) <= Cardinality(Present(b))
  BY FS_Subset
<1>2. Cardinality(Present(c)) \in Nat /\ Cardinality(Present(b)) \in Nat
  BY <1>1, FS_CardinalityType
<1> QED
  BY <1>1, <1>2, LimiterConstants

(* limited() forgets buckets only, and lets a key in that is below the      *)
(* limit.                                                                   *)
LEMMA LimitedStep ==
  ASSUME BucketsOK, NEW k \in Key, Limited(k) \/ NotLimited(k)
  PROVE  /\ BucketsOK'
         /\ \A j \in Key : buckets'[j] # None => buckets'[j] = buckets[j]
         /\ NotLimited(k) /\ Counting(buckets', k) => buckets[k].failures < Limit
<1>1. PICK b \in Maintained(buckets) :
        \/ buckets' = b
        \/ buckets' = [b EXCEPT ![k] = None]
  BY DEF Limited, NotLimited
<1>2. /\ b \in BucketMap /\ IsFiniteSet(Present(b)) /\ Cardinality(Present(b)) < MaxBuckets
      /\ \A j \in Key : b[j] # None => b[j] = buckets[j]
  BY Maintenance DEF BucketsOK
<1>3. buckets' \in BucketMap /\ \A j \in Key : buckets'[j] # None => buckets'[j] = b[j]
  BY <1>1, <1>2 DEF BucketMap
<1>4. Present(buckets') \subseteq Present(b) /\ Cardinality(Present(b)) <= MaxBuckets
  <2>1. Cardinality(Present(b)) \in Nat
    BY <1>2, FS_CardinalityType
  <2> QED
    BY <1>2, <1>3, <2>1, LimiterConstants DEF Present
<1>5. BucketsOK'
  <2>1. IsFiniteSet(Present(buckets')) /\ Cardinality(Present(buckets')) <= MaxBuckets
    BY <1>2, <1>4, NoMore
  <2> QED
    BY <1>3, <2>1 DEF BucketsOK, Present
<1>6. ASSUME NotLimited(k), Counting(buckets', k) PROVE buckets[k].failures < Limit
  <2>1. PICK c \in Maintained(buckets) :
          ~Refuses(c, k) /\ buckets' = IF Counting(c, k) THEN c ELSE [c EXCEPT ![k] = None]
    BY <1>6 DEF NotLimited
  <2>2. c \in BucketMap /\ \A j \in Key : c[j] # None => c[j] = buckets[j]
    BY Maintenance DEF BucketsOK
  <2>3. Counting(c, k)
    BY <1>6, <2>1, <2>2 DEF Counting, BucketMap
  <2>4. c[k] # None /\ c[k] = buckets[k] /\ c[k].failures \in Nat /\ ~(c[k].failures >= Limit)
    BY <2>1, <2>2, <2>3 DEF Counting, Refuses, BucketMap
  <2> QED
    BY <2>4, LimiterConstants
<1> QED
  BY <1>2, <1>3, <1>5, <1>6

(* failure() adds one to a window that is open, or opens a window, and      *)
(* leaves every other key's bucket as it is or forgets it.                  *)
LEMMA FailureStep ==
  ASSUME BucketsOK, NEW k \in Key, Failure(k)
  PROVE  /\ BucketsOK'
         /\ \A j \in Key \ {k} : buckets'[j] # None => buckets'[j] = buckets[j]
         /\ \/ buckets'[k].failures = 1
            \/ Counting(buckets, k) /\ buckets'[k].failures = buckets[k].failures + 1
<1>1. PICK b \in Maintained(buckets) :
        LET window == IF Counting(b, k) THEN b[k] ELSE [failures |-> 0, left |-> Window] IN
        buckets' = [b EXCEPT ![k] = [window EXCEPT !.failures = @ + 1]]
  BY DEF Failure
<1>2. /\ b \in BucketMap /\ IsFiniteSet(Present(b)) /\ Cardinality(Present(b)) < MaxBuckets
      /\ \A j \in Key : b[j] # None => b[j] = buckets[j]
  BY Maintenance DEF BucketsOK
<1> DEFINE window == IF Counting(b, k) THEN b[k] ELSE [failures |-> 0, left |-> Window]
           n == window.failures + 1
           r == [window EXCEPT !.failures = @ + 1]
<1>3. /\ window \in [failures : Nat, left : 0..Window]
      /\ window.failures = 0 \/ (Counting(buckets, k) /\ window = buckets[k])
  <2>1. CASE Counting(b, k)
    BY <1>2, <2>1 DEF Counting, BucketMap
  <2>2. CASE ~Counting(b, k)
    BY <2>2, LimiterConstants
  <2> QED
    BY <2>1, <2>2
<1>5. buckets' = [b EXCEPT ![k] = r]
  BY <1>1
<1> HIDE DEF window
<1>4. r \in [failures : Nat \ {0}, left : 0..Window] /\ r.failures = n
  BY <1>3
<1>9. n = 1 \/ (Counting(buckets, k) /\ n = buckets[k].failures + 1)
  BY <1>3
<1> HIDE DEF n, r
<1>6. /\ buckets' \in BucketMap /\ buckets'[k] = r
      /\ \A j \in Key : j # k => buckets'[j] = b[j]
  BY <1>2, <1>4, <1>5 DEF BucketMap
<1>7. IsFiniteSet(Present(buckets')) /\ Cardinality(Present(buckets')) <= MaxBuckets
  BY <1>2, <1>6, OneMore
<1>8. BucketsOK'
  BY <1>6, <1>7 DEF BucketsOK, Present
<1> QED
  BY <1>2, <1>4, <1>6, <1>8, <1>9

(* success() forgets the key's bucket and leaves the others.                *)
LEMMA ForgetStep ==
  ASSUME BucketsOK, NEW k \in Key, Success(k)
  PROVE  /\ BucketsOK'
         /\ \A j \in Key : Counting(buckets', j) => buckets'[j] = buckets[j]
<1>1. /\ buckets' \in BucketMap /\ \A j \in Key : buckets'[j] # None => buckets'[j] = buckets[j]
  BY DEF Success, BucketsOK, BucketMap
<1>2. Present(buckets') \subseteq Present(buckets)
  BY <1>1 DEF Present
<1>3. IsFiniteSet(Present(buckets')) /\ Cardinality(Present(buckets')) <= MaxBuckets
  BY <1>2, NoMore DEF BucketsOK
<1> QED
  BY <1>1, <1>3 DEF BucketsOK, Present, Counting

(* The clock takes a tick off every open window and counts nothing.         *)
LEMMA TickStep ==
  ASSUME BucketsOK, Tick
  PROVE  /\ BucketsOK'
         /\ \A j \in Key : Counting(buckets', j) =>
              Counting(buckets, j) /\ buckets'[j].failures = buckets[j].failures
<1>1. ASSUME NEW j \in Key
      PROVE  /\ buckets'[j] \in [failures : Nat \ {0}, left : 0..Window] \cup {None}
             /\ buckets'[j] # None => buckets[j] # None
             /\ Counting(buckets', j) =>
                  Counting(buckets, j) /\ buckets'[j].failures = buckets[j].failures
  <2>1. CASE Counting(buckets, j)
    <3> DEFINE r == [buckets[j] EXCEPT !.left = @ - 1]
    <3>1. buckets[j] \in [failures : Nat \ {0}, left : 0..Window] /\ buckets[j].left > 0
      BY <2>1 DEF BucketsOK, BucketMap, Counting
    <3>2. r \in [failures : Nat \ {0}, left : 0..Window] /\ r.failures = buckets[j].failures
      BY <3>1, LimiterConstants
    <3>3. buckets'[j] = r
      BY <2>1 DEF Tick
    <3> HIDE DEF r
    <3> QED
      BY <2>1, <3>2, <3>3 DEF Counting
  <2>2. CASE ~Counting(buckets, j)
    <3>1. buckets'[j] = buckets[j]
      BY <2>2 DEF Tick
    <3> QED
      BY <2>2, <3>1 DEF Counting, BucketsOK, BucketMap
  <2> QED
    BY <2>1, <2>2
<1>2. buckets' \in BucketMap
  <2>1. buckets' = [j \in Key |-> buckets'[j]]
    BY DEF Tick
  <2> QED
    BY <1>1, <2>1 DEF BucketMap
<1>3. Present(buckets') \subseteq Present(buckets)
  BY <1>1 DEF Present
<1>4. IsFiniteSet(Present(buckets')) /\ Cardinality(Present(buckets')) <= MaxBuckets
  BY <1>3, NoMore DEF BucketsOK
<1> QED
  BY <1>1, <1>2, <1>4 DEF BucketsOK, Present

-----------------------------------------------------------------------------
(* The invariant is inductive.                                              *)

(* The initial state, with no bucket, session or handler at work.           *)
LEMMA InitIInv == Init => IInv
<1> SUFFICES ASSUME Init PROVE IInv
  OBVIOUS
<1> USE SessionConstants, LimiterConstants DEF Init
<1>1. buckets \in BucketMap /\ Present(buckets) = {} /\ \A k \in Key : ~Counting(buckets, k)
  BY DEF BucketMap, Empty, Present, Counting
<1>2. IsFiniteSet(Present(buckets)) /\ Cardinality(Present(buckets)) <= MaxBuckets
  BY <1>1, FS_EmptySet
<1>3. TypeOK
  BY <1>1, <1>2 DEF TypeOK, BucketMap, SigningIn
<1>4. StepsTrue
  BY DEF StepsTrue, SigningIn
<1>5. HandedIsAudited /\ LogoutIsFinal
  BY DEF HandedIsAudited, LogoutIsFinal
<1>6. OverrunBounded
  BY <1>1 DEF OverrunBounded
<1> QED
  BY <1>1, <1>2, <1>3, <1>4, <1>5, <1>6 DEF IInv, BucketsOK

(* No step lets the limiter's map outgrow its bound.                        *)
LEMMA BucketsStep == IInv /\ [Next]_vars => BucketsOK'
<1> SUFFICES ASSUME IInv, [Next]_vars PROVE BucketsOK'
  OBVIOUS
<1>1. CASE buckets' = buckets
  BY <1>1 DEF IInv, BucketsOK, Present
<1>2. ASSUME NEW h \in Handler, NEW k \in Key, TooManyAttempts(h, k) \/ StartLogin(h, k)
      PROVE  BucketsOK'
  BY <1>2, LimitedStep DEF IInv, TooManyAttempts, StartLogin
<1>3. ASSUME NEW h \in Handler, LoginSucceeds(h) \/ LoginFails(h) PROVE BucketsOK'
  <2>1. key[h] \in Key
    BY <1>3 DEF LoginSucceeds, LoginFails, IInv, StepsTrue, SigningIn
  <2> QED
    BY <1>3, <2>1, FailureStep, ForgetStep DEF IInv, LoginSucceeds, LoginFails
<1>4. CASE ClockPasses
  BY <1>4, TickStep DEF IInv, ClockPasses
<1>5. CASE CrashAndRestart
  <2>1. buckets' \in BucketMap /\ Present(buckets') = {}
    BY <1>5 DEF CrashAndRestart, Empty, BucketMap, Present
  <2> QED
    BY <2>1, FS_EmptySet, LimiterConstants DEF BucketsOK, Present
<1> QED
  BY <1>1, <1>2, <1>3, <1>4, <1>5
  DEF Next, vars, Register, Verified, Logout, LoginSteps, LogoutSteps, InvalidCredentials,
      CreateSession, CreateSessionFails, RecordAudit, RecordAuditFails, RevokeUnaudited,
      DecryptFails, FindSession, LogoutRevokes, LogoutRevokeFails, AuditLogout, SessionExpires

(* The types, and that clients hold tokens of stored sessions only.         *)
LEMMA TypeStep == IInv /\ [Next]_vars => TypeOK'
<1> SUFFICES ASSUME IInv, TypeOK, BucketsOK', [Next]_vars PROVE TypeOK'
  BY BucketsStep DEF IInv
<1> USE SessionConstants DEF TypeOK, SigningIn, GoTo, Done, Fault, Insert, RevokeSession,
        database, clients, handlers
<1>0. /\ (buckets \in [Key -> [failures : Nat \ {0}, left : 0..Window] \cup {None}])'
      /\ Cardinality(Present(buckets'))  <= MaxBuckets
  BY DEF BucketsOK, BucketMap, Present
<1>1. ASSUME NEW h \in Handler, NEW e \in Email, NEW t \in Token, Register(h, e, t)
      PROVE  TypeOK'
  BY <1>0, <1>1 DEF Register, Fresh
<1>2. ASSUME NEW h \in Handler, NEW k \in Key, TooManyAttempts(h, k) \/ StartLogin(h, k)
      PROVE  TypeOK'
  BY <1>0, <1>2 DEF TooManyAttempts, StartLogin
<1>3. ASSUME NEW h \in Handler, NEW t \in Token, Verified(h, t) \/ Logout(h, t) PROVE TypeOK'
  BY <1>0, <1>3 DEF Verified, Logout
<1>4. ASSUME NEW h \in Handler, LoginSteps(h) PROVE TypeOK'
  <2> /\ pc[h] \in {"create", "audit", "revoke", "reply"} => token[h] \in Token
      /\ pc[h] = "reply" => row[token[h]] # None
    BY DEF IInv, StepsTrue
  <2>1. CASE InvalidCredentials(h)
    BY <1>0, <2>1 DEF InvalidCredentials
  <2>2. CASE CreateSession(h)
    BY <1>0, <2>2 DEF CreateSession
  <2>3. CASE CreateSessionFails(h)
    BY <1>0, <2>3 DEF CreateSessionFails
  <2>4. CASE RecordAudit(h)
    BY <1>0, <2>4 DEF RecordAudit
  <2>5. CASE RecordAuditFails(h)
    BY <1>0, <2>5 DEF RecordAuditFails
  <2>6. CASE RevokeUnaudited(h)
    BY <1>0, <2>6 DEF RevokeUnaudited
  <2>7. CASE DecryptFails(h)
    BY <1>0, <2>7 DEF DecryptFails
  <2>8. CASE LoginSucceeds(h)
    BY <1>0, <2>8 DEF LoginSucceeds
  <2>9. CASE LoginFails(h)
    BY <1>0, <2>9 DEF LoginFails
  <2> QED
    BY <1>4, <2>1, <2>2, <2>3, <2>4, <2>5, <2>6, <2>7, <2>8, <2>9 DEF LoginSteps
<1>5. ASSUME NEW h \in Handler, LogoutSteps(h) PROVE TypeOK'
  <2> pc[h] \in {"find", "leave", "auditLeave"} => token[h] \in handed
    BY DEF IInv, StepsTrue
  <2>1. CASE FindSession(h)
    <3>1. found' \in [Handler -> BOOLEAN]
      BY <2>1 DEF FindSession, Valid
    <3>2. /\ pc' = [pc EXCEPT ![h] = "leave"] /\ faults' \in 0..MaxFaults
          /\ UNCHANGED <<buckets, accounts, row, audited, handed, loggedOut, key, token>>
      BY <2>1 DEF FindSession
    <3> QED
      BY <1>0, <3>1, <3>2
  <2>2. CASE LogoutRevokes(h)
    <3>1. CASE found[h]
      BY <1>0, <2>2, <3>1 DEF LogoutRevokes
    <3>2. CASE ~found[h]
      <4>1. found' \in [Handler -> BOOLEAN] /\ loggedOut' \subseteq handed' /\ handed' = handed
        <5>1. NoContent(h) /\ pc[h] = "leave"
          BY <2>2, <3>2 DEF LogoutRevokes
        <5>2. found' \in [Handler -> BOOLEAN]
          BY <5>1 DEF NoContent
        <5> QED
          BY <5>1, <5>2 DEF NoContent
      <4>2. /\ row' \in [Token -> {"live", "ended", None}]
            /\ \A t \in Token : row[t] # None => row'[t] # None
        BY <2>2 DEF LogoutRevokes
      <4>3. /\ pc' = [pc EXCEPT ![h] = "idle"] /\ key' = [key EXCEPT ![h] = None]
            /\ token' = [token EXCEPT ![h] = None]
            /\ UNCHANGED <<buckets, accounts, audited, faults>>
        BY <2>2, <3>2 DEF LogoutRevokes, NoContent
      <4> QED
        BY <1>0, <4>1, <4>2, <4>3
    <3> QED
      BY <3>1, <3>2
  <2>3. CASE LogoutRevokeFails(h)
    BY <1>0, <2>3 DEF LogoutRevokeFails
  <2>4. CASE AuditLogout(h)
    <3>1. found' \in [Handler -> BOOLEAN] /\ loggedOut' \subseteq handed' /\ handed' = handed
      BY <2>4 DEF AuditLogout, NoContent
    <3>2. /\ pc' = [pc EXCEPT ![h] = "idle"] /\ key' = [key EXCEPT ![h] = None]
          /\ token' = [token EXCEPT ![h] = None] /\ faults' \in 0..MaxFaults
          /\ UNCHANGED <<buckets, accounts, row, audited>>
      BY <2>4 DEF AuditLogout, NoContent
    <3> QED
      BY <1>0, <3>1, <3>2
  <2> QED
    BY <1>5, <2>1, <2>2, <2>3, <2>4 DEF LogoutSteps
<1>6. CASE ClockPasses
  BY <1>0, <1>6 DEF ClockPasses
<1>7. ASSUME NEW t \in Token, SessionExpires(t) PROVE TypeOK'
  BY <1>0, <1>7 DEF SessionExpires
<1>8. CASE CrashAndRestart
  BY <1>0, <1>8 DEF CrashAndRestart
<1>9. CASE UNCHANGED vars
  BY <1>0, <1>9 DEF vars
<1> QED
  BY <1>1, <1>2, <1>3, <1>4, <1>5, <1>6, <1>7, <1>8, <1>9 DEF Next

(* What a handler relies on between two statements stays true while the     *)
(* other handlers, the clock and failures do their steps.                   *)
LEMMA StepsStep == IInv /\ [Next]_vars => StepsTrue'
<1> SUFFICES ASSUME IInv, TypeOK, StepsTrue, TypeOK', [Next]_vars PROVE StepsTrue'
  BY TypeStep DEF IInv
<1> USE SessionConstants DEF SigningIn, GoTo, Done, Fault, Insert, RevokeSession,
        database, clients, handlers
<1>0. /\ row \in [Token -> {"live", "ended", None}]
      /\ pc \in [Handler -> SigningIn \cup {"idle", "find", "leave", "auditLeave"}]
      /\ key \in [Handler -> Key \cup {None}]
      /\ token \in [Handler -> Token \cup {None}]
      /\ handed \subseteq {t \in Token : row[t] # None}
  BY DEF TypeOK
<1>1. ASSUME NEW h \in Handler, NEW e \in Email, NEW t \in Token, Register(h, e, t)
      PROVE  StepsTrue'
  BY <1>0, <1>1 DEF StepsTrue, Register, Fresh
<1>2. ASSUME NEW h \in Handler, NEW k \in Key, TooManyAttempts(h, k) \/ StartLogin(h, k)
      PROVE  StepsTrue'
  BY <1>0, <1>2 DEF StepsTrue, TooManyAttempts, StartLogin
<1>3. ASSUME NEW h \in Handler, NEW t \in Token, Verified(h, t) \/ Logout(h, t) PROVE StepsTrue'
  <2>1. CASE Verified(h, t)
    BY <1>0, <2>1 DEF StepsTrue, Verified, Fresh
  <2>2. CASE Logout(h, t)
    BY <1>0, <2>2 DEF StepsTrue, Logout
  <2> QED
    BY <1>3, <2>1, <2>2
<1>4. ASSUME NEW h \in Handler, LoginSteps(h) PROVE StepsTrue'
  <2>1. CASE InvalidCredentials(h)
    BY <1>0, <2>1 DEF StepsTrue, InvalidCredentials
  <2>2. CASE CreateSession(h)
    BY <1>0, <2>2 DEF StepsTrue, CreateSession
  <2>3. CASE CreateSessionFails(h)
    BY <1>0, <2>3 DEF StepsTrue, CreateSessionFails
  <2>4. CASE RecordAudit(h)
    BY <1>0, <2>4 DEF StepsTrue, RecordAudit
  <2>5. CASE RecordAuditFails(h)
    BY <1>0, <2>5 DEF StepsTrue, RecordAuditFails
  <2>6. CASE RevokeUnaudited(h)
    BY <1>0, <2>6 DEF StepsTrue, RevokeUnaudited
  <2>7. CASE DecryptFails(h)
    BY <1>0, <2>7 DEF StepsTrue, DecryptFails
  <2>8. CASE LoginSucceeds(h)
    BY <1>0, <2>8 DEF StepsTrue, LoginSucceeds
  <2>9. CASE LoginFails(h)
    BY <1>0, <2>9 DEF StepsTrue, LoginFails
  <2> QED
    BY <1>4, <2>1, <2>2, <2>3, <2>4, <2>5, <2>6, <2>7, <2>8, <2>9 DEF LoginSteps
<1>5. ASSUME NEW h \in Handler, LogoutSteps(h) PROVE StepsTrue'
  <2>1. CASE FindSession(h)
    <3>1. /\ pc[h] = "find" /\ pc' = [pc EXCEPT ![h] = "leave"]
          /\ UNCHANGED <<row, audited, handed, key, token>>
      BY <2>1 DEF FindSession
    <3> QED
      BY <1>0, <3>1 DEF StepsTrue
  <2>2. CASE LogoutRevokes(h)
    <3>1. CASE found[h]
      <4>1. /\ pc[h] = "leave" /\ pc' = [pc EXCEPT ![h] = "auditLeave"]
            /\ RevokeSession(token[h]) /\ UNCHANGED <<audited, handed, key, token>>
        BY <2>2, <3>1 DEF LogoutRevokes
      <4> QED
        BY <1>0, <4>1 DEF StepsTrue
    <3>2. CASE ~found[h]
      <4>1. /\ pc[h] = "leave" /\ pc' = [pc EXCEPT ![h] = "idle"] /\ RevokeSession(token[h])
            /\ key' = [key EXCEPT ![h] = None] /\ token' = [token EXCEPT ![h] = None]
            /\ UNCHANGED <<audited, handed>>
        BY <2>2, <3>2 DEF LogoutRevokes, NoContent
      <4> QED
        BY <1>0, <4>1 DEF StepsTrue
    <3> QED
      BY <3>1, <3>2
  <2>3. CASE LogoutRevokeFails(h)
    BY <1>0, <2>3 DEF StepsTrue, LogoutRevokeFails
  <2>4. CASE AuditLogout(h)
    <3>1. /\ pc' = [pc EXCEPT ![h] = "idle"] /\ key' = [key EXCEPT ![h] = None]
          /\ token' = [token EXCEPT ![h] = None] /\ UNCHANGED <<row, audited, handed>>
      BY <2>4 DEF AuditLogout, NoContent
    <3> QED
      BY <1>0, <3>1 DEF StepsTrue
  <2> QED
    BY <1>5, <2>1, <2>2, <2>3, <2>4 DEF LogoutSteps
<1>6. CASE ClockPasses
  BY <1>6 DEF StepsTrue, ClockPasses
<1>7. ASSUME NEW t \in Token, SessionExpires(t) PROVE StepsTrue'
  BY <1>0, <1>7 DEF StepsTrue, SessionExpires, Valid
<1>8. CASE CrashAndRestart
  BY <1>8 DEF StepsTrue, CrashAndRestart
<1>9. CASE UNCHANGED vars
  BY <1>9 DEF StepsTrue, vars
<1> QED
  BY <1>1, <1>2, <1>3, <1>4, <1>5, <1>6, <1>7, <1>8, <1>9 DEF Next

(* A token reaches a client after its audit entry, and the entry stays.     *)
LEMMA AuditStep == IInv /\ [Next]_vars => HandedIsAudited'
<1> SUFFICES ASSUME IInv, HandedIsAudited, [Next]_vars PROVE HandedIsAudited'
  BY DEF IInv
<1>1. audited \subseteq audited'
  BY DEF Next, vars, Register, TooManyAttempts, StartLogin, Verified, Logout, LoginSteps,
         LogoutSteps, InvalidCredentials, CreateSession, CreateSessionFails, RecordAudit,
         RecordAuditFails, RevokeUnaudited, DecryptFails, LoginSucceeds, LoginFails,
         FindSession, LogoutRevokes, LogoutRevokeFails, AuditLogout, ClockPasses,
         SessionExpires, CrashAndRestart, database
<1>2. ASSUME NEW h \in Handler, NEW e \in Email, NEW t \in Token, Register(h, e, t)
      PROVE  handed' \subseteq audited'
  BY <1>2 DEF Register, HandedIsAudited
<1>3. ASSUME NEW h \in Handler, LoginSucceeds(h) PROVE handed' \subseteq audited'
  BY <1>1, <1>3 DEF LoginSucceeds, HandedIsAudited, IInv, StepsTrue
<1>4. \/ handed' = handed \/ (\E h \in Handler : LoginSucceeds(h))
      \/ \E h \in Handler, e \in Email, t \in Token : Register(h, e, t)
  BY DEF Next, vars, TooManyAttempts, StartLogin, Verified, Logout, LoginSteps,
         LogoutSteps, InvalidCredentials, CreateSession, CreateSessionFails, RecordAudit,
         RecordAuditFails, RevokeUnaudited, DecryptFails, LoginFails,
         FindSession, LogoutRevokes, LogoutRevokeFails, AuditLogout, ClockPasses,
         SessionExpires, CrashAndRestart, clients, NoContent
<1> QED
  BY <1>1, <1>2, <1>3, <1>4 DEF HandedIsAudited

(* A logout is answered 204 for a session that is over, and a session that  *)
(* is over never comes back: the token of a login in progress is fresh.     *)
LEMMA LogoutStep == IInv /\ [Next]_vars => LogoutIsFinal'
<1> SUFFICES ASSUME IInv, TypeOK, StepsTrue, LogoutIsFinal, [Next]_vars, NEW t \in loggedOut'
             PROVE  row'[t] # "live"
  BY DEF IInv, LogoutIsFinal, Valid
<1> USE SessionConstants DEF Insert, RevokeSession, database, clients, handlers
<1>0. /\ row \in [Token -> {"live", "ended", None}] /\ loggedOut \subseteq handed
      /\ handed \subseteq {u \in Token : row[u] # None}
      /\ \A u \in loggedOut : row[u] # "live"
  BY DEF TypeOK, LogoutIsFinal, Valid
<1>1. ASSUME t \in loggedOut PROVE row'[t] # "live"
  <2>1. row[t] = "ended" /\ t \in Token
    BY <1>0, <1>1
  <2>2. ASSUME NEW u \in Token, row[u] = None, Insert(u) PROVE row'[t] # "live"
    BY <1>0, <2>1, <2>2
  <2>3. ASSUME NEW u, RevokeSession(u) PROVE row'[t] # "live"
    BY <1>0, <2>1, <2>3
  <2>4. ASSUME NEW h \in Handler, pc[h] = "create" PROVE token[h] \in Token /\ row[token[h]] = None
    BY <2>4 DEF StepsTrue
  <2>5. ASSUME NEW u \in Token, SessionExpires(u) PROVE row'[t] # "live"
    BY <1>0, <2>1, <2>5 DEF SessionExpires
  <2> HIDE DEF Insert, RevokeSession
  <2>6. \/ row' = row \/ (\E u : RevokeSession(u)) \/ (\E u \in Token : SessionExpires(u))
        \/ \E u \in Token : row[u] = None /\ Insert(u)
    BY <2>4 DEF Next, vars, Register, Fresh, TooManyAttempts, StartLogin, Verified, Logout,
           LoginSteps, LogoutSteps, InvalidCredentials, CreateSession, CreateSessionFails,
           RecordAudit, RecordAuditFails, RevokeUnaudited, DecryptFails, LoginSucceeds,
           LoginFails, FindSession, LogoutRevokes, LogoutRevokeFails, AuditLogout,
           ClockPasses, CrashAndRestart
  <2> QED
    BY <2>1, <2>2, <2>3, <2>5, <2>6
<1>2. ASSUME t \notin loggedOut PROVE row'[t] # "live"
  <2>1. PICK h \in Handler :
          /\ t = token[h]
          /\ \/ (LogoutRevokes(h) /\ ~found[h]) \/ AuditLogout(h)
    BY <1>2 DEF Next, vars, Register, TooManyAttempts, StartLogin, Verified, Logout,
           LoginSteps, LogoutSteps, InvalidCredentials, CreateSession, CreateSessionFails,
           RecordAudit, RecordAuditFails, RevokeUnaudited, DecryptFails, LoginSucceeds,
           LoginFails, FindSession, LogoutRevokes, LogoutRevokeFails, AuditLogout,
           ClockPasses, CrashAndRestart, SessionExpires, NoContent
  <2>2. CASE LogoutRevokes(h)
    <3>1. token[h] \in Token /\ row' = [row EXCEPT ![token[h]] = IF @ = None THEN None ELSE "ended"]
      BY <1>0, <2>2 DEF LogoutRevokes, StepsTrue
    <3> QED
      BY <1>0, <2>1, <3>1
  <2>3. CASE AuditLogout(h)
    BY <2>1, <2>3 DEF AuditLogout, StepsTrue
  <2> QED
    BY <2>1, <2>2, <2>3
<1> QED
  BY <1>1, <1>2

(* A key whose bucket and sign-ins are only forgotten or ended stays within *)
(* its bound.                                                               *)
LEMMA OverrunKept ==
  ASSUME IInv, BucketsOK', NEW k \in Key,
         Counting(buckets, k), buckets'[k].failures = buckets[k].failures,
         InFlight(k)' \subseteq InFlight(k)
  PROVE  buckets'[k].failures + Cardinality(InFlight(k)') <= Limit - 1 + Cardinality(Handler)
<1>1. buckets[k].failures \in Nat
  BY DEF Counting, IInv, BucketsOK, BucketMap
<1>2. IsFiniteSet(InFlight(k)) /\ Cardinality(Handler) \in Nat
  BY SessionConstants, FS_Subset, FS_CardinalityType DEF InFlight
<1>3. IsFiniteSet(InFlight(k)') /\ Cardinality(InFlight(k)') <= Cardinality(InFlight(k))
  BY <1>2, FS_Subset
<1>4. Cardinality(InFlight(k)') \in Nat /\ Cardinality(InFlight(k)) \in Nat
  BY <1>2, <1>3, FS_CardinalityType
<1>5. buckets[k].failures + Cardinality(InFlight(k)) <= Limit - 1 + Cardinality(Handler)
  BY DEF IInv, OverrunBounded
<1> QED
  BY <1>1, <1>2, <1>3, <1>4, <1>5, LimiterConstants

(* A sign-in joins those in flight only while its key is below the limit,   *)
(* and leaves them in the step that counts it: the guesses of a window      *)
(* overrun the limit by the other handlers at most.                         *)
LEMMA OverrunStep == IInv /\ [Next]_vars => OverrunBounded'
<1> SUFFICES ASSUME IInv, BucketsOK', [Next]_vars, NEW k \in Key, Counting(buckets', k)
             PROVE  buckets'[k].failures + Cardinality(InFlight(k)')
                      <= Limit - 1 + Cardinality(Handler)
  BY BucketsStep DEF OverrunBounded, Counting
<1> USE LimiterConstants, SessionConstants DEF BucketMap
<1>0. /\ pc \in [Handler -> SigningIn \cup {"idle", "find", "leave", "auditLeave"}]
      /\ key \in [Handler -> Key \cup {None}] /\ Cardinality(Handler) \in Nat
      /\ \A h \in Handler : pc[h] \in SigningIn => key[h] \in Key
      /\ \A b, j : Counting(b, j) => b[j] # None
      /\ buckets'[k].failures \in Nat
  BY FS_CardinalityType DEF IInv, TypeOK, StepsTrue, Counting, BucketsOK
<1>1. ASSUME \A h \in Handler : pc'[h] \in SigningIn => pc[h] \in SigningIn /\ key'[h] = key[h]
      PROVE  InFlight(k)' \subseteq InFlight(k)
  BY <1>1 DEF InFlight
<1>2. ASSUME NEW h \in Handler, NEW j \in Key, StartLogin(h, j)
      PROVE  buckets'[k].failures + Cardinality(InFlight(k)')
                      <= Limit - 1 + Cardinality(Handler)
  <2>1. /\ \A i \in Key : buckets'[i] # None => buckets'[i] = buckets[i]
        /\ Counting(buckets', j) => buckets[j].failures < Limit
    BY <1>2, LimitedStep DEF StartLogin, IInv
  <2>2. CASE k = j
    <3>1. InFlight(k)' \subseteq Handler /\ IsFiniteSet(InFlight(k)')
          /\ Cardinality(InFlight(k)') <= Cardinality(Handler)
      <4>1. InFlight(k)' \in SUBSET Handler
        BY DEF InFlight
      <4> QED
        BY <4>1, FS_Subset
    <3>2. Cardinality(InFlight(k)') \in Nat
      BY <3>1, FS_CardinalityType
    <3>3. buckets'[k].failures < Limit
      BY <1>0, <2>1, <2>2
    <3> QED
      BY <1>0, <3>1, <3>2, <3>3
  <2>3. CASE k # j
    <3>1. InFlight(k)' \subseteq InFlight(k)
      BY <1>0, <1>2, <2>3 DEF InFlight, StartLogin, SigningIn
    <3>2. buckets'[k] = buckets[k] /\ Counting(buckets, k)
      BY <1>0, <2>1 DEF Counting
    <3> QED
      BY <3>1, <3>2, OverrunKept
  <2> QED
    BY <2>2, <2>3
<1>3. ASSUME NEW h \in Handler, LoginFails(h)
      PROVE  buckets'[k].failures + Cardinality(InFlight(k)')
                      <= Limit - 1 + Cardinality(Handler)
  <2>1. key[h] \in Key /\ pc[h] \in SigningIn
    BY <1>0, <1>3 DEF LoginFails, SigningIn
  <2>2. /\ \A j \in Key \ {key[h]} : buckets'[j] # None => buckets'[j] = buckets[j]
        /\ \/ buckets'[key[h]].failures = 1
           \/ Counting(buckets, key[h])
                /\ buckets'[key[h]].failures = buckets[key[h]].failures + 1
    BY <1>3, <2>1, FailureStep DEF LoginFails, IInv
  <2>3. \A g \in Handler : pc'[g] \in SigningIn => g # h /\ pc[g] \in SigningIn /\ key'[g] = key[g]
    BY <1>0, <1>3 DEF LoginFails, Done, SigningIn
  <2>4. CASE k # key[h]
    <3>1. buckets'[k] = buckets[k] /\ Counting(buckets, k)
      BY <1>0, <2>2, <2>4 DEF Counting
    <3> QED
      BY <1>1, <2>3, <3>1, OverrunKept
  <2>5. CASE k = key[h]
    <3>1. InFlight(k)' \subseteq InFlight(k) \ {h} /\ h \in InFlight(k)
      BY <2>1, <2>3, <2>5 DEF InFlight
    <3>2. IsFiniteSet(InFlight(k)) /\ Cardinality(InFlight(k)) <= Cardinality(Handler)
      <4>1. InFlight(k) \in SUBSET Handler
        BY DEF InFlight
      <4> QED
        BY <4>1, FS_Subset
    <3>3. /\ IsFiniteSet(InFlight(k) \ {h})
          /\ Cardinality(InFlight(k) \ {h}) = Cardinality(InFlight(k)) - 1
      BY <3>1, <3>2, FS_RemoveElement
    <3>4. IsFiniteSet(InFlight(k)') /\ Cardinality(InFlight(k)') <= Cardinality(InFlight(k) \ {h})
      BY <3>1, <3>3, FS_Subset
    <3>5. Cardinality(InFlight(k)') \in Nat /\ Cardinality(InFlight(k)) \in Nat
      BY <3>2, <3>4, FS_CardinalityType
    <3>6. CASE buckets'[k].failures = 1
      BY <1>0, <3>2, <3>3, <3>4, <3>5, <3>6
    <3>7. CASE Counting(buckets, k) /\ buckets'[k].failures = buckets[k].failures + 1
      <4>1. buckets[k].failures + Cardinality(InFlight(k)) <= Limit - 1 + Cardinality(Handler)
        BY <3>7 DEF IInv, OverrunBounded
      <4>2. buckets[k].failures \in Nat
        BY <3>7 DEF Counting, IInv, BucketsOK
      <4> QED
        BY <1>0, <3>3, <3>4, <3>5, <3>7, <4>1, <4>2
    <3> QED
      BY <2>2, <2>5, <3>6, <3>7
  <2> QED
    BY <2>4, <2>5
<1>4. ASSUME NEW h \in Handler, LoginSucceeds(h)
      PROVE  buckets'[k] = buckets[k] /\ InFlight(k)' \subseteq InFlight(k)
  <2>1. key[h] \in Key
    BY <1>0, <1>4 DEF LoginSucceeds, SigningIn
  <2>2. buckets'[k] = buckets[k]
    BY <1>4, <2>1, ForgetStep DEF LoginSucceeds, IInv
  <2> QED
    BY <1>0, <1>1, <1>4, <2>2 DEF LoginSucceeds, Done, SigningIn
<1>5. ASSUME NEW h \in Handler, NEW j \in Key, TooManyAttempts(h, j)
      PROVE  buckets'[k] = buckets[k] /\ InFlight(k)' \subseteq InFlight(k)
  <2>1. buckets'[k] = buckets[k]
    BY <1>0, <1>5, LimitedStep DEF TooManyAttempts, IInv
  <2> QED
    BY <1>1, <1>5, <2>1 DEF TooManyAttempts, handlers
<1>6. CASE ClockPasses
  <2>1. Counting(buckets, k) /\ buckets'[k].failures = buckets[k].failures
    BY <1>6, TickStep DEF ClockPasses, IInv
  <2>2. InFlight(k)' \subseteq InFlight(k)
    BY <1>1, <1>6 DEF ClockPasses, handlers
  <2> QED
    BY <2>1, <2>2, OverrunKept
<1>7. ASSUME CrashAndRestart PROVE FALSE
  BY <1>0, <1>7 DEF CrashAndRestart, Empty
<1>8. ASSUME NEW h \in Handler, LogoutSteps(h)
      PROVE  buckets' = buckets /\ InFlight(k)' \subseteq InFlight(k)
  <2>1. buckets' = buckets
    BY <1>8 DEF LogoutSteps, FindSession, LogoutRevokes, LogoutRevokeFails, AuditLogout
  <2>2. \A g \in Handler : pc'[g] \in SigningIn => pc[g] \in SigningIn /\ key'[g] = key[g]
    BY <1>0, <1>8
    DEF LogoutSteps, FindSession, LogoutRevokes, LogoutRevokeFails, AuditLogout, GoTo, Done,
        NoContent, SigningIn
  <2> QED
    BY <1>1, <2>1, <2>2
<1>9. ASSUME NEW h \in Handler,
             \/ InvalidCredentials(h) \/ CreateSession(h) \/ CreateSessionFails(h)
             \/ RecordAudit(h) \/ RecordAuditFails(h) \/ RevokeUnaudited(h) \/ DecryptFails(h)
      PROVE  buckets' = buckets /\ InFlight(k)' \subseteq InFlight(k)
  <2>1. buckets' = buckets
    BY <1>9 DEF InvalidCredentials, CreateSession, CreateSessionFails, RecordAudit,
                RecordAuditFails, RevokeUnaudited, DecryptFails
  <2>2. \A g \in Handler : pc'[g] \in SigningIn => pc[g] \in SigningIn /\ key'[g] = key[g]
    BY <1>0, <1>9 DEF InvalidCredentials, CreateSession, CreateSessionFails, RecordAudit,
                RecordAuditFails, RevokeUnaudited, DecryptFails, GoTo, SigningIn
  <2> QED
    BY <1>1, <2>1, <2>2
<1>10. ASSUME NEW h \in Handler, NEW t \in Token, Verified(h, t) \/ Logout(h, t)
       PROVE  buckets' = buckets /\ InFlight(k)' \subseteq InFlight(k)
  BY <1>0, <1>1, <1>10 DEF Verified, Logout, SigningIn
<1>11. ASSUME \/ \E h \in Handler, e \in Email, t \in Token : Register(h, e, t)
              \/ \E t \in Token : SessionExpires(t)
              \/ UNCHANGED vars
       PROVE  buckets' = buckets /\ InFlight(k)' \subseteq InFlight(k)
  BY <1>1, <1>11 DEF Register, SessionExpires, vars, handlers
<1>12. CASE buckets'[k] = buckets[k] /\ InFlight(k)' \subseteq InFlight(k)
  <2>1. Counting(buckets, k)
    BY <1>12 DEF Counting
  <2> QED
    BY <1>12, <2>1, OverrunKept
<1> QED
  BY <1>2, <1>3, <1>4, <1>5, <1>6, <1>7, <1>8, <1>9, <1>10, <1>11, <1>12 DEF Next, LoginSteps

-----------------------------------------------------------------------------
(* The theorems.                                                            *)

(* The invariant holds in every state of every behaviour.                   *)
THEOREM Inductive == Spec => []IInv
<1>1. IInv /\ [Next]_vars => IInv'
  BY BucketsStep, TypeStep, StepsStep, AuditStep, LogoutStep, OverrunStep DEF IInv
<1> QED
  BY InitIInv, <1>1, PTL DEF Spec

(* The limiter's map stays within maxLoginBuckets, and clients hold tokens  *)
(* of stored sessions.                                                      *)
THEOREM TypeCorrect == Spec => []TypeOK
  BY Inductive, PTL DEF IInv

(* For any number of handlers and any limit, the guesses counted in a       *)
(* window with those in flight exceed the limit by the other handlers at    *)
(* most, although limited() and failure() are two critical sections.        *)
THEOREM Overrun == Spec => []OverrunBounded
  BY Inductive, PTL DEF IInv

(* Whatever statement of Login or Register fails, and whatever answer is    *)
(* lost, a client receives audited tokens only.                             *)
THEOREM Audited == Spec => []HandedIsAudited
  BY Inductive, PTL DEF IInv

(* After a 204 of logout the token is never let in again, whatever the      *)
(* other handlers do with it.                                               *)
THEOREM LogoutFinal == Spec => []LogoutIsFinal
  BY Inductive, PTL DEF IInv
=============================================================================
