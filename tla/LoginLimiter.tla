---------------------------- MODULE LoginLimiter ----------------------------
(***************************************************************************)
(* The sign-in limiter of one API process (httpapi/auth_routes.go): a map  *)
(* from client address and account to the failures of a five-minute        *)
(* window.  Each operation is one critical section of its mutex.  Module   *)
(* Sessions calls them from the handlers.                                  *)
(***************************************************************************)
EXTENDS Naturals, FiniteSets

CONSTANTS
    Key,          \* client address and blind index of the email
    Limit,        \* failures after which a key is refused: 8
    MaxBuckets,   \* maxLoginBuckets: 4096
    Window,       \* the five minutes of a window, in ticks of the clock
    None

ASSUME LimiterConstants ==
    /\ Limit \in Nat \ {0}
    /\ MaxBuckets \in Nat \ {0}
    /\ Window \in Nat \ {0}

VARIABLE buckets   \* the map: failures, and the ticks left until resetAt, 0 once it has passed

Present(b) == {k \in Key : b[k] # None}

\* bucket.resetAt.After(now)
Counting(b, k) == b[k] # None /\ b[k].left > 0

SweptWithoutEviction(b) == {[k \in Key |-> IF Counting(b, k) THEN b[k] ELSE None]}

(* The sweep of maintainLocked: expired buckets go, then arbitrary ones     *)
(* until there is room for one more.                                        *)
Swept(b) ==
    LET counting == {k \in Key : Counting(b, k)} IN
    {[k \in Key |-> IF k \in kept THEN b[k] ELSE None] :
        kept \in {S \in SUBSET counting :
                    \/ S = counting /\ Cardinality(S) < MaxBuckets
                    \/ Cardinality(counting) >= MaxBuckets /\ Cardinality(S) = MaxBuckets - 1}}

(* maintainLocked sweeps on every 64th operation, which here any operation  *)
(* may be, and whenever the map is full.                                    *)
Maintained(b) ==
    Swept(b) \cup (IF Cardinality(Present(b)) < MaxBuckets THEN {b} ELSE {})

RefusesOneLate(b, k) == Counting(b, k) /\ b[k].failures > Limit

Refuses(b, k) == Counting(b, k) /\ b[k].failures >= Limit

LimitedExtendsWindow(k) ==
    \E b \in Maintained(buckets) : Refuses(b, k) /\ buckets' = [b EXCEPT ![k].left = Window]

\* limited() answers true: 429.  The bucket keeps its resetAt.
Limited(k) == \E b \in Maintained(buckets) : Refuses(b, k) /\ buckets' = b

\* limited() answers false, and drops a bucket whose window is over.
NotLimited(k) ==
    \E b \in Maintained(buckets) :
        /\ ~Refuses(b, k)
        /\ buckets' = IF Counting(b, k) THEN b ELSE [b EXCEPT ![k] = None]

\* failure() counts; it sets resetAt only when it opens a window.
Failure(k) ==
    \E b \in Maintained(buckets) :
        LET window == IF Counting(b, k) THEN b[k] ELSE [failures |-> 0, left |-> Window] IN
        buckets' = [b EXCEPT ![k] = [window EXCEPT !.failures = @ + 1]]

\* success() forgets the key.
Success(k) == buckets' = [buckets EXCEPT ![k] = None]

\* now() advances, for every bucket at once.
Tick ==
    /\ \E k \in Key : Counting(buckets, k)
    /\ buckets' = [k \in Key |-> IF Counting(buckets, k) THEN [buckets[k] EXCEPT !.left = @ - 1]
                                                       ELSE buckets[k]]

Empty == [k \in Key |-> None]
=============================================================================
