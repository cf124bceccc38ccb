\* ENGINE.md's convergence of concurrent misses: two equal requests.
SPECIFICATION Spec
CONSTANTS
    r1 = r1
    r2 = r2
    r3 = r3
    Request = {r1, r2}
    demo = demo
    p1 = p1
    Scope = {p1}
    k1 = k1
    Key = {k1}
    d1 = d1
    s1 = s1
    s2 = s2
    Body = {d1, s1}
    Stripe = {s1}
    RunId <- RunIds
    None = None
INVARIANT ConcurrentMissesConverge
CHECK_DEADLOCK FALSE
