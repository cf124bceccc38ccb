\* Three requests in two scopes with one key: a demo run and a Stripe run.
SPECIFICATION FairSpec
CONSTANTS
    r1 = r1
    r2 = r2
    r3 = r3
    Request = {r1, r2, r3}
    demo = demo
    p1 = p1
    Scope = {demo, p1}
    k1 = k1
    Key = {k1}
    d1 = d1
    s1 = s1
    Body = {d1, s1}
    Stripe = {s1}
    RunId <- RunIds
    None = None
INVARIANTS
    TypeOK
    AtMostOneRunPerKey
    AnswersAgree
PROPERTIES
    ImplementsContract
    EveryRequestAnswered
CHECK_DEADLOCK FALSE
