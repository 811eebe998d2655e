SPECIFICATION FairSpec
CONSTANTS
    Requests = {r1, r2}
    u1 = u1
    u2 = u2
    u3 = u3
    ann = ann
    bob = bob
    e1 = e1
    e2 = e2
    e3 = e3
    UserIds = {u1, u2, u3}
    Names = {ann, bob}
    Emails = {e1, e2, e3}
    NoUser = NoUser
    Omitted = Omitted
    Calls <- MCCallsAndPages
    Seed <- MCSeedTwo
    DefaultLimit = 1
    MaxLimit = 2
    MaxCopies = 2
    MaxFailed = 1
INVARIANTS ListAddsUp
PROPERTIES RequestsEnd
CHECK_DEADLOCK FALSE
