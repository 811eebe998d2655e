SPECIFICATION Spec
CONSTANTS
    Requests = {r1, r2, r3}
    u1 = u1
    u2 = u2
    u3 = u3
    ann = ann
    bob = bob
    e1 = e1
    e2 = e2
    e3 = e3
    UserIds = {u1, u2}
    Names = {ann, bob}
    Emails = {e1, e2}
    NoUser = NoUser
    Omitted = Omitted
    Calls <- MCCallsAndPage
    Seed <- MCSeed
    DefaultLimit = 1
    MaxLimit = 2
    MaxCopies = 1
    MaxFailed = 1
SYMMETRY MCSymmetry
INVARIANTS TypeOK EmailsUnique EventsEarned TopicsAgree AnsweredFirst GoneStaysGone
PROPERTIES LoneUpdateKeepsOmitted
CHECK_DEADLOCK FALSE
