SPECIFICATION AllSpec
CONSTANTS
    Requests = {r1, r2}
    u1 = u1
    u2 = u2
    ann = ann
    bob = bob
    e1 = e1
    e2 = e2
    UserIds = {u1, u2}
    Names = {ann, bob}
    Emails = {e1, e2}
    NoUser = NoUser
    Omitted = Omitted
    Empty = Empty
    Texts <- MCTexts
    Garbage = Garbage
    PerMilli = 1000
    ZeroTime = ZeroTime
    Now <- MCNow
    Backlog <- MCBacklog
    Calls <- MCCalls
    Seed <- MCSeed
    DefaultLimit = 1
    MaxLimit = 2
    MaxCopies = 1
    MaxFailed = 1
SYMMETRY Symmetry
INVARIANTS HandledUnderItsId ViewsEarned QuietViewIsCurrent
CHECK_DEADLOCK FALSE
