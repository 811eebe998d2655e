SPECIFICATION Spec
CONSTANTS
    Requests = {r1, r2}
    u1 = u1
    u2 = u2
    u3 = u3
    ann = ann
    bob = bob
    e1 = e1
    e2 = e2
    e3 = e3
    UserIds = {u1, u2}
    Names = {ann, bob}
    Emails = {e1, e2}
    NoUser = NoUser
    Omitted = Omitted
    Calls <- MCCalls
    Seed <- MCSeed
    DefaultLimit = 1
    MaxLimit = 2
    MaxCopies = 1
    MaxFailed = 2
PROPERTIES OmittedFieldsKept
CHECK_DEADLOCK FALSE
