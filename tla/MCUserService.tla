---------------------------- MODULE MCUserService ----------------------------
(* Small instances of UserService for TLC.                                  *)
EXTENDS UserService

CONSTANTS u1, u2, u3, ann, bob, e1, e2, e3

Ask(op, u, n, e) == [op |-> op, user |-> u, name |-> n, email |-> e]

\* Partial updates of one user in different fields, a read, a delete, and a create
\* that competes for an email.
MCCalls == {
    Ask("create", NoUser, ann, e2),
    Ask("update", u1, bob, Omitted),
    Ask("update", u1, Omitted, e2),
    Ask("get", u1, Omitted, Omitted),
    Ask("delete", u1, Omitted, Omitted) }

AskPage(offset, limit) ==
    [op |-> "list", user |-> NoUser, name |-> Omitted, email |-> Omitted,
     offset |-> offset, limit |-> limit]

\* One of these updates less, and pages with parameters that List has to correct.
MCCallsAndPages ==
    (MCCalls \ {Ask("update", u1, Omitted, e2)}) \union {AskPage(-1, 0), AskPage(1, 9)}

\* Or a page with all users.
MCCallsAndPage == MCCalls \union {AskPage(0, 2)}

\* One live user.
MCSeed == [u \in UserIds |->
              IF u = u1 THEN [state |-> "live", name |-> ann, email |-> e1] ELSE NoRow]

\* Two live users, so that a page may have one when the other is deleted.
MCSeedTwo == [u \in UserIds |->
                 CASE u = u1 -> [state |-> "live", name |-> ann, email |-> e1]
                   [] u = u2 -> [state |-> "live", name |-> ann, email |-> e3]
                   [] OTHER -> NoRow]

MCSymmetry == Permutations(Requests)
==============================================================================
