------------------------------ MODULE MCPipeline ------------------------------
(* A small instance of Pipeline for TLC.                                    *)
EXTENDS Pipeline

CONSTANTS u1, u2, ann, bob, e1, e2

Ask(op, u, n, e) == [op |-> op, user |-> u, name |-> n, email |-> e]

MCTexts == UserIds \union Names \union Emails \union Requests \union {Empty}

MCCalls == {Ask("create", NoUser, bob, e2),
            Ask("update", u1, bob, Omitted), Ask("update", u1, Omitted, e2),
            Ask("delete", u1, Omitted, Omitted)}

MCSeed == [u \in UserIds |-> IF u = u1 THEN [state |-> "live", name |-> ann, email |-> e1]
                                      ELSE NoRow]

\* Between two milliseconds.
MCNow == [r \in Requests |-> 2 * PerMilli + 1]

\* The event of the user's creation, from before the event_id.
OldEvent == [event_type |-> "CREATED", user_id |-> u1, name |-> ann, email |-> e1,
             age |-> 0, timestamp |-> 0, event_id |-> Empty]

\* An event without an id in one topic, and garbage in the other.
MCBacklog ==
    [f \in {"avro", "proto"} |-> [u \in UserIds |->
        CASE u # u1 -> <<>>
          [] u = u1 /\ f = "avro" -> <<OldEvent>>
          [] u = u1 /\ f = "proto" -> <<Garbage>>]]

\* Requests differ in nothing else, and the properties are invariants.
Symmetry == Permutations(Requests)
===============================================================================
