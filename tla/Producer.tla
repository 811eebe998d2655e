------------------------------- MODULE Producer -------------------------------
(***************************************************************************)
(* PublishUserEvent of internal/kafka/producer.go: one event is written to *)
(* the avro topic and then to the proto topic, keyed by its user, and the  *)
(* call gives up at the first write that fails.                            *)
(*                                                                         *)
(* The kafka-go Writer and the broker are external and modelled by what    *)
(* the calls rely on: a write that returns nil is in the log, perhaps more *)
(* than once because the Writer retries, and an attempt that timed out may *)
(* still add a copy when a later one has been acknowledged; a write that   *)
(* returns an error may be in the log all the same, or on its way there    *)
(* (when ctx is cancelled WriteMessages returns before its batch has been  *)
(* sent).                                                                  *)
(* The Hash balancer sends all messages of a user to one partition, so the *)
(* model keeps a log per user: nothing here relates the order of two users.*)
(* Encoding cannot fail on the events the service builds and is left out.  *)
(***************************************************************************)
EXTENDS Naturals, Sequences, FiniteSets, SequencesExt

CONSTANTS
    Events,    \* the calls of PublishUserEvent, each with an event of its own
    UserIds,   \* the message keys
    NoUser,    \* the key of a call that has not been made
    MaxCopies, \* bound: copies that the attempts of one write leave in its topic
    MaxFailed  \* bound: publications that fail

Formats == {"avro", "proto"}

VARIABLES
    topic,   \* topic[f][u]: the events of user u in the topic of format f
    writing, \* writing[e]: the topic being written, "idle", or the result
    userOf,  \* userOf[e]: the key of e
    flying,  \* <<f, e>>: an attempt to write e that nobody waits for may reach topic f
    acked    \* history: <<f, e>> for every write that returned nil

vars == <<topic, writing, userOf, flying, acked>>

Init ==
    /\ topic = [f \in Formats |-> [u \in UserIds |-> <<>>]]
    /\ writing = [e \in Events |-> "idle"]
    /\ userOf = [e \in Events |-> NoUser]
    /\ flying = {}
    /\ acked = {}

\* The service calls PublishUserEvent.
Publish(e, u) ==
    /\ writing[e] = "idle"
    /\ writing' = [writing EXCEPT ![e] = "avro"]
    /\ userOf' = [userOf EXCEPT ![e] = u]
    /\ UNCHANGED <<topic, flying, acked>>

After(f) == IF f = "avro" THEN "proto" ELSE "nil"

\* Plausible bugs, for PROJECT.json; the model never uses them.
\* The Writer is set to Async: WriteMessages returns before the broker answers.
WriteOkMutant(e) ==
    /\ writing[e] \in Formats
    /\ flying' = flying \union {<<writing[e], e>>}
    /\ acked' = acked \union {<<writing[e], e>>}
    /\ writing' = [writing EXCEPT ![e] = After(writing[e])]
    /\ UNCHANGED <<topic, userOf>>

\* WriteMessages returns nil. The attempts before the last may have left copies, or
\* leave one later.
WriteOk(e) ==
    LET f == writing[e] IN
    /\ f \in Formats
    /\ \E n \in 1 .. MaxCopies :
          /\ topic' = [topic EXCEPT ![f][userOf[e]] = @ \o [i \in 1 .. n |-> e]]
          /\ \/ UNCHANGED flying
             \/ n < MaxCopies /\ flying' = flying \union {<<f, e>>}
    /\ acked' = acked \union {<<f, e>>}
    /\ writing' = [writing EXCEPT ![e] = After(f)]
    /\ UNCHANGED userOf

\* The write to the second topic is tried although the first has failed.
WriteFailMutant(e) ==
    /\ writing[e] \in Formats
    /\ writing' = [writing EXCEPT ![e] = IF @ = "avro" THEN "proto" ELSE "error"]
    /\ UNCHANGED <<topic, userOf, flying, acked>>

\* A failed write is tried again for as long as it takes.
WriteFailRetryMutant(e) ==
    /\ writing[e] \in Formats
    /\ flying' = flying \union {<<writing[e], e>>}
    /\ UNCHANGED <<topic, writing, userOf, acked>>

\* WriteMessages returns an error; what was sent may arrive all the same.
WriteFail(e) ==
    /\ writing[e] \in Formats
    /\ Cardinality({d \in Events : writing[d] = "error"}) < MaxFailed
    /\ writing' = [writing EXCEPT ![e] = "error"]
    /\ flying' \in {flying, flying \union {<<writing[e], e>>}}
    /\ UNCHANGED <<topic, userOf, acked>>

Copies(f, e) == {n \in DOMAIN topic[f][userOf[e]] : topic[f][userOf[e]][n] = e}

\* Such an attempt reaches the broker, and perhaps it was not the only one, ...
Land(f, e) ==
    /\ <<f, e>> \in flying
    /\ \/ flying' = flying \ {<<f, e>>}
       \/ Cardinality(Copies(f, e)) + 1 < MaxCopies /\ UNCHANGED flying
    /\ topic' = [topic EXCEPT ![f][userOf[e]] = Append(@, e)]
    /\ UNCHANGED <<writing, userOf, acked>>

\* ... or is lost.
Lose(f, e) ==
    /\ <<f, e>> \in flying
    /\ flying' = flying \ {<<f, e>>}
    /\ UNCHANGED <<topic, writing, userOf, acked>>

Write(e) == WriteOk(e) \/ WriteFail(e)
Arrive(f, e) == Land(f, e) \/ Lose(f, e)

------------------------------------------------------------------------------
InTopic(f, e) == \E u \in UserIds : e \in ToSet(topic[f][u])

TypeOK ==
    /\ topic \in [Formats -> [UserIds -> Seq(Events)]]
    /\ writing \in [Events -> Formats \union {"idle", "nil", "error"}]
    /\ userOf \in [Events -> UserIds \union {NoUser}]
    /\ flying \in SUBSET (Formats \X Events)
    /\ acked \in SUBSET (Formats \X Events)
    /\ \A e \in Events : writing[e] = "idle" <=> userOf[e] = NoUser

(* An event that is in the proto topic, or still on its way there, is in    *)
(* the avro topic: the avro group sees every event that the proto group     *)
(* sees, although the two writes are not atomic.                            *)
TopicsAgree ==
    \A e \in Events : InTopic("proto", e) \/ <<"proto", e>> \in flying => InTopic("avro", e)
===============================================================================
