-------------------------------- MODULE Pipeline --------------------------------
(***************************************************************************)
(* The service from end to end: requests write users and publish events    *)
(* (UserService, Producer), the events are encoded into two topics (Codec),*)
(* and each topic's group decodes and handles them. In the place of the    *)
(* consume loops stands Delivery, which TopicConsumer implements, with the *)
(* topics of the producer as its log: a partition per user, because no two *)
(* users' events are ordered.                                              *)
(***************************************************************************)
EXTENDS UserService, Codec

CONSTANTS
    Garbage,   \* a message that does not decode, and the "schema" of one
    Now,       \* Now[r]: the time at which the event of r is built
    Backlog    \* Backlog[f][u]: what is in the topics when the service starts, garbage
               \* and events without an id from before the schema had one

VARIABLES
    group, \* the group that is followed: the two share nothing, see the README
    log, handled, failed, applied, \* the variables of Delivery
    view   \* history: view[u], what a consumer knows of u that remembers what the last
           \* event of u said whose work was committed
deliveryVars == <<log, handled, failed, applied>>
allVars == <<vars, group, deliveryVars, view>>

OldMessages == {Garbage} \union {e \in Events : e.event_id = Empty}

ASSUME PipelineAssumption ==
    /\ Requests \union UserIds \union Names \union Emails \subseteq Texts
    /\ Empty \notin Requests
    /\ Now \in [Requests -> Nat]
    /\ Garbage \notin Events
    /\ Backlog \in [P!Formats -> [UserIds -> Seq(OldMessages)]]

\* The schemas of both topics by their ids in the registry.
LegacyId == 1
AvroId == 2
ProtoId == 3
Registry == [id \in {LegacyId, AvroId} |-> IF id = LegacyId THEN LegacyFields ELSE AvroFields]

------------------------------------------------------------------------------
\* Delete publishes what Update publishes.
TypeOfMutant(c) == IF c.op = "create" THEN "CREATED" ELSE "UPDATED"

TypeOf(c) == CASE c.op = "create" -> "CREATED"
               [] c.op = "update" -> "UPDATED"
               [] c.op = "delete" -> "DELETED"

\* The event is built from the request, not from the user that was stored.
EventOfMutant(r) ==
    [event_id |-> r, event_type |-> TypeOf(call[r]), user_id |-> Id(r), name |-> call[r].name,
     email |-> call[r].email, age |-> 0, timestamp |-> Now[r]]

\* publishEvent builds the event of r from the user that r works on.
EventOf(r) ==
    [event_id |-> r, event_type |-> TypeOf(call[r]), user_id |-> Id(r), name |-> user[r].name,
     email |-> user[r].email, age |-> 0, timestamp |-> Now[r]]

Encode(f, e) == IF f = "avro" THEN AvroEncode(AvroId, e) ELSE ProtoEncode(ProtoId, e)
Accepts(f, m) == IF f = "avro" THEN AvroAccepts(Registry, m) ELSE ProtoAccepts(m)
Decode(f, m) == IF f = "avro" THEN AvroDecode(Registry, m) ELSE ProtoDecode(m)

EncodeOld(f, m) ==
    CASE m = Garbage -> BadFrame
      [] m # Garbage /\ f = "avro" -> AvroWrite(LegacyFields, LegacyId, m)
      [] m # Garbage /\ f = "proto" -> ProtoEncode(ProtoId, m)

\* The n-th message of a topic (of its partition for u).
Wire(f, u, n) ==
    LET old == Backlog[f][u] IN
    IF n <= Len(old) THEN EncodeOld(f, old[n]) ELSE Encode(f, EventOf(topic[f][u][n - Len(old)]))

\* What the consumers see of a message.
Seen(f, m) ==
    IF Accepts(f, m) THEN [event |-> Decode(f, m).event_id, schema |-> m.id]
                     ELSE [event |-> Empty, schema |-> Garbage]

\* The events that a step appends to a topic. They do not change any more.
New(f, u) == SubSeq(topic'[f][u], Len(topic[f][u]) + 1, Len(topic'[f][u]))

D == INSTANCE Delivery WITH
        Groups <- P!Formats, Partitions <- UserIds, EventIds <- Requests, NoEventId <- Empty

\* What an event says of its user.
Told(e) == [state |-> IF e.event_type = "DELETED" THEN "deleted" ELSE "live",
            name |-> e.name, email |-> e.email]

AllInit ==
    /\ Init
    /\ group \in P!Formats
    /\ log = [f \in P!Formats |-> [u \in UserIds |->
                [n \in DOMAIN Backlog[f][u] |-> Seen(f, EncodeOld(f, Backlog[f][u][n]))]]]
    /\ handled = {} /\ failed = {}
    /\ applied = [k \in P!Formats \X Requests |-> 0]
    /\ view = Seed

\* The work on the message's event is committed.
Apply(u, o) ==
    /\ UNCHANGED <<vars, group>>
    /\ D!Apply(group, u, o)
    /\ view' = [view EXCEPT ![u] = Told(Decode(group, Wire(group, u, o + 1)))]

\* The message's fate is known. What comes after it has been handled, another delivery
\* or a failure, changes nothing.
Handle(u, o) ==
    /\ <<group, u, o>> \notin handled
    /\ UNCHANGED <<vars, group, view>>
    /\ \/ D!Handle(group, u, o)
       \/ <<group, u, o>> \notin failed /\ D!Fail(group, u, o)

Offsets(u) == 0 .. Len(log[group][u]) - 1

AllNext ==
    \/ /\ Next
       /\ log' = [f \in P!Formats |-> [u \in UserIds |->
                     log[f][u] \o [n \in DOMAIN New(f, u) |->
                                     Seen(f, Encode(f, EventOf(New(f, u)[n])))]]]
       /\ UNCHANGED <<group, handled, failed, applied, view>>
    \/ \E u \in UserIds : \E o \in Offsets(u) : Apply(u, o) \/ Handle(u, o)

AllSpec == AllInit /\ [][AllNext]_allVars

------------------------------------------------------------------------------
\* The offset of the n-th message that the producer has written for u.
OffsetOf(u, n) == Len(Backlog[group][u]) + n - 1

(* A group handles a publication under the id that it was given, so its     *)
(* work is committed once when it has been handled, and once only, though   *)
(* the id has crossed a wire format and may have arrived late.              *)
HandledUnderItsId ==
    \A u \in UserIds : \A n \in DOMAIN topic[group][u] :
        <<group, u, OffsetOf(u, n)>> \in handled => applied[<<group, topic[group][u][n]>>] = 1

(* Consumers learn nothing that was not so: what a group knows of a live    *)
(* user has been written by a request whose write has committed, and a      *)
(* user is only known to be deleted after a committed delete.               *)
ViewsEarned ==
    \A u \in UserIds : view[u] # Seed[u] =>
        \E r \in ToSet(stored) : Id(r) = u /\
            IF view[u].state = "deleted" THEN call[r].op = "delete" ELSE view[u] = Written(r)

\* The requests that are about to write u, or have.
Writers(u) == {r \in Requests : u \in {call[r].user, Id(r)} /\ call[r].op # "get"}

(* When all is quiet the consumers know the users as they are: if the       *)
(* writing requests for u came one after the other and were answered, their *)
(* events acknowledged and worked off, and no message of u has failed, then *)
(* the group knows u's row.                                                 *)
QuietViewIsCurrent ==
    \A u \in UserIds :
        /\ \A r \in Writers(u) :
              /\ stage[r] \in Definite
              /\ \A q \in Writers(u) \ {r} : q \in before[r] \/ r \in before[q]
              /\ stage[r] = "ok" => <<group, r>> \in acked /\ applied[<<group, r>>] = 1
        /\ \A o \in Offsets(u) : <<group, u, o>> \notin failed
        => view[u] = row[u]
=================================================================================
