--------------------------------- MODULE Codec ---------------------------------
(***************************************************************************)
(* The codecs of internal/kafka/codec.go: what of an event is on the wire  *)
(* in each of the two topics, and which event the consumers make of it.    *)
(*                                                                         *)
(* Bytes are abstract: the part of a message behind its header is the      *)
(* sequence of the Avro values, in the order of the writer's schema, or    *)
(* the message index and the set of Protobuf fields that are present. A    *)
(* field whose type does not change has the same value on the wire; event  *)
(* types, timestamps and zero values do not. Texts are UTF-8 (the rest is  *)
(* refused before an event is built), and ages are 0 .. 150.               *)
(***************************************************************************)
EXTENDS Integers, Sequences

CONSTANTS
    Texts,    \* ids, names and emails
    Empty,    \* the empty text, which is no event id
    PerMilli, \* units of time in a millisecond; times count from the Unix epoch
    ZeroTime  \* time.Time{}, in the year 1: no event bears it

ASSUME CodecAssumption ==
    /\ Empty \in Texts
    /\ PerMilli \in Nat \ {0}
    /\ ZeroTime \notin Nat

Types == {"CREATED", "UPDATED", "DELETED"}

\* models.UserEvent, with its fields named as in both schemas.
Events == [event_type : Types, user_id : Texts, name : Texts, email : Texts,
           age : 0 .. 150, timestamp : Nat, event_id : Texts]
Fields == {"event_type", "user_id", "name", "email", "age", "timestamp", "event_id"}

\* The value of a field of avroUserEvent that the decoder leaves alone.
Zero(f) == CASE f = "age" -> 0 [] f = "timestamp" -> ZeroTime [] OTHER -> Empty

------------------------------------------------------------------------------
(* The Confluent wire format. The ids that the registry gives are positive  *)
(* 32-bit integers, which the four bytes of the header hold as they are.    *)
MagicByte == 0
ProtoMessageIdx0 == 0

Frame(id, indexes, payload) ==
    [magic |-> MagicByte, id |-> id, rest |-> indexes \o payload]

\* What unframe refuses: too few bytes for a header, or another magic byte.
BadFrame == [magic |-> 123, id |-> 0, rest |-> <<>>]
Framed(data) == data.magic = MagicByte

------------------------------------------------------------------------------
(* Avro: the schema tells which value is which, and the registry the schema.*)

\* schemas/avro/user_event.avsc, and the schema before event_id was added.
LegacyFields == <<"event_type", "user_id", "name", "email", "age", "timestamp">>
AvroFields == <<"event_type", "user_id", "name", "email", "age", "timestamp", "event_id">>

\* timestamp-millis
Millis(t) == t \div PerMilli
AvroValue(e, f) == IF f = "timestamp" THEN Millis(e.timestamp) ELSE e[f]
GoValue(f, v) == IF f = "timestamp" THEN v * PerMilli ELSE v

(* Definitions called ...Mutant are plausible bugs that PROJECT.json sets   *)
(* against the properties; the model never uses them.                       *)

\* The message that a producer with some writer's schema writes.
AvroWrite(schema, id, e) ==
    Frame(id, <<>>, [n \in 1 .. Len(schema) |-> AvroValue(e, schema[n])])

\* EventID is left out of the struct that is marshalled.
AvroEncodeMutant(id, e) == AvroWrite(AvroFields, id, [e EXCEPT !.event_id = Empty])

AvroEncode(id, e) == AvroWrite(AvroFields, id, e)

\* schemas[id]: the fields of the writer's schema that the registry has as id.
AvroAccepts(schemas, data) ==
    /\ Framed(data)
    /\ data.id \in DOMAIN schemas
    /\ Len(data.rest) >= Len(schemas[data.id])

\* Fields that the writer's schema does not have keep their zero value.
AvroDecode(schemas, data) ==
    LET schema == schemas[data.id] IN
    [f \in Fields |->
        IF \E n \in 1 .. Len(schema) : schema[n] = f
        THEN GoValue(f, data.rest[CHOOSE n \in 1 .. Len(schema) : schema[n] = f])
        ELSE Zero(f)]

------------------------------------------------------------------------------
(* Protobuf: zero values are not written, and the schema id is not read.    *)
EventTypeValue == [CREATED |-> 0, UPDATED |-> 1, DELETED |-> 2]
EventTypeName(n) == CHOOSE t \in Types : EventTypeValue[t] = n

ProtoValue(e, f) == IF f = "event_type" THEN EventTypeValue[e.event_type] ELSE e[f]
\* What a decoder makes of an absent field; AsTime of no timestamp is the epoch.
ProtoZero(f) == IF f \in {"event_type", "timestamp"} THEN 0 ELSE Zero(f)

\* EventId is left out of the struct that is marshalled.
ProtoEncodeMutant(id, e) ==
    LET present == {f \in Fields \ {"event_id"} :
                       f = "timestamp" \/ ProtoValue(e, f) # ProtoZero(f)} IN
    Frame(id, <<ProtoMessageIdx0>>, <<[f \in present |-> ProtoValue(e, f)]>>)

ProtoEncode(id, e) ==
    LET present == {f \in Fields : f = "timestamp" \/ ProtoValue(e, f) # ProtoZero(f)} IN
    Frame(id, <<ProtoMessageIdx0>>, <<[f \in present |-> ProtoValue(e, f)]>>)

\* A payload that proto.Unmarshal refuses.
BadPayload == [no |-> 0]

\* The message index is a byte of its own, and the rest parses.
ProtoAccepts(data) ==
    /\ Framed(data)
    /\ Len(data.rest) = 2
    /\ data.rest[1] = ProtoMessageIdx0
    /\ data.rest[2] # BadPayload

ProtoDecode(data) ==
    LET payload == data.rest[2]
        value == [f \in Fields |-> IF f \in DOMAIN payload THEN payload[f] ELSE ProtoZero(f)] IN
    [value EXCEPT !["event_type"] = EventTypeName(@)]
================================================================================
