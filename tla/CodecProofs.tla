------------------------------ MODULE CodecProofs ------------------------------
(***************************************************************************)
(* What survives the wire, for all texts and times: see Codec.             *)
(***************************************************************************)
EXTENDS Codec, SequenceTheorems, TLAPS

\* What Avro keeps of an event: times are cut to milliseconds.
CutToMillis(e) == [e EXCEPT !["timestamp"] = Millis(e.timestamp) * PerMilli]

LEMMA FieldsOfEvents ==
    ASSUME NEW e \in Events
    PROVE  /\ e = [f \in Fields |-> e[f]]
           /\ e.event_type \in Types /\ e.age \in Nat /\ e.timestamp \in Nat
           /\ CutToMillis(e) = [f \in Fields |->
                           IF f = "timestamp" THEN Millis(e.timestamp) * PerMilli ELSE e[f]]
  <1>1. e = [f \in Fields |-> e[f]]
    BY DEF Events, Fields
  <1>2. e.event_type \in Types /\ e.age \in Nat /\ e.timestamp \in Nat
    BY DEF Events
  <1> QED
    BY <1>1, <1>2 DEF Fields, CutToMillis

LEMMA Header ==
    ASSUME NEW id \in Nat, NEW indexes, NEW payload
    PROVE  /\ Frame(id, indexes, payload).id = id
           /\ Frame(id, indexes, payload).rest = indexes \o payload
           /\ Framed(Frame(id, indexes, payload))
  BY DEF Frame, Framed

(* A message with any writer's schema that names no field twice decodes,    *)
(* wherever the registry knows that schema: its fields to the values that   *)
(* were published, cut to milliseconds, and the others to zero values.      *)
(* (codec.go: avroCodec; "messages written before it existed still decode", *)
(* README.md:43.)                                                           *)
THEOREM AnySchemaDecodes ==
    ASSUME NEW e \in Events, NEW id \in Nat, NEW schemas, id \in DOMAIN schemas,
           NEW Names, NEW schema \in Seq(Names), schemas[id] = schema,
           \A n, k \in 1 .. Len(schema) : schema[n] = schema[k] => n = k
    PROVE  /\ AvroAccepts(schemas, AvroWrite(schema, id, e))
           /\ AvroDecode(schemas, AvroWrite(schema, id, e)) =
                 [f \in Fields |-> IF \E n \in 1 .. Len(schema) : schema[n] = f
                                   THEN CutToMillis(e)[f] ELSE Zero(f)]
  <1> DEFINE N == Len(schema)
             data == AvroWrite(schema, id, e)
             values == [n \in 1 .. N |-> AvroValue(e, schema[n])]
             S == {AvroValue(e, schema[n]) : n \in 1 .. N}
             Has(f) == \E n \in 1 .. N : schema[n] = f
             place(f) == CHOOSE n \in 1 .. N : schema[n] = f
  <1>1. N \in Nat
    OBVIOUS
  <1>2. values \in Seq(S) /\ Len(values) = N
    BY <1>1
  <1>3. <<>> \o values = values
    BY <1>2, ConcatEmptySeq
  <1>4. data.id = id /\ Framed(data) /\ data.rest = values
    BY <1>3, Header DEF AvroWrite
  <1>5. AvroAccepts(schemas, data)
    <2> HIDE DEF data, values
    <2>1. Len(data.rest) = N /\ schemas[data.id] = schema
      BY <1>2, <1>4
    <2> QED
      BY <1>1, <1>4, <2>1 DEF AvroAccepts
  <1>6. ASSUME NEW f \in Fields, Has(f)
        PROVE  GoValue(f, data.rest[place(f)]) = CutToMillis(e)[f]
    <2>1. place(f) \in 1 .. N /\ schema[place(f)] = f
      BY <1>6
    <2>2. data.rest[place(f)] = AvroValue(e, f)
      BY <1>4, <2>1
    <2>3. CutToMillis(e)[f] =
            IF f = "timestamp" THEN Millis(e.timestamp) * PerMilli ELSE e[f]
      BY FieldsOfEvents
    <2> HIDE DEF data, place
    <2> QED
      BY <2>2, <2>3 DEF GoValue, AvroValue
  <1>7. AvroDecode(schemas, data) =
          [f \in Fields |-> IF Has(f) THEN GoValue(f, data.rest[place(f)]) ELSE Zero(f)]
    <2>1. schemas[data.id] = schema
      BY <1>4
    <2> HIDE DEF data
    <2> QED
      BY <2>1 DEF AvroDecode
  <1>8. AvroDecode(schemas, data) =
          [f \in Fields |-> IF Has(f) THEN CutToMillis(e)[f] ELSE Zero(f)]
    <2> HIDE DEF data, place, Has
    <2> QED
      BY <1>6, <1>7
  <1> QED
    BY <1>5, <1>8

\* Every field has one place in the schema.
LEMMA Places ==
    /\ DOMAIN AvroFields = 1 .. 7 /\ Len(AvroFields) = 7
    /\ \A n \in 1 .. 7 : AvroFields[n] \in Fields
    /\ \A f \in Fields : \E n \in 1 .. 7 : AvroFields[n] = f
    /\ \A n, k \in 1 .. 7 : AvroFields[n] = AvroFields[k] => n = k
  <1>1. DOMAIN AvroFields = 1 .. 7 /\ Len(AvroFields) = 7
    BY DEF AvroFields
  <1>2. /\ AvroFields[1] = "event_type" /\ AvroFields[2] = "user_id" /\ AvroFields[3] = "name"
        /\ AvroFields[4] = "email" /\ AvroFields[5] = "age" /\ AvroFields[6] = "timestamp"
        /\ AvroFields[7] = "event_id"
    BY DEF AvroFields
  <1>3. \A n \in 1 .. 7 : n = 1 \/ n = 2 \/ n = 3 \/ n = 4 \/ n = 5 \/ n = 6 \/ n = 7
    OBVIOUS
  <1>4. \A n \in 1 .. 7 : AvroFields[n] \in Fields
    BY <1>2, <1>3 DEF Fields
  <1>5. \A f \in Fields : \E n \in 1 .. 7 : AvroFields[n] = f
    BY <1>2 DEF Fields
  <1>6. \A n, k \in 1 .. 7 : AvroFields[n] = AvroFields[k] => n = k
    BY <1>2, <1>3
  <1> QED
    BY <1>1, <1>4, <1>5, <1>6

(* A message written to the Avro topic decodes, wherever the registry knows *)
(* its schema, to the event that was published, cut to milliseconds: in     *)
(* particular with its event_id (codec.go: avroCodec).                      *)
THEOREM AvroRoundTrip ==
    ASSUME NEW e \in Events, NEW id \in Nat, NEW schemas,
           id \in DOMAIN schemas, schemas[id] = AvroFields
    PROVE  /\ AvroAccepts(schemas, AvroEncode(id, e))
           /\ AvroDecode(schemas, AvroEncode(id, e)) = CutToMillis(e)
  <1>1. AvroFields \in Seq(Fields)
    BY Places DEF AvroFields, Fields
  <1>2. /\ AvroAccepts(schemas, AvroEncode(id, e))
        /\ AvroDecode(schemas, AvroEncode(id, e)) =
              [f \in Fields |-> IF \E n \in 1 .. Len(AvroFields) : AvroFields[n] = f
                                THEN CutToMillis(e)[f] ELSE Zero(f)]
    BY <1>1, Places, AnySchemaDecodes DEF AvroEncode
  <1>3. CutToMillis(e) = [f \in Fields |-> CutToMillis(e)[f]]
    BY FieldsOfEvents
  <1> QED
    BY <1>2, <1>3, Places

(* A message from before event_id was added to the schema decodes to an     *)
(* event without an id (codec.go: avroCodec).                               *)
LEMMA LegacyHasNoId ==
    ASSUME NEW e \in Events, NEW id \in Nat, NEW schemas,
           id \in DOMAIN schemas, schemas[id] = LegacyFields
    PROVE  AvroDecode(schemas, AvroWrite(LegacyFields, id, e)).event_id = Empty
  <1>1. LegacyFields \in Seq(Fields) /\ Len(LegacyFields) = 6 /\ DOMAIN LegacyFields = 1 .. 6
    BY DEF LegacyFields, Fields
  <1>2. \A n, k \in 1 .. 6 : LegacyFields[n] = LegacyFields[k] => n = k
    BY DEF LegacyFields
  <1>3. \A n \in 1 .. 6 : LegacyFields[n] \in Fields \ {"event_id"}
    BY DEF LegacyFields, Fields
  <1>4. /\ AvroAccepts(schemas, AvroWrite(LegacyFields, id, e))
        /\ AvroDecode(schemas, AvroWrite(LegacyFields, id, e)) =
              [f \in Fields |-> IF \E n \in 1 .. Len(LegacyFields) : LegacyFields[n] = f
                                THEN CutToMillis(e)[f] ELSE Zero(f)]
    BY <1>1, <1>2, <1>3, AnySchemaDecodes
  <1> QED
    BY <1>1, <1>3, <1>4 DEF Fields, Zero

------------------------------------------------------------------------------
LEMMA TypeNames == \A t \in Types : EventTypeName(EventTypeValue[t]) = t
  <1>1. \A t, s \in Types : EventTypeValue[t] = EventTypeValue[s] => t = s
    BY DEF Types, EventTypeValue
  <1> QED
    BY <1>1 DEF EventTypeName

(* A message written to the Protobuf topic decodes to the event that was    *)
(* published, to the nanosecond (codec.go: protoCodec).                     *)
THEOREM ProtoRoundTrip ==
    ASSUME NEW e \in Events, NEW id \in Nat
    PROVE  /\ ProtoAccepts(ProtoEncode(id, e))
           /\ ProtoDecode(ProtoEncode(id, e)) = e
  <1> DEFINE present == {f \in Fields : f = "timestamp" \/ ProtoValue(e, f) # ProtoZero(f)}
             payload == [f \in present |-> ProtoValue(e, f)]
             data == ProtoEncode(id, e)
             value == [f \in Fields |-> IF f \in DOMAIN payload THEN payload[f] ELSE ProtoZero(f)]
  <1>1. Framed(data) /\ data.rest = <<ProtoMessageIdx0>> \o <<payload>>
    BY Header DEF ProtoEncode
  <1>2. Len(data.rest) = 2 /\ data.rest[1] = ProtoMessageIdx0 /\ data.rest[2] = payload
    <2> HIDE DEF payload
    <2> DEFINE S == {ProtoMessageIdx0, payload}
    <2>1. <<ProtoMessageIdx0>> \in Seq(S) /\ <<payload>> \in Seq(S)
      OBVIOUS
    <2> HIDE DEF S
    <2>2. /\ Len(<<ProtoMessageIdx0>> \o <<payload>>) = 2
          /\ (<<ProtoMessageIdx0>> \o <<payload>>)[1] = ProtoMessageIdx0
          /\ (<<ProtoMessageIdx0>> \o <<payload>>)[2] = payload
      BY <2>1, ConcatProperties
    <2> QED
      BY <1>1, <2>2
  <1>3. "timestamp" \in DOMAIN payload
    BY DEF Fields
  <1>4. payload # BadPayload
    <2>1. DOMAIN BadPayload = {"no"}
      BY DEF BadPayload
    <2> QED
      BY <1>3, <2>1
  <1>5. \A f \in Fields : value[f] = ProtoValue(e, f)
    OBVIOUS
  <1>6. ProtoDecode(data) = [value EXCEPT !["event_type"] = EventTypeName(@)]
    BY <1>2 DEF ProtoDecode
  <1>7. [value EXCEPT !["event_type"] = EventTypeName(@)] = [f \in Fields |-> e[f]]
    <2>1. "event_type" \in Fields
      BY DEF Fields
    <2>2. DOMAIN value = Fields
      OBVIOUS
    <2> HIDE DEF value
    <2>3. EventTypeName(value["event_type"]) = e["event_type"]
      BY <1>5, <2>1, TypeNames, FieldsOfEvents DEF ProtoValue
    <2>4. \A f \in Fields \ {"event_type"} : value[f] = e[f]
      BY <1>5 DEF ProtoValue
    <2> QED
      BY <2>1, <2>2, <2>3, <2>4
  <1> QED
    BY <1>1, <1>2, <1>4, <1>6, <1>7, FieldsOfEvents DEF ProtoAccepts
================================================================================
