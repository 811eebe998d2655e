---------------------------- MODULE PipelineProofs ----------------------------
(***************************************************************************)
(* Proofs about Pipeline, for any requests, users, texts, times, backlog   *)
(* and table to start with, and any number of copies and failures.         *)
(***************************************************************************)
EXTENDS Pipeline, UserServiceProofs, CodecProofs

------------------------------------------------------------------------------
(* What the wire holds.                                                     *)

\* How many messages have been in a topic, and have been published to it since.
OldLen(f, u) == Len(Backlog[f][u])
NewLen(f, u) == Len(topic[f][u])

\* The topics as messages: the backlog, then what has been published, encoded.
LogFits ==
    \A f \in P!Formats, u \in UserIds :
        log[f][u] = [n \in 1 .. OldLen(f, u) + NewLen(f, u) |-> Seen(f, Wire(f, u, n))]

\* A request whose write has committed has written some user.
StoredFits == \A r \in ToSet(stored) : Id(r) \in UserIds /\ call[r].op \in Writes

\* The followed group has handled messages of the log, and counts its commits.
DeliveryFits ==
    /\ group \in P!Formats
    /\ \A u \in UserIds, o \in Nat :
          <<group, u, o>> \in handled => o < OldLen(group, u) + NewLen(group, u)
    /\ applied \in [P!Formats \X Requests -> Nat]
    /\ view = [u \in UserIds |-> view[u]]

Known(u, r) ==
    IF view[u].state = "deleted" THEN call[r].op = "delete"
    ELSE /\ call[r].op # "delete"
         /\ view[u] = [state |-> "live", name |-> user[r].name, email |-> user[r].email]

\* ViewsEarned, in terms that do not change any more.
ViewsKnown ==
    \A u \in UserIds : view[u] # Seed[u] =>
        \E r \in ToSet(stored) : Id(r) = u /\ Known(u, r)

\* An event whose request works on some user is one, and does not change any more.
LEMMA EventType ==
    ASSUME Basics, NEW r \in Requests, writing[r] # "idle"
    PROVE  EventOf(r) \in Events /\ Id(r) \in UserIds /\ call[r].op \in Writes
<1>1. Id(r) \in UserIds /\ call[r].op \in Writes
  BY DEF Basics, Control, PublicationFits
<1>2. user[r] \in [id : UserIds, name : Names, email : Emails]
  BY <1>1, ServiceAssumption DEF Basics, TypeOK, Id, NoSnapshot
<1>3. TypeOf(call[r]) \in Types
  BY <1>1 DEF TypeOf, Types, Writes
<1>4. /\ r \in Texts /\ Id(r) \in Texts /\ user[r].name \in Texts /\ user[r].email \in Texts
      /\ Now[r] \in Nat
  BY <1>1, <1>2, PipelineAssumption
<1> QED
  BY <1>1, <1>3, <1>4 DEF EventOf, Events

LEMMA EventStays ==
    ASSUME Basics, Next, NEW r \in Requests, writing[r] # "idle"
    PROVE  EventOf(r)' = EventOf(r)
<1>1. Id(r) \in UserIds /\ stage[r] # "new"
  BY DEF Basics, Control, PublicationFits
<1> QED
  BY <1>1, Frozen, ServiceAssumption DEF EventOf, TypeOf, Id

\* A publication crosses the wire under its id, with what it tells of its user.
LEMMA EventArrives ==
    ASSUME NEW f \in P!Formats, NEW e \in Events
    PROVE  /\ Accepts(f, Encode(f, e))
           /\ Decode(f, Encode(f, e)).event_id = e.event_id
           /\ Told(Decode(f, Encode(f, e))) = Told(e)
<1>1. CASE f = "avro"
  <2>1. AvroId \in DOMAIN Registry /\ Registry[AvroId] = AvroFields /\ AvroId \in Nat
    BY DEF AvroId, LegacyId, Registry
  <2>2. /\ AvroAccepts(Registry, AvroEncode(AvroId, e))
        /\ AvroDecode(Registry, AvroEncode(AvroId, e)) = CutToMillis(e)
    BY <2>1, AvroRoundTrip
  <2>3. /\ CutToMillis(e).event_id = e.event_id /\ CutToMillis(e).event_type = e.event_type
        /\ CutToMillis(e).name = e.name /\ CutToMillis(e).email = e.email
    BY FieldsOfEvents DEF Fields
  <2> QED
    BY <1>1, <2>2, <2>3 DEF Accepts, Decode, Encode, Told
<1>2. CASE f = "proto"
  BY <1>2, ProtoRoundTrip DEF Accepts, Decode, Encode, ProtoId
<1> QED
  BY <1>1, <1>2 DEF P!Formats

(* What was in the topics before shows no event id: garbage is not accepted,*)
(* and an event without an id decodes to one, whatever its writer's schema. *)
LEMMA BacklogHasNoId ==
    ASSUME NEW f \in P!Formats, NEW m \in OldMessages
    PROVE  Seen(f, EncodeOld(f, m)).event = Empty
<1>1. CASE m = Garbage
  <2>1. ~Accepts(f, BadFrame)
    BY DEF Accepts, AvroAccepts, ProtoAccepts, BadFrame, Framed, MagicByte
  <2> QED
    BY <1>1, <2>1 DEF EncodeOld, Seen
<1>2. CASE m \in Events /\ m.event_id = Empty /\ f = "avro"
  <2>1. EncodeOld(f, m) = AvroWrite(LegacyFields, LegacyId, m)
    BY <1>2, PipelineAssumption DEF EncodeOld
  <2>2. /\ LegacyId \in Nat /\ LegacyId \in DOMAIN Registry
        /\ Registry[LegacyId] = LegacyFields
    BY DEF LegacyId, AvroId, Registry
  <2>3. AvroDecode(Registry, AvroWrite(LegacyFields, LegacyId, m)).event_id = Empty
    BY <1>2, <2>2, LegacyHasNoId
  <2> QED
    BY <1>2, <2>1, <2>3 DEF Seen, Decode
<1>3. CASE m \in Events /\ m.event_id = Empty /\ f = "proto"
  <2>1. EncodeOld(f, m) = ProtoEncode(ProtoId, m)
    BY <1>3, PipelineAssumption DEF EncodeOld
  <2>2. ProtoDecode(ProtoEncode(ProtoId, m)) = m
    BY <1>3, ProtoRoundTrip DEF ProtoId
  <2> QED
    BY <1>3, <2>1, <2>2 DEF Seen, Decode
<1>4. (f = "avro" \/ f = "proto") /\ (m = Garbage \/ (m \in Events /\ m.event_id = Empty))
  BY DEF P!Formats, OldMessages
<1> QED
  BY <1>1, <1>2, <1>3, <1>4

------------------------------------------------------------------------------
(* The messages of the log.                                                 *)

LEMMA Backlogs ==
    ASSUME NEW f \in P!Formats, NEW u \in UserIds
    PROVE  OldLen(f, u) \in Nat /\ \A n \in 1 .. OldLen(f, u) : Backlog[f][u][n] \in OldMessages
<1>1. Backlog[f][u] \in Seq(OldMessages)
  BY PipelineAssumption
<1> QED
  BY <1>1, PipelineAssumption DEF OldLen

\* What stands in a topic is a publication about its user.
LEMMA Publications ==
    ASSUME Basics, TopicInv, NEW f \in P!Formats, NEW u \in UserIds
    PROVE  /\ NewLen(f, u) \in Nat
           /\ \A n \in 1 .. NewLen(f, u) :
                 /\ topic[f][u][n] \in Requests /\ writing[topic[f][u][n]] # "idle"
                 /\ Id(topic[f][u][n]) = u
<1>1. topic[f][u] \in Seq(Requests) /\ NewLen(f, u) \in Nat
  BY DEF Basics, TypeOK, P!TypeOK, NewLen
<1>2. ASSUME NEW n \in 1 .. NewLen(f, u)
      PROVE  topic[f][u][n] \in Requests /\ topic[f][u][n] \in ToSet(topic[f][u])
  BY <1>1, <1>2 DEF NewLen, ToSet
<1> QED
  BY <1>1, <1>2 DEF TopicInv, TopicFits, Basics, Control, PublicationFits

\* Where the n-th message of the wire has its place in the log, and what it shows.
LEMMA WireMessage ==
    ASSUME LogFits, Basics, TopicInv, NEW f \in P!Formats, NEW u \in UserIds
    PROVE  /\ Len(log[f][u]) = OldLen(f, u) + NewLen(f, u)
           /\ \A n \in 1 .. OldLen(f, u) + NewLen(f, u) : log[f][u][n] = Seen(f, Wire(f, u, n))
<1> DEFINE N == OldLen(f, u) + NewLen(f, u)
           seen == [n \in 1 .. N |-> Seen(f, Wire(f, u, n))]
           S == {Seen(f, Wire(f, u, n)) : n \in 1 .. N}
<1>1. N \in Nat
  BY Backlogs, Publications
<1>2. log[f][u] = seen
  BY DEF LogFits
<1>3. seen \in Seq(S) /\ Len(seen) = N
  <2> HIDE DEF N
  <2> QED
    BY <1>1
<1> QED
  BY <1>2, <1>3

LEMMA OldMessage ==
    ASSUME LogFits, Basics, TopicInv, NEW f \in P!Formats, NEW u \in UserIds,
           NEW n \in 1 .. OldLen(f, u)
    PROVE  log[f][u][n].event = Empty
<1>1. n \in 1 .. OldLen(f, u) + NewLen(f, u)
  BY Backlogs, Publications
<1>2. log[f][u][n] = Seen(f, EncodeOld(f, Backlog[f][u][n]))
  BY <1>1, WireMessage DEF Wire, OldLen
<1>3. Backlog[f][u][n] \in OldMessages
  BY Backlogs
<1> QED
  BY <1>2, <1>3, BacklogHasNoId

LEMMA NewMessage ==
    ASSUME LogFits, Basics, TopicInv, NEW f \in P!Formats, NEW u \in UserIds,
           NEW n \in 1 .. NewLen(f, u)
    PROVE  LET k == OldLen(f, u) + n
               r == topic[f][u][n] IN
           /\ k \in 1 .. Len(log[f][u]) /\ r \in Requests
           /\ log[f][u][k].event = r
           /\ Told(Decode(f, Wire(f, u, k))) = Told(EventOf(r))
<1> DEFINE k == OldLen(f, u) + n
           r == topic[f][u][n]
           e == EventOf(r)
<1>1. /\ k \in 1 .. OldLen(f, u) + NewLen(f, u)
      /\ k - OldLen(f, u) = n /\ ~(k <= OldLen(f, u))
  BY Backlogs, Publications
<1>2. Wire(f, u, k) = Encode(f, e)
  BY <1>1 DEF Wire, OldLen
<1>3. r \in Requests /\ e \in Events /\ e.event_id = r
  BY Publications, EventType DEF EventOf
<1>4. log[f][u][k] = Seen(f, Encode(f, e)) /\ k \in 1 .. Len(log[f][u])
  BY <1>1, <1>2, WireMessage
<1> HIDE DEF e, k, r
<1>5. log[f][u][k].event = r /\ Told(Decode(f, Wire(f, u, k))) = Told(e)
  BY <1>2, <1>3, <1>4, EventArrives DEF Seen
<1> QED
  BY <1>3, <1>4, <1>5 DEF e, k, r

\* A message with an id is a publication's.
LEMMA MessageWithId ==
    ASSUME LogFits, Basics, TopicInv, NEW u \in UserIds, group \in P!Formats,
           NEW o \in Offsets(u), D!Message(group, u, o).event # Empty
    PROVE  LET r == D!Message(group, u, o).event IN
           /\ r \in Requests /\ writing[r] # "idle" /\ Id(r) = u
           /\ Told(Decode(group, Wire(group, u, o + 1))) = Told(EventOf(r))
           /\ \E n \in 1 .. NewLen(group, u) :
                 topic[group][u][n] = r /\ o + 1 = OldLen(group, u) + n
<1> DEFINE n == o + 1 - OldLen(group, u)
<1>1. o \in Nat /\ o + 1 \in 1 .. OldLen(group, u) + NewLen(group, u)
  BY WireMessage, Backlogs, Publications DEF Offsets
<1>2. o + 1 \notin 1 .. OldLen(group, u)
  BY OldMessage DEF D!Message
<1>3. n \in 1 .. NewLen(group, u) /\ OldLen(group, u) + n = o + 1
  BY <1>1, <1>2, Backlogs, Publications
<1> QED
  BY <1>3, NewMessage, Publications DEF D!Message
------------------------------------------------------------------------------
(* The producing side goes its way, whatever the consumers do.              *)

LEMMA PipelineProduces ==
    AllSpec => Spec
<1>1. AllInit => Init
  BY DEF AllInit
<1>2. [AllNext]_allVars => [Next]_vars
  BY DEF AllNext, Apply, Handle, allVars
<1> QED
  BY <1>1, <1>2, PTL DEF AllSpec, Spec

\* What is known to be so of the producing side.
Producing == Basics /\ TopicInv /\ EarnedInv

LEMMA ProducingAlways ==
    AllSpec => []Producing
<1>1. Basics /\ TopicInv /\ EarnedInv => Producing
  BY DEF Producing
<1> QED
  BY <1>1, PipelineProduces, BasicsAlways, TopicsAlways, EarnedAlways, PTL

\* A step of a request, and what it appends to the log.
Produce ==
    /\ Next
    /\ log' = [f \in P!Formats |-> [u \in UserIds |->
                  log[f][u] \o [n \in DOMAIN New(f, u) |->
                                  Seen(f, Encode(f, EventOf(New(f, u)[n])))]]]
    /\ UNCHANGED <<group, handled, failed, applied, view>>

\* A step of the consumers.
Consume == \E u \in UserIds : \E o \in Offsets(u) : Apply(u, o) \/ Handle(u, o)

LEMMA PipelineSteps ==
    ASSUME [AllNext]_allVars
    PROVE  Produce \/ Consume \/ UNCHANGED allVars
  BY DEF AllNext, Produce, Consume

\* A request that works on a user does so for ever.
LEMMA WorkStays ==
    ASSUME Basics, Next, NEW r \in Requests, Id(r) \in UserIds
    PROVE  call'[r] = call[r] /\ user'[r] = user[r] /\ Id(r)' = Id(r)
<1>1. stage[r] # "new"
  BY ServiceAssumption DEF Basics, Control, CallFits, NoSnapshot, Id
<1>2. user'[r] = user[r] /\ call'[r] = call[r]
  BY <1>1, Frozen, ServiceAssumption
<1> QED
  BY <1>2 DEF Id

LEMMA StoredFitsStep ==
    ASSUME Basics, StoredFits, [Next]_vars
    PROVE  StoredFits'
<1>1. CASE UNCHANGED vars
  BY <1>1 DEF vars, tableVars, requestVars, StoredFits, Id
<1>2. CASE Next
  <2>1. \A r \in ToSet(stored') : r \in Requests /\ Id(r) \in UserIds /\ call[r].op \in Writes
    <3>1. stored \in Seq(Requests)
      BY DEF Basics, TypeOK
    <3>2. CASE UNCHANGED <<row, stored>>
      BY <3>1, <3>2 DEF StoredFits, ToSet
    <3>3. ASSUME NEW q \in Requests, Pending(q), q \in doubt \/ Hits(q), stored' = Append(stored, q)
          PROVE  <2>1
      <4>1. Id(q) \in UserIds /\ call[q].op \in Writes
        BY <3>3, WrittenType
      <4>2. \A r \in ToSet(stored') : r \in ToSet(stored) \/ r = q
        BY <3>1, <3>3 DEF ToSet
      <4>3. \A r \in ToSet(stored) : r \in Requests
        BY <3>1 DEF ToSet
      <4> QED
        BY <3>3, <4>1, <4>2, <4>3 DEF StoredFits
    <3> QED
      BY <1>2, <3>2, <3>3, TableSteps DEF RowStep
  <2> QED
    BY <1>2, <2>1, WorkStays DEF StoredFits
<1> QED
  BY <1>1, <1>2
------------------------------------------------------------------------------
(* The log holds what has been published.                                   *)

LEMMA ConcatIs ==
    ASSUME NEW S, NEW s \in Seq(S), NEW t \in Seq(S)
    PROVE  s \o t = [n \in 1 .. Len(s) + Len(t) |-> IF n <= Len(s) THEN s[n] ELSE t[n - Len(s)]]
<1> DEFINE c == s \o t
           d == [n \in 1 .. Len(s) + Len(t) |-> IF n <= Len(s) THEN s[n] ELSE t[n - Len(s)]]
<1>1. /\ c \in Seq(S) /\ Len(c) = Len(s) + Len(t)
      /\ \A n \in 1 .. Len(s) + Len(t) : c[n] = IF n <= Len(s) THEN s[n] ELSE t[n - Len(s)]
  BY ConcatProperties
<1>2. c = [n \in 1 .. Len(c) |-> c[n]]
  <2> HIDE DEF c
  <2> QED
    BY <1>1
<1> QED
  BY <1>1, <1>2

\* What a step appends to a topic is published already, and it appends nothing else.
LEMMA NewPublications ==
    ASSUME Basics, Next, NEW f \in P!Formats, NEW u \in UserIds
    PROVE  /\ NewLen(f, u)' \in Nat /\ NewLen(f, u) <= NewLen(f, u)'
           /\ New(f, u) \in Seq(Requests) /\ Len(New(f, u)) = NewLen(f, u)' - NewLen(f, u)
           /\ \A n \in 1 .. Len(New(f, u)) :
                 /\ New(f, u)[n] = topic'[f][u][NewLen(f, u) + n]
                 /\ New(f, u)[n] \in Requests /\ writing[New(f, u)[n]] # "idle"
<1> DEFINE t == topic[f][u]
           tt == topic'[f][u]
<1>1. /\ t \in Seq(Requests) /\ tt \in Seq(Requests) /\ Len(t) <= Len(tt)
      /\ NewLen(f, u) = Len(t) /\ NewLen(f, u)' = Len(tt)
  BY TopicGrows DEF NewLen
<1>2. \A i \in 1 .. Len(tt) : i > Len(t) => tt[i] \in Requests /\ writing[tt[i]] # "idle"
  <2> SUFFICES ASSUME NEW i \in 1 .. Len(tt), i > Len(t)
               PROVE  tt[i] \in Requests /\ writing[tt[i]] # "idle"
    OBVIOUS
  <2>1. tt[i] \in Requests /\ (writing[tt[i]] = f \/ <<f, tt[i]>> \in flying)
    BY TopicGrows
  <2> QED
    BY <2>1 DEF Basics, Control, PublicationFits, P!Formats
<1>3. /\ New(f, u) \in Seq(Requests) /\ Len(New(f, u)) = Len(tt) - Len(t)
      /\ \A n \in 1 .. Len(New(f, u)) : New(f, u)[n] = tt[Len(t) + n]
  <2> HIDE DEF t, tt
  <2>1. New(f, u) = SubSeq(tt, Len(t) + 1, Len(tt))
    BY DEF New, t, tt
  <2> QED
    BY <1>1, <2>1
<1> HIDE DEF t, tt
<1>4. \A n \in 1 .. Len(New(f, u)) : Len(t) + n \in 1 .. Len(tt) /\ Len(t) + n > Len(t)
  BY <1>1, <1>3
<1>5. \A n \in 1 .. Len(New(f, u)) : New(f, u)[n] \in Requests /\ writing[New(f, u)[n]] # "idle"
  BY <1>2, <1>3, <1>4
<1> QED
  BY <1>1, <1>3, <1>5 DEF t, tt

\* A message that is in the log when a step is made is still the same after it.
LEMMA WireStays ==
    ASSUME Basics, TopicInv, Next, NEW f \in P!Formats, NEW u \in UserIds,
           NEW n \in 1 .. OldLen(f, u) + NewLen(f, u)
    PROVE  Wire(f, u, n)' = Wire(f, u, n)
<1>1. CASE n <= OldLen(f, u)
  BY <1>1 DEF Wire, OldLen
<1>2. CASE ~(n <= OldLen(f, u))
  <2> DEFINE i == n - OldLen(f, u)
  <2>1. i \in 1 .. NewLen(f, u)
    BY <1>2, Backlogs, Publications
  <2>2. topic[f][u][i] \in Requests /\ writing[topic[f][u][i]] # "idle"
    BY <2>1, Publications
  <2>3. topic'[f][u][i] = topic[f][u][i]
    BY <2>1, TopicGrows DEF NewLen
  <2>4. PICK r \in Requests : r = topic[f][u][i] /\ writing[r] # "idle"
    BY <2>2
  <2>5. Wire(f, u, n) = Encode(f, EventOf(r))
    BY <1>2, <2>4 DEF Wire, OldLen
  <2>6. Wire(f, u, n)' = Encode(f, EventOf(r)')
    <3>1. Wire(f, u, n)' = Encode(f, EventOf(topic[f][u][i])')
      BY <1>2 DEF Wire, OldLen, Encode
    <3>2. EventOf(topic[f][u][i])' = EventOf(r)'
      BY <2>3, <2>4 DEF EventOf, TypeOf, Id
    <3> QED
      BY <3>1, <3>2
  <2>7. EventOf(r)' = EventOf(r)
    BY <2>4, EventStays
  <2> QED
    BY <2>5, <2>6, <2>7
<1> QED
  BY <1>1, <1>2

LEMMA LogFitsStep ==
    ASSUME Basics, TopicInv, LogFits, Produce
    PROVE  LogFits'
<1> SUFFICES ASSUME NEW f \in P!Formats, NEW u \in UserIds
             PROVE  log'[f][u] = [n \in 1 .. OldLen(f, u) + NewLen(f, u)' |->
                                    Seen(f, Wire(f, u, n)')]
  BY DEF LogFits, OldLen, Seen, Accepts, Decode
<1> DEFINE L == log[f][u]
           N == OldLen(f, u) + NewLen(f, u)
           A == [n \in DOMAIN New(f, u) |-> Seen(f, Encode(f, EventOf(New(f, u)[n])))]
           K == Len(New(f, u))
           S == {Seen(f, Wire(f, u, n)) : n \in 1 .. N} \union
                {Seen(f, Encode(f, EventOf(New(f, u)[n]))) : n \in 1 .. K}
           seen(n) == Seen(f, Wire(f, u, n)')
<1>1. /\ OldLen(f, u) \in Nat /\ NewLen(f, u) \in Nat /\ NewLen(f, u)' \in Nat
      /\ K = NewLen(f, u)' - NewLen(f, u) /\ K \in Nat /\ N \in Nat
      /\ New(f, u) \in Seq(Requests)
  BY Backlogs, Publications, NewPublications DEF Produce
<1>2. log'[f][u] = L \o A
  BY DEF Produce
<1>3. L = [n \in 1 .. N |-> Seen(f, Wire(f, u, n))]
  BY DEF LogFits
<1>4. DOMAIN New(f, u) = 1 .. K
  BY <1>1
<1>5. L \in Seq(S) /\ Len(L) = N
  <2> HIDE DEF N
  <2> QED
    BY <1>1, <1>3
<1>6. A \in Seq(S) /\ Len(A) = K
  <2> HIDE DEF K
  <2> QED
    BY <1>1, <1>4
<1>7. L \o A = [n \in 1 .. N + K |-> IF n <= N THEN L[n] ELSE A[n - N]]
  <2> HIDE DEF L, A, N, K, S
  <2> QED
    <3>1. L \o A = [n \in 1 .. Len(L) + Len(A) |-> IF n <= Len(L) THEN L[n] ELSE A[n - Len(L)]]
      BY <1>5, <1>6, ConcatIs
    <3> QED
      BY <1>5, <1>6, <3>1
<1>8. \A n \in 1 .. N : L[n] = seen(n)
  BY <1>3, WireStays DEF Produce
<1>9. \A n \in 1 .. N + K : ~(n <= N) => A[n - N] = seen(n)
  <2> SUFFICES ASSUME NEW n \in 1 .. N + K, ~(n <= N)
               PROVE  A[n - N] = seen(n)
    OBVIOUS
  <2> DEFINE i == n - N
  <2>1. /\ i \in 1 .. K /\ ~(n <= OldLen(f, u))
        /\ n - OldLen(f, u) = NewLen(f, u) + i
    <3> DEFINE old == OldLen(f, u)
               published == NewLen(f, u)
    <3>1. old \in Nat /\ published \in Nat /\ K \in Nat
      BY <1>1
    <3>2. n \in 1 .. old + published + K /\ ~(n <= old + published)
      OBVIOUS
    <3> HIDE DEF K, old, published
    <3>3. /\ n - (old + published) \in 1 .. K /\ ~(n <= old)
          /\ n - old = published + (n - (old + published))
      BY <3>1, <3>2
    <3> QED
      BY <3>3 DEF old, published
  <2>2. PICK r \in Requests : /\ r = New(f, u)[i] /\ r = topic'[f][u][NewLen(f, u) + i]
                              /\ writing[r] # "idle"
    BY <2>1, NewPublications DEF Produce
  <2>3. EventOf(r)' = EventOf(r)
    BY <2>2, EventStays DEF Produce
  <2>4. A[i] = Seen(f, Encode(f, EventOf(r)))
    BY <1>4, <2>1, <2>2
  <2>5. Wire(f, u, n)' = Encode(f, EventOf(r)')
    <3>1. Wire(f, u, n)' = Encode(f, EventOf(topic[f][u][n - OldLen(f, u)])')
      BY <2>1 DEF Wire, OldLen, Encode
    <3>2. EventOf(topic[f][u][n - OldLen(f, u)])' = EventOf(r)'
      BY <2>1, <2>2 DEF EventOf, TypeOf, Id
    <3> QED
      BY <3>1, <3>2
  <2> QED
    BY <2>3, <2>4, <2>5
<1>10. N + K = OldLen(f, u) + NewLen(f, u)'
  <2> HIDE DEF K
  <2> QED
    BY <1>1
<1> HIDE DEF L, A, N, K, seen
<1>11. log'[f][u] = [n \in 1 .. N + K |-> seen(n)]
  BY <1>2, <1>7, <1>8, <1>9, <1>1
<1> QED
  BY <1>10, <1>11 DEF seen
\* A step of the consumers leaves the log and all that it stands for alone.
LEMMA ConsumeKeeps ==
    ASSUME Consume
    PROVE  UNCHANGED <<vars, group, log>>
  BY DEF Consume, Apply, Handle, D!Apply, D!Handle, D!Fail

LEMMA LogFitsAlways ==
    AllSpec => []LogFits
<1>1. AllInit => LogFits
  <2> SUFFICES ASSUME AllInit, NEW f \in P!Formats, NEW u \in UserIds
               PROVE  log[f][u] = [n \in 1 .. OldLen(f, u) + NewLen(f, u) |->
                                     Seen(f, Wire(f, u, n))]
    BY DEF LogFits
  <2>1. OldLen(f, u) + NewLen(f, u) = OldLen(f, u) /\ DOMAIN Backlog[f][u] = 1 .. OldLen(f, u)
    <3>1. Backlog[f][u] \in Seq(OldMessages) /\ OldLen(f, u) \in Nat
      BY PipelineAssumption DEF OldLen
    <3>2. NewLen(f, u) = 0
      BY DEF AllInit, Init, P!Init, NewLen
    <3> QED
      BY <3>1, <3>2 DEF OldLen
  <2>2. \A n \in 1 .. OldLen(f, u) : Wire(f, u, n) = EncodeOld(f, Backlog[f][u][n])
    BY <2>1 DEF Wire, OldLen
  <2>3. log[f][u] = [n \in 1 .. OldLen(f, u) |-> Seen(f, EncodeOld(f, Backlog[f][u][n]))]
    BY <2>1 DEF AllInit
  <2> QED
    BY <2>1, <2>2, <2>3
<1>2. LogFits /\ Producing /\ [AllNext]_allVars => LogFits'
  <2> SUFFICES ASSUME LogFits, Producing, [AllNext]_allVars PROVE LogFits'
    OBVIOUS
  <2>1. CASE Produce
    BY <2>1, LogFitsStep DEF Producing
  <2>2. CASE UNCHANGED <<vars, group, log>>
    <3> SUFFICES ASSUME NEW f \in P!Formats, NEW u \in UserIds
                 PROVE  log[f][u]' = [n \in 1 .. OldLen(f, u) + NewLen(f, u)' |->
                                        Seen(f, Wire(f, u, n)')]
      BY DEF LogFits, OldLen, Seen, Accepts, Decode
    <3>1. topic' = topic /\ call' = call /\ user' = user /\ log' = log
      BY <2>2 DEF vars, requestVars, producerVars
    <3>2. NewLen(f, u)' = NewLen(f, u)
      BY <3>1 DEF NewLen
    <3>3. \A n : Wire(f, u, n)' = Wire(f, u, n)
      <4> SUFFICES ASSUME NEW n PROVE Wire(f, u, n)' = Wire(f, u, n)
        OBVIOUS
      <4>1. EventOf(topic[f][u][n - OldLen(f, u)])' = EventOf(topic[f][u][n - OldLen(f, u)])
        BY <3>1 DEF EventOf, TypeOf, Id
      <4> QED
        BY <4>1 DEF Wire, OldLen, Encode
    <3> QED
      BY <3>1, <3>2, <3>3 DEF LogFits
  <2> QED
    BY <2>1, <2>2, ConsumeKeeps, PipelineSteps DEF allVars, deliveryVars
<1> QED
  BY <1>1, <1>2, ProducingAlways, PTL DEF AllSpec

LEMMA StoredFitsAlways ==
    AllSpec => []StoredFits
<1>1. Init => StoredFits
  BY DEF Init, StoredFits, ToSet
<1>2. StoredFits /\ Basics /\ [Next]_vars => StoredFits'
  BY StoredFitsStep
<1>3. Spec => []StoredFits
  BY <1>1, <1>2, BasicsAlways, PTL DEF Spec
<1> QED
  BY <1>3, PipelineProduces, PTL

------------------------------------------------------------------------------
(* What the followed group does with the log.                               *)

LEMMA DeliveryFitsStep ==
    ASSUME Producing, LogFits, DeliveryFits, [AllNext]_allVars
    PROVE  DeliveryFits'
<1>1. CASE Produce
  <2>1. group' \in P!Formats /\ applied' = applied /\ handled' = handled /\ view' = view
        /\ group' = group
    BY <1>1 DEF Produce, DeliveryFits
  <2>2. ASSUME NEW u \in UserIds, NEW o \in Nat, <<group, u, o>> \in handled
        PROVE  o < OldLen(group, u) + NewLen(group, u)'
    <3>1. OldLen(group, u) \in Nat /\ NewLen(group, u) \in Nat
      BY Backlogs, Publications DEF Producing, DeliveryFits
    <3>2. NewLen(group, u)' \in Nat /\ NewLen(group, u) <= NewLen(group, u)'
      BY <1>1, <2>1, TopicGrows DEF Producing, Produce, NewLen, DeliveryFits
    <3> QED
      BY <2>2, <3>1, <3>2 DEF DeliveryFits
  <2> QED
    BY <2>1, <2>2 DEF DeliveryFits, OldLen, NewLen
<1>2. ASSUME NEW u \in UserIds, NEW o \in Offsets(u), Apply(u, o)
      PROVE  DeliveryFits'
  <2>1. applied' \in [P!Formats \X Requests -> Nat]
    BY <1>2 DEF Apply, D!Apply, DeliveryFits
  <2>2. view' = [v \in UserIds |-> view'[v]]
    BY <1>2 DEF Apply, DeliveryFits
  <2>3. group' = group /\ topic' = topic /\ handled' = handled
    BY <1>2 DEF Apply, D!Apply, vars, producerVars
  <2> QED
    BY <2>1, <2>2, <2>3 DEF DeliveryFits, OldLen, NewLen
<1>3. ASSUME NEW u \in UserIds, NEW o \in Offsets(u), Handle(u, o)
      PROVE  DeliveryFits'
  <2>1. UNCHANGED <<group, topic, view, applied>>
    BY <1>3 DEF Handle, D!Handle, D!Fail, vars, producerVars
  <2>2. handled' \subseteq handled \union {<<group, u, o>>}
    BY <1>3 DEF Handle, D!Handle, D!Fail
  <2>3. o < OldLen(group, u) + NewLen(group, u)
    BY <1>3, WireMessage DEF Handle, D!Handle, D!Fail, D!Met, Producing, DeliveryFits
  <2> QED
    BY <2>1, <2>2, <2>3 DEF DeliveryFits, OldLen, NewLen
<1>4. CASE UNCHANGED allVars
  BY <1>4 DEF allVars, deliveryVars, vars, producerVars, DeliveryFits, OldLen, NewLen
<1> QED
  BY <1>1, <1>2, <1>3, <1>4, PipelineSteps DEF Consume

LEMMA DeliveryFitsAlways ==
    AllSpec => []DeliveryFits
<1>1. AllInit => DeliveryFits
  BY ServiceAssumption DEF AllInit, DeliveryFits
<1>2. DeliveryFits /\ Producing /\ LogFits /\ [AllNext]_allVars => DeliveryFits'
  BY DeliveryFitsStep
<1> QED
  BY <1>1, <1>2, ProducingAlways, LogFitsAlways, PTL DEF AllSpec

\* A message that a step adds to the log has not been handled: it comes after all others.
LEMMA HandledStep ==
    ASSUME Producing, LogFits, DeliveryFits, HandledUnderItsId, [AllNext]_allVars
    PROVE  HandledUnderItsId'
<1>0. group' = group /\ group \in P!Formats
  <2>1. CASE Produce
    BY <2>1 DEF Produce, DeliveryFits
  <2> QED
    BY <2>1, PipelineSteps, ConsumeKeeps DEF allVars, DeliveryFits
<1> SUFFICES ASSUME NEW u \in UserIds, NEW n \in DOMAIN topic'[group][u],
                    <<group, u, OldLen(group, u) + n - 1>> \in handled'
             PROVE  applied'[<<group, topic'[group][u][n]>>] = 1
  BY <1>0 DEF HandledUnderItsId, OffsetOf, OldLen
<1> DEFINE o == OldLen(group, u) + n - 1
<1>1. /\ OldLen(group, u) \in Nat /\ NewLen(group, u) \in Nat
      /\ Len(log[group][u]) = OldLen(group, u) + NewLen(group, u)
      /\ DOMAIN topic[group][u] = 1 .. NewLen(group, u)
  <2>1. topic[group][u] \in Seq(Requests)
    BY <1>0 DEF Producing, Basics, TypeOK, P!TypeOK
  <2> QED
    BY <1>0, <2>1, Backlogs, Publications, WireMessage DEF Producing, NewLen
<1>2. <<group, u, o>> \in handled /\ n \in DOMAIN topic[group][u] =>
         applied[<<group, topic[group][u][n]>>] = 1
  BY DEF HandledUnderItsId, OffsetOf, OldLen
<1>3. CASE Produce
  <2>1. /\ topic'[group][u] \in Seq(Requests)
        /\ \A i \in 1 .. NewLen(group, u) : topic'[group][u][i] = topic[group][u][i]
    BY <1>0, <1>3, TopicGrows DEF Producing, Produce, NewLen
  <2>2. n \in Nat /\ n >= 1
    BY <2>1
  <2>3. o < OldLen(group, u) + NewLen(group, u)
    <3>1. o \in Nat /\ <<group, u, o>> \in handled
      BY <1>1, <1>3, <2>2 DEF Produce
    <3> QED
      BY <1>1, <3>1 DEF DeliveryFits
  <2>4. n \in 1 .. NewLen(group, u)
    BY <1>1, <2>2, <2>3
  <2> QED
    BY <1>1, <1>2, <1>3, <2>1, <2>4 DEF Produce
<1>4. CASE Consume
  <2>1. n \in DOMAIN topic[group][u] /\ topic' = topic
    BY <1>4, ConsumeKeeps DEF vars, producerVars
  <2>2. topic[group][u][n] \in Requests
    BY <1>0, <1>1, <2>1, Publications DEF Producing
  <2>3. ASSUME NEW v \in UserIds, NEW p \in Offsets(v), Apply(v, p)
        PROVE  applied'[<<group, topic[group][u][n]>>] = 1
    <3>1. handled' = handled
      BY <2>3 DEF Apply, D!Apply
    <3>2. applied[<<group, topic[group][u][n]>>] = 1
      BY <1>2, <2>1, <3>1
    <3> QED
      BY <1>0, <2>2, <2>3, <3>2 DEF Apply, D!Apply, DeliveryFits
  <2>4. ASSUME NEW v \in UserIds, NEW p \in Offsets(v), Handle(v, p)
        PROVE  applied'[<<group, topic[group][u][n]>>] = 1
    <3>1. applied' = applied
      BY <2>4 DEF Handle, D!Handle, D!Fail
    <3>2. CASE <<group, u, o>> \in handled
      BY <1>2, <2>1, <3>1, <3>2
    <3>3. CASE <<group, u, o>> \notin handled
      <4>1. D!Handle(group, v, p) /\ <<group, u, o>> = <<group, v, p>>
        BY <2>4, <3>3 DEF Handle, D!Handle, D!Fail
      <4>2. /\ OldLen(group, u) + n = o + 1
            /\ log[group][u][OldLen(group, u) + n].event = topic[group][u][n]
        BY <1>0, <1>1, <2>1, NewMessage DEF Producing
      <4>3. D!Message(group, v, p).event = topic[group][u][n]
        BY <4>1, <4>2 DEF D!Message
      <4> QED
        BY <2>2, <3>1, <4>1, <4>3, PipelineAssumption DEF D!Handle
    <3> QED
      BY <3>2, <3>3
  <2> QED
    BY <1>4, <2>1, <2>3, <2>4 DEF Consume
<1>5. CASE UNCHANGED allVars
  BY <1>2, <1>5 DEF allVars, deliveryVars, vars, producerVars
<1> QED
  BY <1>3, <1>4, <1>5, PipelineSteps

(* The work on a publication is committed exactly once when its message has *)
(* been handled: the id that publishEvent gave it is the one that the       *)
(* handler finds, through either codec, behind any backlog of garbage and   *)
(* of events without an id, and however often and late the message arrives. *)
THEOREM PublicationsKeepTheirId ==
    AllSpec => []HandledUnderItsId
<1>1. AllInit => HandledUnderItsId
  BY DEF AllInit, HandledUnderItsId
<1>2. HandledUnderItsId /\ Producing /\ LogFits /\ DeliveryFits /\ [AllNext]_allVars
      => HandledUnderItsId'
  BY HandledStep
<1> QED
  BY <1>1, <1>2, ProducingAlways, LogFitsAlways, DeliveryFitsAlways, PTL DEF AllSpec
------------------------------------------------------------------------------
(* What the followed group learns.                                          *)

\* What Apply teaches about the message's user has been so.
LEMMA Learnt ==
    ASSUME Producing, LogFits, DeliveryFits, StoredFits,
           NEW u \in UserIds, NEW o \in Offsets(u), Apply(u, o)
    PROVE  /\ \A v \in UserIds \ {u} : view'[v] = view[v]
           /\ \E r \in ToSet(stored) : Id(r) = u /\ Known(u, r)'
<1> DEFINE e == D!Message(group, u, o).event
<1>1. D!Message(group, u, o).event # Empty
  BY DEF Apply, D!Apply
<1>2. PICK r \in Requests : /\ r = e /\ writing[r] # "idle" /\ Id(r) = u
                            /\ Told(Decode(group, Wire(group, u, o + 1))) = Told(EventOf(r))
  BY <1>1, MessageWithId DEF Producing, DeliveryFits
<1>3. /\ view'[u] = Told(EventOf(r))
      /\ \A v \in UserIds \ {u} : view'[v] = view[v]
  <2>1. view' = [view EXCEPT ![u] = Told(EventOf(r))]
    BY <1>2 DEF Apply
  <2> QED
    BY <2>1 DEF DeliveryFits
<1>4. UNCHANGED <<call, user>>
  BY DEF Apply, vars, requestVars
<1>5. call[r].op \in Writes /\ Earned(r)
  BY <1>2, EventType DEF Producing, EarnedInv
<1>6. CASE call[r].op = "delete"
  <2>1. view'[u].state = "deleted"
    BY <1>3, <1>6 DEF Told, EventOf, TypeOf
  <2>2. PICK q \in ToSet(stored) : call[q].op = "delete" /\ Id(q) = u
    <3>1. CASE Stored(r)
      BY <1>2, <1>6, <3>1 DEF Stored
    <3>2. ASSUME NEW q \in Requests, Deletes(q, u), Stored(q)
          PROVE  q \in ToSet(stored) /\ call[q].op = "delete" /\ Id(q) = u
      <4>1. UserFits(q) /\ q \in ToSet(stored)
        BY <3>2 DEF Producing, Basics, Control, Stored
      <4> QED
        BY <3>2, <4>1 DEF Deletes, StoredFits, UserFits
    <3> QED
      BY <1>2, <1>5, <3>1, <3>2 DEF Earned
  <2> QED
    BY <1>3, <1>4, <2>1, <2>2 DEF Known
<1>7. CASE call[r].op # "delete"
  <2>1. r \in ToSet(stored)
    BY <1>5, <1>7 DEF Earned, Deletes, Stored
  <2>2. view'[u] = [state |-> "live", name |-> user[r].name, email |-> user[r].email]
    <3>1. TypeOf(call[r]) # "DELETED"
      BY <1>5, <1>7 DEF TypeOf, Writes
    <3> QED
      BY <1>3, <3>1 DEF Told, EventOf
  <2> QED
    BY <1>2, <1>3, <1>4, <1>7, <2>1, <2>2 DEF Known
<1> QED
  BY <1>6, <1>7

LEMMA ViewsKnownStep ==
    ASSUME Producing, LogFits, DeliveryFits, StoredFits, ViewsKnown, [AllNext]_allVars
    PROVE  ViewsKnown'
<1>1. CASE Produce
  <2> SUFFICES ASSUME NEW u \in UserIds, view'[u] # Seed[u]
               PROVE  \E r \in ToSet(stored') : Id(r)' = u /\ Known(u, r)'
    BY DEF ViewsKnown
  <2>1. view' = view
    BY <1>1 DEF Produce
  <2>2. PICK r \in ToSet(stored) : Id(r) = u /\ Known(u, r)
    BY <2>1 DEF ViewsKnown
  <2>3. r \in Requests /\ stored \in Seq(Requests)
    BY <2>2 DEF Producing, Basics, TypeOK, ToSet
  <2>4. call'[r] = call[r] /\ user'[r] = user[r] /\ Id(r)' = Id(r)
    BY <1>1, <2>2, <2>3, WorkStays DEF Producing, Produce
  <2>5. r \in ToSet(stored')
    BY <1>1, <2>2, <2>3, StoredStays DEF Producing, Produce, Stored
  <2> QED
    BY <2>1, <2>2, <2>4, <2>5 DEF Known
<1>2. ASSUME NEW u \in UserIds, NEW o \in Offsets(u), Apply(u, o)
      PROVE  ViewsKnown'
  <2>1. UNCHANGED <<stored, call, user>>
    BY <1>2 DEF Apply, vars, tableVars, requestVars
  <2>2. ASSUME NEW v \in UserIds \ {u}, view'[v] # Seed[v]
        PROVE  \E r \in ToSet(stored') : Id(r)' = v /\ Known(v, r)'
    <3>1. view'[v] = view[v]
      BY <1>2, Learnt
    <3>2. PICK r \in ToSet(stored) : Id(r) = v /\ Known(v, r)
      BY <2>2, <3>1 DEF ViewsKnown
    <3> QED
      BY <2>1, <3>1, <3>2 DEF Known, Id
  <2>3. \E r \in ToSet(stored') : Id(r)' = u /\ Known(u, r)'
    <3>1. PICK r \in ToSet(stored) : Id(r) = u /\ Known(u, r)'
      BY <1>2, Learnt
    <3> QED
      BY <2>1, <3>1 DEF Id
  <2> QED
    BY <2>2, <2>3 DEF ViewsKnown
<1>3. CASE UNCHANGED <<vars, view>>
  BY <1>3 DEF vars, tableVars, requestVars, ViewsKnown, Known, Id
<1>4. ASSUME NEW u \in UserIds, NEW o \in Offsets(u), Handle(u, o)
      PROVE  UNCHANGED <<vars, view>>
  BY <1>4 DEF Handle
<1> QED
  BY <1>1, <1>2, <1>3, <1>4, PipelineSteps DEF Consume, allVars

(* Consumers learn nothing that was not so: whatever a group knows of a     *)
(* live user was written by a request whose write has committed, and a user *)
(* is only known to be deleted after a committed delete. A lost COMMIT, a   *)
(* refused write or an event whose write to Kafka failed tells of nothing   *)
(* else, and both codecs keep the user's fields.                            *)
THEOREM ConsumersLearnWhatWasSo ==
    AllSpec => []ViewsEarned
<1>1. AllInit => ViewsKnown
  BY DEF AllInit, ViewsKnown
<1>2. ViewsKnown /\ Producing /\ LogFits /\ DeliveryFits /\ StoredFits /\ [AllNext]_allVars
      => ViewsKnown'
  BY ViewsKnownStep
<1>3. ViewsKnown => ViewsEarned
  BY DEF ViewsKnown, ViewsEarned, Known, Written
<1> QED
  BY <1>1, <1>2, <1>3, ProducingAlways, LogFitsAlways, DeliveryFitsAlways, StoredFitsAlways,
     PTL DEF AllSpec
------------------------------------------------------------------------------
(* What the followed group knows when all is quiet. One half is about the   *)
(* table: the row of a user is what the last of its writers has made it, as *)
(* long as they come one after the other. The other half is about the       *)
(* topic: the group knows what the last event says that it has worked off.  *)

\* The writers of u came one after the other, and none was cut short.
Orderly(u) ==
    \A r \in Writers(u) :
        stage[r] \notin Cut /\ \A q \in Writers(u) \ {r} : q \in before[r] \/ r \in before[q]

Wrote(u, r) == r \in Writers(u) /\ stage[r] \in {"publish", "ok"}

\* The row of u is what the last of its writers has made it, and what a delete has found.
RowFollows(u) ==
    /\ (\A r \in Requests : ~Wrote(u, r)) => row[u] = Seed[u]
    /\ \A r \in Requests :
          Wrote(u, r) /\ (\A q \in Requests \ {r} : Wrote(u, q) => q \in before[r])
          => row[u] = Told(EventOf(r))
    /\ \A r \in Writers(u) : stage[r] = "write" /\ call[r].op = "delete" =>
          /\ Live(u)
          /\ user[r].name = row[u].name /\ user[r].email = row[u].email

RowsFollow == \A u \in UserIds : Orderly(u) => RowFollows(u)

LEMMA WriterFits ==
    ASSUME Basics, NEW u \in UserIds, NEW r \in Writers(u)
    PROVE  /\ r \in Requests /\ stage[r] # "new" /\ call[r].op \in Writes
           /\ call[r].op # "create" => call[r].user = u
           /\ Id(r) \in UserIds => Id(r) = u
<1>1. r \in Requests /\ u \in {call[r].user, Id(r)} /\ call[r].op # "get"
  BY DEF Writers
<1>2. CallFits(r) /\ UserFits(r)
  BY <1>1 DEF Basics, Control
<1>3. stage[r] # "new"
  BY <1>1, <1>2, ServiceAssumption DEF CallFits, NoCall, NoSnapshot, Id
<1>4. call[r] \in Calls
  BY <1>2, <1>3 DEF CallFits
<1> QED
  BY <1>1, <1>2, <1>3, <1>4, CallShape, ServiceAssumption DEF UserFits, Writes

\* The same after a step, and the writer was one before unless it has just come.
LEMMA WriterFitsNext ==
    ASSUME Basics, Next, NEW u \in UserIds, NEW r \in Writers(u)'
    PROVE  /\ r \in Requests /\ stage'[r] # "new" /\ call'[r].op \in Writes
           /\ call'[r].op # "create" => call'[r].user = u
           /\ stage[r] \in {"write", "upsert", "publish", "ok"} => r \in Writers(u) /\ Id(r) = u
<1>1. r \in Requests /\ u \in {call'[r].user, Id(r)'} /\ call'[r].op # "get"
  BY DEF Writers, Id
<1>2. CallFits(r)' /\ UserFits(r)' /\ UserFits(r)
  BY <1>1, CallsFit, UsersFit DEF Basics, Control
<1>3. stage'[r] # "new"
  BY <1>1, <1>2, ServiceAssumption DEF CallFits, NoCall, NoSnapshot, Id
<1>4. call'[r] \in Calls
  BY <1>2, <1>3 DEF CallFits
<1>5. call'[r].op \in Writes /\ (call'[r].op # "create" => call'[r].user = u)
  BY <1>1, <1>2, <1>4, CallShape, ServiceAssumption DEF UserFits, Writes, Id
<1>6. ASSUME stage[r] \in {"write", "upsert", "publish", "ok"}
      PROVE  r \in Writers(u) /\ Id(r) = u
  <2>1. call'[r] = call[r]
    BY <1>1, <1>6, Frozen
  <2>2. Id(r) \in UserIds
    BY <1>2, <1>5, <1>6, <2>1 DEF UserFits, Writes
  <2>3. Id(r)' = Id(r)
    BY <1>1, <2>2, WorkStays
  <2>4. r \in Writers(u)
    BY <1>1, <2>1, <2>3 DEF Writers
  <2> QED
    BY <2>2, <2>4, WriterFits
<1> QED
  BY <1>1, <1>3, <1>5, <1>6

LEMMA WritersStay ==
    ASSUME Basics, Next, NEW u \in UserIds, NEW r \in Writers(u)
    PROVE  r \in Writers(u)' /\ call'[r] = call[r] /\ before'[r] = before[r]
<1>1. r \in Requests /\ stage[r] # "new"
  BY WriterFits
<1>2. call'[r] = call[r] /\ before'[r] = before[r]
  BY <1>1, Frozen
<1>3. Id(r) = u => Id(r)' = u
  BY <1>1, WorkStays
<1> QED
  BY <1>1, <1>2, <1>3 DEF Writers, Id

LEMMA OrderlyBefore ==
    ASSUME Basics, Next, NEW u \in UserIds, Orderly(u)'
    PROVE  Orderly(u)
<1> SUFFICES ASSUME NEW r \in Writers(u)
             PROVE  /\ stage[r] \notin Cut
                    /\ \A q \in Writers(u) \ {r} : q \in before[r] \/ r \in before[q]
  BY DEF Orderly
<1>1. \A q \in Writers(u) : q \in Writers(u)' /\ before'[q] = before[q]
  BY WritersStay
<1>2. stage[r] \in Cut => stage'[r] = stage[r]
  BY WriterFits, Frozen
<1> QED
  BY <1>1, <1>2 DEF Orderly

\* Orderly writers are at work one at a time.
LEMMA OneAtWork ==
    ASSUME Basics, NEW u \in UserIds, Orderly(u), NEW r \in Writers(u), stage[r] \notin Definite
    PROVE  /\ \A q \in Requests : r \notin before[q]
           /\ \A q \in Writers(u) \ {r} : stage[q] \in Definite
<1>1. \A q \in Requests : HistoryFits(q)
  BY DEF Basics, Control
<1>2. \A q \in Requests : r \notin before[q]
  BY <1>1 DEF HistoryFits
<1>3. \A q \in Writers(u) \ {r} : q \in before[r]
  BY <1>2 DEF Orderly, Writers
<1> QED
  BY <1>1, <1>2, <1>3 DEF HistoryFits, Writers
\* How a writer comes to its write, and to its publication.
LEMMA WriterMoves ==
    ASSUME Basics, Next, NEW q \in Requests, call'[q].op \in Writes
    PROVE  /\ stage'[q] \in {"publish", "ok"} =>
                 stage[q] \in {"publish", "ok"} \/ Store(q) \/ DeleteNothing(q)
           /\ stage[q] \in {"publish", "ok"} => stage'[q] \in {"publish", "ok", "gone"}
           /\ stage'[q] = "write" => stage[q] = "write" \/ Find(q) \/ call'[q].op = "create"
<1> DEFINE Goal ==
        call'[q].op \in Writes =>
            /\ stage'[q] \in {"publish", "ok"} =>
                  stage[q] \in {"publish", "ok"} \/ Store(q) \/ DeleteNothing(q)
            /\ stage[q] \in {"publish", "ok"} => stage'[q] \in {"publish", "ok", "gone"}
            /\ stage'[q] = "write" => stage[q] = "write" \/ Find(q) \/ call'[q].op = "create"
<1> USE DEF requestVars, Goto
<1>0. /\ stage \in [Requests -> Stages] /\ call \in [Requests -> Calls \union {NoCall}]
      /\ \A r \in Requests : CallFits(r)
  BY DEF Basics, TypeOK, Stages, Control
<1>1. ASSUME NEW r \in Requests, Act(r)
      PROVE  Goal
  <2>1. CASE stage'[q] = stage[q]
    BY <2>1
  <2>2. CASE Store(r) \/ DeleteNothing(r)
    BY <1>0, <2>2 DEF Store, DeleteNothing, Goes
  <2>3. CASE Refuse(r) \/ Fallback(r) \/ DbFail(r) \/ LoseCommit(r) \/ NotFound(r)
    BY <1>0, <2>3 DEF Refuse, Fallback, DbFail, LoseCommit, NotFound, Goes
  <2>4. CASE Settle(r) \/ PublishWrite(r)
    BY <2>1, <2>4 DEF Settle, PublishWrite
  <2>5. CASE \E c \in Calls : CreateUser(r, c)
    BY <1>0, <2>5 DEF CreateUser, Receive
  <2>6. CASE \E c \in Calls : GetUser(r, c) \/ ListUsers(r, c) \/ UpdateUser(r, c) \/ DeleteUser(r, c)
    BY <1>0, <2>6 DEF GetUser, ListUsers, UpdateUser, DeleteUser, Receive
  <2>7. CASE Find(r)
    BY <1>0, <2>7 DEF Find, Writes
  <2>8. CASE Count(r) \/ Page(r)
    <3>1. call[r].op = "list" /\ call' = call /\ \A p \in Requests \ {r} : stage'[p] = stage[p]
      BY <1>0, <2>8 DEF Count, Page, CallFits
    <3> QED
      BY <2>1, <3>1 DEF Writes
  <2>9. CASE Respond(r) \/ CutPublish(r)
    BY <1>0, <2>9 DEF Respond, CutPublish
  <2> QED
    BY <1>1, <2>2, <2>3, <2>4, <2>5, <2>6, <2>7, <2>8, <2>9 DEF Act, Statement
<1>2. ASSUME NEW f \in P!Formats, NEW r \in Requests, Arrive(f, r)
      PROVE  Goal
  BY <1>2 DEF Arrive
<1>3. Goal
  BY <1>1, <1>2 DEF Next, Act
<1> QED
  BY <1>3

LEMMA RowMoves ==
    ASSUME Basics, Next, NEW u \in UserIds, row'[u] # row[u]
    PROVE  \E q \in Requests : (Store(q) \/ Settle(q)) /\ Id(q) = u
<1> USE DEF tableVars
<1>0. row \in [UserIds -> Rows]
  BY DEF Basics, TypeOK
<1>1. ASSUME NEW r \in Requests, Act(r)
      PROVE  (Store(r) \/ Settle(r)) /\ Id(r) = u
  <2>1. row' # row
    OBVIOUS
  <2>2. CASE Store(r) \/ Settle(r)
    BY <1>0, <2>2 DEF Store, Settle
  <2>3. CASE \E c \in Calls : CreateUser(r, c) \/ GetUser(r, c) \/ ListUsers(r, c)
                             \/ UpdateUser(r, c) \/ DeleteUser(r, c)
    BY <2>1, <2>3 DEF CreateUser, GetUser, ListUsers, UpdateUser, DeleteUser, Receive
  <2>4. CASE Find(r) \/ NotFound(r) \/ Count(r) \/ Page(r) \/ DbFail(r) \/ LoseCommit(r)
    BY <2>1, <2>4 DEF Find, NotFound, Count, Page, DbFail, LoseCommit
  <2>5. CASE Refuse(r) \/ Fallback(r) \/ DeleteNothing(r)
    BY <2>1, <2>5 DEF Refuse, Fallback, DeleteNothing
  <2>6. CASE PublishWrite(r) \/ Respond(r) \/ CutPublish(r)
    BY <2>1, <2>6 DEF PublishWrite, Respond, CutPublish
  <2> QED
    BY <1>1, <2>2, <2>3, <2>4, <2>5, <2>6 DEF Act, Statement
<1>2. ASSUME NEW f \in P!Formats, NEW r \in Requests, Arrive(f, r)
      PROVE  FALSE
  BY <1>2 DEF Arrive
<1> QED
  BY <1>1, <1>2 DEF Next, Act

\* What the event of a writer tells of its user.
LEMMA ToldIs ==
    ASSUME NEW r \in Requests, call[r].op \in Writes
    PROVE  Told(EventOf(r)) = [state |-> IF call[r].op = "delete" THEN "deleted" ELSE "live",
                               name |-> user[r].name, email |-> user[r].email]
<1>1. TypeOf(call[r]) = "DELETED" <=> call[r].op = "delete"
  BY DEF TypeOf, Writes
<1> QED
  BY <1>1 DEF Told, EventOf

LEMMA ToldStays ==
    ASSUME Basics, Next, NEW r \in Requests, Id(r) \in UserIds
    PROVE  Told(EventOf(r))' = Told(EventOf(r))
  BY WorkStays DEF Told, EventOf, TypeOf, Id

\* The step that stores a write to u.
LEMMA RowFollowsStore ==
    ASSUME Basics, NEW u \in UserIds, Orderly(u), RowFollows(u),
           NEW q \in Requests, Store(q), Id(q) = u
    PROVE  RowFollows(u)'
<1>1. /\ Goes(q) /\ Hits(q) /\ row' = [row EXCEPT ![u] = Written(q)]
      /\ stage' = [stage EXCEPT ![q] = "publish"]
      /\ call' = call /\ user' = user /\ before' = before
  BY DEF Store, Goto
<1>2. /\ stage \in [Requests -> Stages] /\ row \in [UserIds -> Rows]
      /\ CallFits(q) /\ Pending(q) /\ stage[q] \in {"write", "upsert"}
  BY <1>1 DEF Basics, TypeOK, Stages, Control, Goes, Pending
<1>3. call[q].op \in Writes /\ q \in Writers(u) /\ stage[q] \notin Definite
  BY <1>1, <1>2, WrittenType DEF Writers, Writes, Definite
<1>4. /\ \A p \in Requests : q \notin before[p]
      /\ \A p \in Writers(u) \ {q} : stage[p] \in Definite
  BY <1>3, OneAtWork
<1>5. Writers(u)' = Writers(u) /\ \A p \in Requests : Told(EventOf(p))' = Told(EventOf(p))
  BY <1>1 DEF Writers, Told, EventOf, TypeOf, Id
<1>6. row'[u] = Told(EventOf(q))
  <2>1. CASE call[q].op = "delete"
    <3>1. stage[q] = "write"
      BY <1>2, <2>1 DEF CallFits
    <3>2. Live(u) /\ user[q].name = row[u].name /\ user[q].email = row[u].email
      BY <1>3, <2>1, <3>1 DEF RowFollows
    <3>3. row[u] \in [state : {"live", "deleted"}, name : Names, email : Emails]
      BY <1>2, <3>2 DEF Rows, NoRow, Live
    <3>4. Written(q) = [state |-> "deleted", name |-> user[q].name, email |-> user[q].email]
      BY <2>1, <3>2, <3>3 DEF Written
    <3> QED
      BY <1>1, <1>2, <1>3, <2>1, <3>4, ToldIs
  <2>2. CASE call[q].op # "delete"
    BY <1>1, <1>2, <1>3, <2>2, ToldIs DEF Written
  <2> QED
    BY <2>1, <2>2
<1>7. Wrote(u, q)'
  BY <1>1, <1>2, <1>3, <1>5 DEF Wrote
<1>8. \A p \in Writers(u) : stage'[p] # "write"
  BY <1>1, <1>2, <1>4 DEF Definite, Writers
<1> QED
  BY <1>1, <1>4, <1>5, <1>6, <1>7, <1>8 DEF RowFollows
\* Any other step: the row stays, and no writer publishes.
LEMMA RowFollowsStep ==
    ASSUME Basics, Next, NEW u \in UserIds, Orderly(u), Orderly(u)', RowFollows(u)
    PROVE  RowFollows(u)'
<1>1. ASSUME NEW q \in Requests, Store(q), Id(q) = u
      PROVE  RowFollows(u)'
  BY <1>1, RowFollowsStore
<1>2. CASE \A q \in Requests : ~(Store(q) /\ Id(q) = u)
  <2>1. row'[u] = row[u]
    <3>1. ASSUME NEW q \in Requests, Settle(q), Id(q) = u
          PROVE  FALSE
      <4>1. CallFits(q)
        BY DEF Basics, Control
      <4>2. q \in doubt /\ stage[q] = "error" /\ call[q].op \in Writes
        BY <3>1, <4>1 DEF Settle, CallFits
      <4>3. q \in Writers(u)
        BY <3>1, <4>2 DEF Writers, Writes
      <4> QED
        BY <4>2, <4>3 DEF Orderly, Cut
    <3> QED
      BY <1>2, <3>1, RowMoves
  <2>2. ASSUME NEW r \in Requests, Wrote(u, r)
        PROVE  Wrote(u, r)'
    <3>1. r \in Writers(u) /\ r \in Writers(u)'
      BY <2>2, WritersStay DEF Wrote
    <3>2. call'[r].op \in Writes
      BY <3>1, WriterFitsNext
    <3>3. stage'[r] \in {"publish", "ok", "gone"}
      BY <2>2, <3>2, WriterMoves DEF Wrote
    <3> QED
      BY <3>1, <3>3 DEF Wrote, Orderly, Cut
  <2>3. ASSUME NEW r \in Requests, Wrote(u, r)'
        PROVE  Wrote(u, r) /\ Id(r) = u
    <3>1. r \in Writers(u)' /\ call'[r].op \in Writes /\ stage'[r] \in {"publish", "ok"}
      BY <2>3, WriterFitsNext DEF Wrote
    <3>2. stage[r] \in {"publish", "ok"} \/ Store(r) \/ DeleteNothing(r)
      BY <3>1, WriterMoves
    <3>3. stage[r] \in {"publish", "ok", "write", "upsert"}
      BY <3>2 DEF Store, DeleteNothing, Goes
    <3>4. r \in Writers(u) /\ Id(r) = u
      BY <3>1, <3>3, WriterFitsNext
    <3>5. ~DeleteNothing(r)
      <4> SUFFICES ASSUME DeleteNothing(r) PROVE FALSE
        OBVIOUS
      <4>1. CallFits(r)
        BY DEF Basics, Control
      <4>2. call[r].op = "delete" /\ stage[r] = "write" /\ ~Live(Id(r))
        BY <4>1 DEF DeleteNothing, Goes, Hits, CallFits
      <4> QED
        BY <3>4, <4>2 DEF RowFollows
    <3> QED
      BY <1>2, <3>2, <3>4, <3>5 DEF Wrote
  <2>4. (\A r \in Requests : ~Wrote(u, r)') => row'[u] = Seed[u]
    BY <2>1, <2>2 DEF RowFollows
  <2>5. ASSUME NEW r \in Requests, Wrote(u, r)',
               \A q \in Requests \ {r} : Wrote(u, q)' => q \in before'[r]
        PROVE  row'[u] = Told(EventOf(r))'
    <3>1. Wrote(u, r) /\ Id(r) = u
      BY <2>3, <2>5
    <3>2. before'[r] = before[r] /\ Told(EventOf(r))' = Told(EventOf(r))
      BY <3>1, WritersStay, ToldStays DEF Wrote
    <3>3. \A q \in Requests \ {r} : Wrote(u, q) => q \in before[r]
      BY <2>2, <2>5, <3>2
    <3> QED
      BY <2>1, <3>1, <3>2, <3>3 DEF RowFollows
  <2>6. ASSUME NEW r \in Writers(u)', stage'[r] = "write", call'[r].op = "delete"
        PROVE  row'[u].state = "live" /\ user'[r].name = row'[u].name /\ user'[r].email = row'[u].email
    <3>1. r \in Requests /\ call'[r].user = u
      BY <2>6, WriterFitsNext
    <3>2. stage[r] = "write" \/ Find(r)
      BY <2>6, <3>1, WriterMoves DEF Writes
    <3>3. CASE stage[r] = "write"
      <4>1. r \in Writers(u) /\ Id(r) = u
        BY <2>6, <3>3, WriterFitsNext
      <4>2. call'[r] = call[r] /\ user'[r] = user[r]
        BY <3>1, <4>1, WorkStays
      <4> QED
        BY <2>1, <2>6, <3>3, <4>1, <4>2 DEF RowFollows, Live
    <3>4. CASE Find(r)
      <4>1. call' = call /\ Live(u) /\ user'[r] = Patched(r) /\ stage[r] = "read"
        <5>1. call' = call /\ Live(call[r].user) /\ user' = [user EXCEPT ![r] = Patched(r)]
              /\ stage[r] = "read"
          BY <3>4 DEF Find
        <5>2. user \in [Requests -> Snapshots]
          BY DEF Basics, TypeOK, Snapshots
        <5> QED
          BY <3>1, <5>1, <5>2
      <4>2. CallFits(r)
        BY <3>1 DEF Basics, Control
      <4>3. call[r] \in AllCalls
        BY <4>1, <4>2, ServiceAssumption DEF CallFits
      <4>4. call[r].name = Omitted /\ call[r].email = Omitted
        BY <2>6, <4>1, <4>3 DEF AllCalls
      <4> QED
        BY <2>1, <3>1, <4>1, <4>4 DEF Patched, Live
    <3> QED
      BY <3>2, <3>3, <3>4
  <2> QED
    BY <2>4, <2>5, <2>6 DEF RowFollows, Live
<1> QED
  BY <1>1, <1>2

LEMMA RowsFollowAlways ==
    AllSpec => []RowsFollow
<1>1. Init => RowsFollow
  <2> SUFFICES ASSUME Init, NEW u \in UserIds PROVE RowFollows(u)
    BY DEF RowsFollow
  <2>1. row = Seed /\ \A r \in Requests : stage[r] = "new"
    BY DEF Init
  <2> QED
    BY <2>1 DEF RowFollows, Wrote, Writers
<1>2. RowsFollow /\ Basics /\ [Next]_vars => RowsFollow'
  <2> SUFFICES ASSUME RowsFollow, Basics, [Next]_vars, NEW u \in UserIds, Orderly(u)'
               PROVE  RowFollows(u)'
    BY DEF RowsFollow
  <2>1. CASE Next
    BY <2>1, OrderlyBefore, RowFollowsStep DEF RowsFollow
  <2>2. CASE UNCHANGED vars
    <3>1. UNCHANGED <<row, stage, call, user, before>>
      BY <2>2 DEF vars, tableVars, requestVars
    <3>2. Orderly(u) /\ Writers(u)' = Writers(u)
      BY <3>1 DEF Orderly, Writers, Id
    <3>3. \A r \in Requests : Told(EventOf(r))' = Told(EventOf(r))
      BY <3>1 DEF Told, EventOf, TypeOf, Id
    <3>4. RowFollows(u)
      BY <3>2 DEF RowsFollow
    <3> QED
      BY <3>1, <3>2, <3>3, <3>4 DEF RowFollows, Wrote, Live
  <2> QED
    BY <2>1, <2>2
<1>3. Spec => []RowsFollow
  BY <1>1, <1>2, BasicsAlways, PTL DEF Spec
<1> QED
  BY <1>3, PipelineProduces, PTL
\* No message of u has failed.
AllWell(u) ==
    \A o \in 0 .. OldLen(group, u) + NewLen(group, u) - 1 : <<group, u, o>> \notin failed

\* An event whose work is committed has been published.
AppliedFits == \A r \in Requests : applied[<<group, r>>] = 1 => writing[r] # "idle"

\* The events of u that have been worked off are those up to the n-th message, which
\* was the last one that taught something.
WorkedOff(u, n) ==
    LET t == topic[group][u] IN
    /\ \A k \in 1 .. n : applied[<<group, t[k]>>] = 1
    /\ \A r \in Requests : applied[<<group, r>>] = 1 /\ userOf[r] = u => \E k \in 1 .. n : t[k] = r
    /\ \A k \in 1 .. n - 1 : t[k] # t[n]
    /\ view[u] = IF n = 0 THEN Seed[u] ELSE Told(EventOf(t[n]))

ViewsFollow == \A u \in UserIds : AllWell(u) => \E n \in 0 .. NewLen(group, u) : WorkedOff(u, n)

\* Applying the message at offset o is applying the m-th publication, by r.
Teaches(v, o, m, r) ==
    /\ topic[group][v][m] = r /\ o \in Nat /\ o + 1 = OldLen(group, v) + m
    /\ writing[r] # "idle" /\ userOf[r] = v
    /\ applied[<<group, r>>] = 0
    /\ \A q \in Requests :
          applied'[<<group, q>>] = IF q = r THEN 1 ELSE applied[<<group, q>>]
    /\ view'[v] = Told(EventOf(r))
    /\ \A u \in UserIds \ {v} : view'[u] = view[u]
    /\ UNCHANGED <<vars, group, handled, failed>>

\* What one message does to the counts, and to the view.
LEMMA ApplySteps ==
    ASSUME Producing, LogFits, DeliveryFits, NEW v \in UserIds, NEW o \in Offsets(v), Apply(v, o)
    PROVE  \E m \in 1 .. NewLen(group, v), r \in Requests : Teaches(v, o, m, r)
<1> DEFINE e == D!Message(group, v, o).event
<1>1. /\ D!Message(group, v, o).event # Empty
      /\ applied[<<group, e>>] = 0 /\ applied' = [applied EXCEPT ![<<group, e>>] = 1]
      /\ UNCHANGED <<vars, group, handled, failed>>
  BY DEF Apply, D!Apply
<1>2. PICK r \in Requests : /\ r = e /\ writing[r] # "idle" /\ Id(r) = v
                            /\ Told(Decode(group, Wire(group, v, o + 1))) = Told(EventOf(r))
                            /\ \E n \in 1 .. NewLen(group, v) :
                                  topic[group][v][n] = r /\ o + 1 = OldLen(group, v) + n
  BY <1>1, MessageWithId DEF Producing, DeliveryFits
<1>3. PICK m \in 1 .. NewLen(group, v) : topic[group][v][m] = r /\ o + 1 = OldLen(group, v) + m
  BY <1>2
<1>4. view' = [view EXCEPT ![v] = Told(EventOf(r))]
  BY <1>2 DEF Apply
<1>5. userOf[r] = v
  BY <1>2 DEF Producing, Basics, Control, PublicationFits
<1>6. \A q \in Requests : applied'[<<group, q>>] = IF q = r THEN 1 ELSE applied[<<group, q>>]
  BY <1>1, <1>2 DEF DeliveryFits
<1>7. view'[v] = Told(EventOf(r)) /\ \A u \in UserIds \ {v} : view'[u] = view[u]
  BY <1>4 DEF DeliveryFits
<1>8. applied[<<group, r>>] = 0
  BY <1>1, <1>2
<1>9. o \in Nat
  BY WireMessage, Backlogs, Publications DEF Offsets, Producing, DeliveryFits
<1> HIDE DEF e
<1>10. UNCHANGED <<vars, group, handled, failed>>
  BY <1>1
<1>11. Teaches(v, o, m, r)
  BY <1>2, <1>3, <1>5, <1>6, <1>7, <1>8, <1>9, <1>10 DEF Teaches
<1> QED
  BY <1>11

\* Of the consumers' steps only Apply changes what is worked off.
LEMMA HandleKeeps ==
    ASSUME NEW v \in UserIds, NEW o \in Offsets(v), Handle(v, o)
    PROVE  UNCHANGED <<vars, group, applied, view>> /\ failed \subseteq failed'
  BY DEF Handle, D!Handle, D!Fail

LEMMA AppliedFitsStep ==
    ASSUME Producing, LogFits, DeliveryFits, AppliedFits, [AllNext]_allVars
    PROVE  AppliedFits'
<1>1. CASE Produce
  BY <1>1, KeyStays DEF Produce, AppliedFits, Producing
<1>2. ASSUME NEW v \in UserIds, NEW o \in Offsets(v), Apply(v, o)
      PROVE  AppliedFits'
  <2>1. writing' = writing /\ group' = group
    BY <1>2 DEF Apply, vars, producerVars
  <2>2. PICK m \in 1 .. NewLen(group, v), r \in Requests : Teaches(v, o, m, r)
    BY <1>2, ApplySteps
  <2>3. /\ writing[r] # "idle"
        /\ \A q \in Requests :
              applied'[<<group, q>>] = IF q = r THEN 1 ELSE applied[<<group, q>>]
    BY <2>2 DEF Teaches
  <2> QED
    BY <2>1, <2>3 DEF AppliedFits
<1>3. CASE UNCHANGED <<vars, group, applied>>
  BY <1>3 DEF vars, producerVars, AppliedFits
<1> QED
  BY <1>1, <1>2, <1>3, HandleKeeps, PipelineSteps DEF Consume, allVars, deliveryVars

LEMMA AppliedFitsAlways ==
    AllSpec => []AppliedFits
<1>1. AllInit => AppliedFits
  BY DEF AllInit, AppliedFits
<1>2. AppliedFits /\ Producing /\ LogFits /\ DeliveryFits /\ [AllNext]_allVars => AppliedFits'
  BY AppliedFitsStep
<1> QED
  BY <1>1, <1>2, ProducingAlways, LogFitsAlways, DeliveryFitsAlways, PTL DEF AllSpec

\* While no message of u fails, a step of a request leaves what is worked off alone.
LEMMA ProduceKeepsWork ==
    ASSUME Producing, DeliveryFits, AppliedFits, Produce,
           NEW u \in UserIds, NEW n \in 0 .. NewLen(group, u), WorkedOff(u, n)
    PROVE  n \in 0 .. NewLen(group, u)' /\ WorkedOff(u, n)'
<1> DEFINE t == topic[group][u]
           tt == topic'[group][u]
<1>1. /\ group \in P!Formats /\ UNCHANGED <<group, applied, view>> /\ Basics /\ TopicInv /\ Next
  BY DEF Produce, DeliveryFits, Producing
<1>2. /\ NewLen(group, u) \in Nat /\ NewLen(group, u)' \in Nat
      /\ NewLen(group, u) <= NewLen(group, u)'
      /\ \A k \in 1 .. NewLen(group, u) : tt[k] = t[k]
  BY <1>1, TopicGrows DEF NewLen
<1>3. \A k \in 1 .. n : k \in 1 .. NewLen(group, u) /\ tt[k] = t[k]
  BY <1>2
<1>4. \A k \in 1 .. n : applied'[<<group, tt[k]>>] = 1
  BY <1>1, <1>3 DEF WorkedOff
<1>5. ASSUME NEW r \in Requests, applied'[<<group, r>>] = 1, userOf'[r] = u
      PROVE  \E k \in 1 .. n : tt[k] = r
  <2>1. userOf[r] = u /\ applied[<<group, r>>] = 1
    BY <1>1, <1>5, KeyStays DEF AppliedFits
  <2> QED
    BY <1>3, <2>1 DEF WorkedOff
<1>6. \A k \in 1 .. n - 1 : tt[k] # tt[n]
  <2>1. \A k \in 1 .. n - 1 : k \in 1 .. n /\ n \in 1 .. n
    BY <1>2
  <2> QED
    BY <1>3, <2>1 DEF WorkedOff
<1>7. view'[u] = IF n = 0 THEN Seed[u] ELSE Told(EventOf(topic[group][u][n]))'
  <2>1. CASE n = 0
    BY <1>1, <2>1 DEF WorkedOff
  <2>2. CASE n # 0
    <3>1. n \in 1 .. n /\ n \in 1 .. NewLen(group, u)
      BY <1>2, <2>2
    <3>2. PICK r \in Requests : r = t[n] /\ writing[r] # "idle" /\ Id(r) = u
      BY <1>1, <3>1, Publications
    <3>3. Told(EventOf(r))' = Told(EventOf(r))
      BY <1>1, <3>2, ToldStays
    <3>4. Told(EventOf(topic[group][u][n]))' = Told(EventOf(r))'
      BY <1>1, <1>3, <3>1, <3>2 DEF Told, EventOf, TypeOf, Id
    <3>5. view[u] = Told(EventOf(r))
      BY <2>2, <3>2 DEF WorkedOff
    <3> QED
      BY <1>1, <2>2, <3>3, <3>4, <3>5
  <2> QED
    BY <2>1, <2>2
<1>8. n \in 0 .. NewLen(group, u)'
  BY <1>2
<1> QED
  BY <1>1, <1>4, <1>5, <1>6, <1>7, <1>8 DEF WorkedOff
\* Applying a message of u moves what is worked off to that message.
LEMMA ApplyWorksOff ==
    ASSUME Producing, LogFits, DeliveryFits, HandledUnderItsId,
           NEW u \in UserIds, AllWell(u), NEW n \in 0 .. NewLen(group, u), WorkedOff(u, n),
           NEW o \in Offsets(u), Apply(u, o)
    PROVE  \E m \in 0 .. NewLen(group, u)' : WorkedOff(u, m)'
<1> DEFINE t == topic[group][u]
<1>0. PICK m \in 1 .. NewLen(group, u), e \in Requests : Teaches(u, o, m, e)
  BY ApplySteps
<1>1. /\ topic[group][u][m] = e /\ o \in Nat /\ o + 1 = OldLen(group, u) + m
      /\ writing[e] # "idle" /\ userOf[e] = u
      /\ applied[<<group, e>>] = 0
      /\ \A q \in Requests :
            applied'[<<group, q>>] = IF q = e THEN 1 ELSE applied[<<group, q>>]
      /\ view'[u] = Told(EventOf(e))
      /\ \A w \in UserIds \ {u} : view'[w] = view[w]
      /\ UNCHANGED <<vars, group, handled, failed>>
  BY <1>0 DEF Teaches
<1>2. /\ OldLen(group, u) \in Nat /\ NewLen(group, u) \in Nat /\ group \in P!Formats
      /\ topic' = topic /\ userOf' = userOf /\ call' = call /\ user' = user
      /\ \A k \in 1 .. NewLen(group, u) : t[k] \in Requests
  BY <1>1, Backlogs, Publications
  DEF Producing, DeliveryFits, vars, producerVars, requestVars
<1>3. \A k \in 1 .. NewLen(group, u) : k < m => applied[<<group, t[k]>>] = 1
  <2> SUFFICES ASSUME NEW k \in 1 .. NewLen(group, u), k < m
               PROVE  applied[<<group, t[k]>>] = 1
    OBVIOUS
  <2> DEFINE p == OldLen(group, u) + k - 1
  <2>1. p \in 0 .. o - 1 /\ p \in 0 .. OldLen(group, u) + NewLen(group, u) - 1
    BY <1>1, <1>2
  <2>2. <<group, u, p>> \in handled
    BY <2>1 DEF Apply, D!Apply, D!Met, AllWell
  <2>3. k \in DOMAIN t
    <3>1. t \in Seq(Requests)
      BY <1>2 DEF Producing, Basics, TypeOK, P!TypeOK
    <3> QED
      BY <3>1 DEF NewLen
  <2> QED
    BY <2>2, <2>3 DEF HandledUnderItsId, OffsetOf, OldLen
<1>4. n < m
  <2> SUFFICES ASSUME m \in 1 .. n PROVE FALSE
    BY <1>2
  <2> QED
    BY <1>1 DEF WorkedOff
<1>5. \A k \in 1 .. m : applied'[<<group, t[k]>>] = 1
  <2> SUFFICES ASSUME NEW k \in 1 .. m
               PROVE  applied'[<<group, t[k]>>] = 1
    OBVIOUS
  <2>1. k \in 1 .. NewLen(group, u) /\ (k = m \/ k < m)
    BY <1>2
  <2> QED
    BY <1>1, <1>2, <1>3, <2>1
<1>6. ASSUME NEW r \in Requests, applied'[<<group, r>>] = 1, userOf[r] = u
      PROVE  \E k \in 1 .. m : t[k] = r
  <2>1. CASE r = t[m]
    BY <1>2, <2>1
  <2>2. CASE r # t[m]
    <3>1. PICK k \in 1 .. n : t[k] = r
      BY <1>1, <1>6, <2>2 DEF WorkedOff
    <3> QED
      BY <1>2, <1>4, <3>1
  <2> QED
    BY <2>1, <2>2
<1>7. \A k \in 1 .. m - 1 : t[k] # t[m]
  <2>1. \A k \in 1 .. m - 1 : k \in 1 .. NewLen(group, u) /\ k < m
    BY <1>2
  <2> QED
    BY <1>1, <1>3, <2>1
<1>8. Told(EventOf(topic[group][u][m]))' = Told(EventOf(t[m]))
  BY <1>1, <1>2 DEF Told, EventOf, TypeOf, Id
<1>9. NewLen(group, u)' = NewLen(group, u) /\ m # 0
  BY <1>1, <1>2 DEF NewLen
<1>10. WorkedOff(u, m)'
  <2>1. /\ \A k \in 1 .. m : applied'[<<group', topic'[group'][u][k]>>] = 1
        /\ \A r \in Requests : applied'[<<group', r>>] = 1 /\ userOf'[r] = u
              => \E k \in 1 .. m : topic'[group'][u][k] = r
        /\ \A k \in 1 .. m - 1 : topic'[group'][u][k] # topic'[group'][u][m]
    BY <1>1, <1>2, <1>5, <1>6, <1>7
  <2>2. view'[u] = IF m = 0 THEN Seed[u] ELSE Told(EventOf(topic[group][u][m]))'
    BY <1>1, <1>8, <1>9
  <2> QED
    BY <2>1, <2>2 DEF WorkedOff
<1> QED
  BY <1>9, <1>10, <1>2

LEMMA ViewsFollowStep ==
    ASSUME Producing, LogFits, DeliveryFits, HandledUnderItsId, AppliedFits, ViewsFollow,
           [AllNext]_allVars
    PROVE  ViewsFollow'
<1> SUFFICES ASSUME NEW u \in UserIds, AllWell(u)'
             PROVE  \E n \in 0 .. NewLen(group, u)' : WorkedOff(u, n)'
  BY DEF ViewsFollow
<1>1. ASSUME AllWell(u)
      PROVE  \E n \in 0 .. NewLen(group, u) : WorkedOff(u, n)
  BY <1>1 DEF ViewsFollow
<1>2. CASE Produce
  <2>1. AllWell(u)
    <3>1. /\ OldLen(group, u) \in Nat /\ NewLen(group, u) \in Nat /\ NewLen(group, u)' \in Nat
          /\ NewLen(group, u) <= NewLen(group, u)' /\ failed' = failed /\ group' = group
      BY <1>2, Backlogs, Publications, TopicGrows DEF Producing, DeliveryFits, Produce, NewLen
    <3>2. \A o \in 0 .. OldLen(group, u) + NewLen(group, u)' - 1 : <<group, u, o>> \notin failed
      BY <3>1 DEF AllWell, OldLen
    <3> QED
      BY <3>1, <3>2 DEF AllWell
  <2>2. PICK n \in 0 .. NewLen(group, u) : WorkedOff(u, n)
    BY <1>1, <2>1
  <2> QED
    BY <1>2, <2>2, ProduceKeepsWork
<1>3. ASSUME UNCHANGED <<vars, group, applied, view>>, failed \subseteq failed'
      PROVE  \E n \in 0 .. NewLen(group, u)' : WorkedOff(u, n)'
  <2>1. AllWell(u) /\ NewLen(group, u)' = NewLen(group, u)
    BY <1>3 DEF AllWell, OldLen, NewLen, vars, producerVars
  <2>2. PICK n \in 0 .. NewLen(group, u) : WorkedOff(u, n)
    BY <1>1, <2>1
  <2>3. Told(EventOf(topic[group][u][n]))' = Told(EventOf(topic[group][u][n]))
    BY <1>3 DEF Told, EventOf, TypeOf, Id, vars, requestVars, producerVars
  <2>4. WorkedOff(u, n)'
    BY <1>3, <2>2, <2>3 DEF WorkedOff, vars, producerVars
  <2> QED
    BY <2>1, <2>4
<1>4. ASSUME NEW v \in UserIds, NEW o \in Offsets(v), Apply(v, o)
      PROVE  \E n \in 0 .. NewLen(group, u)' : WorkedOff(u, n)'
  <2>1. AllWell(u)
    BY <1>4 DEF Apply, D!Apply, AllWell, OldLen, NewLen, vars, producerVars
  <2>2. PICK n \in 0 .. NewLen(group, u) : WorkedOff(u, n)
    BY <1>1, <2>1
  <2>3. CASE v = u
    BY <1>4, <2>1, <2>2, <2>3, ApplyWorksOff
  <2>4. CASE v # u
    <3>0. PICK m \in 1 .. NewLen(group, v), r \in Requests : Teaches(v, o, m, r)
      BY <1>4, ApplySteps
    <3>1. /\ userOf[r] = v /\ applied[<<group, r>>] = 0
          /\ \A q \in Requests :
                applied'[<<group, q>>] = IF q = r THEN 1 ELSE applied[<<group, q>>]
          /\ \A w \in UserIds \ {v} : view'[w] = view[w]
          /\ UNCHANGED <<vars, group>>
      BY <3>0 DEF Teaches
    <3>2. /\ topic' = topic /\ userOf' = userOf /\ call' = call /\ user' = user /\ group' = group
          /\ view'[u] = view[u]
      BY <2>4, <3>1 DEF vars, producerVars, requestVars
    <3>3. /\ NewLen(group, u) \in Nat
          /\ \A k \in 1 .. NewLen(group, u) : topic[group][u][k] \in Requests
      BY Publications DEF Producing, DeliveryFits
    <3>4. \A k \in 1 .. n : applied'[<<group, topic[group][u][k]>>] = 1
      <4>1. \A k \in 1 .. n : topic[group][u][k] \in Requests
        BY <3>3
      <4> QED
        BY <2>2, <3>1, <4>1 DEF WorkedOff
    <3>5. \A q \in Requests : applied'[<<group, q>>] = 1 /\ userOf[q] = u
             => \E k \in 1 .. n : topic[group][u][k] = q
      BY <2>2, <2>4, <3>1 DEF WorkedOff
    <3>6. Told(EventOf(topic[group][u][n]))' = Told(EventOf(topic[group][u][n]))
      BY <3>2 DEF Told, EventOf, TypeOf, Id
    <3>7. WorkedOff(u, n)'
      BY <2>2, <3>2, <3>4, <3>5, <3>6 DEF WorkedOff
    <3> QED
      BY <3>2, <3>7 DEF NewLen
  <2> QED
    BY <2>3, <2>4
<1> QED
  BY <1>2, <1>3, <1>4, HandleKeeps, PipelineSteps DEF Consume, allVars, deliveryVars

LEMMA ViewsFollowAlways ==
    AllSpec => []ViewsFollow
<1>1. AllInit => ViewsFollow
  <2> SUFFICES ASSUME AllInit, NEW u \in UserIds
               PROVE  0 \in 0 .. NewLen(group, u) /\ WorkedOff(u, 0)
    BY DEF ViewsFollow
  <2>1. NewLen(group, u) = 0
    BY DEF AllInit, Init, P!Init, NewLen
  <2>2. \A r \in Requests : applied[<<group, r>>] = 0
    BY DEF AllInit
  <2> QED
    BY <2>1, <2>2 DEF AllInit, WorkedOff
<1>2. ViewsFollow /\ Producing /\ LogFits /\ DeliveryFits /\ HandledUnderItsId /\ AppliedFits
      /\ [AllNext]_allVars => ViewsFollow'
  BY ViewsFollowStep
<1> QED
  BY <1>1, <1>2, ProducingAlways, LogFitsAlways, DeliveryFitsAlways, AppliedFitsAlways,
     PublicationsKeepTheirId, PTL DEF AllSpec
(* When all is quiet the consumers know the users as they are. If the       *)
(* writing requests for a user came one after the other and were answered,  *)
(* their events acknowledged and worked off, and no message of the user has *)
(* failed, the group knows the user's row: the answers order the events     *)
(* (AnswersOrderEvents), a message is met when all before it are done, and  *)
(* its work is committed once, so the last event that taught something is   *)
(* the one of the last writer, whatever copies and stragglers come after.   *)
THEOREM ConsumersCatchUp ==
    AllSpec => []QuietViewIsCurrent
<1>1. Producing /\ LogFits /\ DeliveryFits /\ AnsweredFirst /\ RowsFollow /\ ViewsFollow
      => QuietViewIsCurrent
  <2> SUFFICES ASSUME Producing, LogFits, DeliveryFits, AnsweredFirst, RowsFollow, ViewsFollow,
                      NEW u \in UserIds,
                      \A r \in Writers(u) :
                          /\ stage[r] \in Definite
                          /\ \A q \in Writers(u) \ {r} : q \in before[r] \/ r \in before[q]
                          /\ stage[r] = "ok" =>
                                <<group, r>> \in acked /\ applied[<<group, r>>] = 1,
                      \A o \in Offsets(u) : <<group, u, o>> \notin failed
               PROVE  view[u] = row[u]
    BY DEF QuietViewIsCurrent
  <2> DEFINE t == topic[group][u]
  <2>1. RowFollows(u)
    BY DEF RowsFollow, Orderly, Definite, Cut
  <2>2. AllWell(u) /\ Basics /\ TopicInv /\ group \in P!Formats
    <3>1. Basics /\ TopicInv /\ group \in P!Formats
      BY DEF Producing, DeliveryFits
    <3>2. /\ Len(log[group][u]) = OldLen(group, u) + NewLen(group, u)
          /\ OldLen(group, u) \in Nat /\ NewLen(group, u) \in Nat
      BY <3>1, WireMessage, Backlogs, Publications
    <3>3. Offsets(u) = 0 .. OldLen(group, u) + NewLen(group, u) - 1
      BY <3>2 DEF Offsets
    <3>4. AllWell(u)
      BY <3>3 DEF AllWell
    <3> QED
      BY <3>1, <3>4
  <2>3. PICK n \in 0 .. NewLen(group, u) : WorkedOff(u, n)
    BY <2>2 DEF ViewsFollow
  \* The writers that have changed something are the ones whose events are worked off.
  <2>4. ASSUME NEW r \in Requests, Wrote(u, r)
        PROVE  <<group, r>> \in acked /\ userOf[r] = u /\ \E k \in 1 .. n : t[k] = r
    <3>1. r \in Writers(u) /\ stage[r] = "ok"
      BY <2>4 DEF Wrote, Definite
    <3>2. <<group, r>> \in acked /\ applied[<<group, r>>] = 1
      BY <3>1
    <3>3. writing[r] # "idle"
      BY <2>2, <3>2 DEF TopicInv, AckedIn
    <3>4. userOf[r] = Id(r) /\ Id(r) \in UserIds
      BY <2>2, <3>3 DEF Basics, Control, PublicationFits
    <3>5. userOf[r] = u
      BY <2>2, <3>1, <3>4, WriterFits
    <3> QED
      BY <2>3, <3>2, <3>5 DEF WorkedOff
  <2>5. CASE n = 0
    <3>1. \A r \in Requests : ~Wrote(u, r)
      BY <2>4, <2>5
    <3> QED
      BY <2>1, <2>3, <2>5, <3>1 DEF RowFollows, WorkedOff
  <2>6. CASE n # 0
    <3>1. n \in 1 .. NewLen(group, u) /\ NewLen(group, u) \in Nat
      BY <2>2, <2>6, Publications
    <3>2. PICK r \in Requests : r = t[n] /\ writing[r] # "idle" /\ Id(r) = u
      BY <2>2, <3>1, Publications
    <3>3. Wrote(u, r)
      <4>1. stage[r] \in {"publish", "ok", "gone"} /\ call[r].op \in Writes
        BY <2>2, <3>2 DEF Basics, Control, PublicationFits
      <4>2. r \in Writers(u)
        BY <3>2, <4>1 DEF Writers, Writes
      <4> QED
        BY <4>1, <4>2 DEF Wrote, Definite
    <3>4. ASSUME NEW b \in Requests \ {r}, Wrote(u, b)
          PROVE  b \in before[r]
      <4>1. PICK k \in 1 .. n : t[k] = b
        BY <2>4, <3>4
      <4>2. k \in DOMAIN t
        <5>1. t \in Seq(Requests)
          BY <2>2 DEF Basics, TypeOK, P!TypeOK
        <5> QED
          BY <3>1, <4>1, <5>1 DEF NewLen
      <4>3. r \notin before[b]
        <5> SUFFICES ASSUME r \in before[b] PROVE FALSE
          OBVIOUS
        <5>0. <<group, r>> \in acked /\ userOf[r] = u
          BY <2>4, <3>3
        <5>1. PICK j \in 1 .. k : t[j] = r
          BY <2>2, <4>1, <4>2, <5>0 DEF AnsweredFirst
        <5>2. j \in 1 .. n - 1
          BY <3>1, <3>2, <4>1, <5>1
        <5> QED
          BY <2>3, <3>2, <5>1, <5>2 DEF WorkedOff
      <4> QED
        BY <3>3, <3>4, <4>3 DEF Wrote
    <3>5. row[u] = Told(EventOf(r))
      BY <2>1, <3>3, <3>4 DEF RowFollows
    <3>6. view[u] = Told(EventOf(r))
      BY <2>3, <2>6, <3>2 DEF WorkedOff
    <3> QED
      BY <3>5, <3>6
  <2> QED
    BY <2>5, <2>6
<1> QED
  BY <1>1, ProducingAlways, LogFitsAlways, DeliveryFitsAlways, RowsFollowAlways,
     ViewsFollowAlways, AnswersOrderEvents, PipelineProduces, PTL
------------------------------------------------------------------------------
(* The consumers keep to Delivery.                                          *)

LEMMA ConcatExtends ==
    ASSUME NEW S, NEW s \in Seq(S), NEW t \in Seq(S)
    PROVE  Len(s \o t) >= Len(s) /\ SubSeq(s \o t, 1, Len(s)) = s
<1> DEFINE c == s \o t
           head == SubSeq(c, 1, Len(s))
<1>1. /\ c \in Seq(S) /\ Len(c) = Len(s) + Len(t) /\ Len(s) \in Nat /\ Len(t) \in Nat
      /\ \A i \in 1 .. Len(s) : c[i] = s[i] /\ s[i] \in S
  BY ConcatProperties
<1> HIDE DEF c
<1>2. /\ head \in Seq(S) /\ Len(head) = Len(s)
      /\ \A i \in 1 .. Len(s) : head[i] = c[i]
  <2>1. \A i \in 1 .. Len(s) : c[i] \in S
    BY <1>1
  <2>2. /\ head \in Seq(S) /\ Len(head) = IF 1 <= Len(s) THEN Len(s) - 1 + 1 ELSE 0
        /\ \A i \in 1 .. Len(s) - 1 + 1 : head[i] = c[1 + i - 1]
    BY <1>1, <2>1, SubSeqProperties
  <2> QED
    BY <1>1, <2>2
<1> HIDE DEF head
<1>3. head = s
  BY <1>1, <1>2
<1> QED
  BY <1>1, <1>3 DEF c, head

LEMMA ProduceGrows ==
    ASSUME Basics, TopicInv, LogFits, Produce
    PROVE  D!Grow
<1> SUFFICES ASSUME NEW f \in P!Formats, NEW u \in UserIds
             PROVE  /\ Len(log'[f][u]) >= Len(log[f][u])
                    /\ SubSeq(log'[f][u], 1, Len(log[f][u])) = log[f][u]
  BY DEF D!Grow, Produce
<1> DEFINE L == log[f][u]
           N == OldLen(f, u) + NewLen(f, u)
           more(n) == Seen(f, Encode(f, EventOf(New(f, u)[n])))
           A == [n \in DOMAIN New(f, u) |-> more(n)]
           K == Len(New(f, u))
           S == {Seen(f, Wire(f, u, n)) : n \in 1 .. N} \union {more(n) : n \in 1 .. K}
<1>1. N \in Nat /\ K \in Nat /\ DOMAIN New(f, u) = 1 .. K
  <2>1. New(f, u) \in Seq(Requests)
    BY NewPublications DEF Produce
  <2>2. OldLen(f, u) \in Nat /\ NewLen(f, u) \in Nat
    BY Backlogs, Publications
  <2>3. Len(New(f, u)) \in Nat /\ DOMAIN New(f, u) = 1 .. Len(New(f, u))
    <3> DEFINE new == New(f, u)
    <3>1. new \in Seq(Requests)
      BY <2>1
    <3> HIDE DEF new
    <3>2. Len(new) \in Nat /\ DOMAIN new = 1 .. Len(new)
      BY <3>1
    <3> QED
      BY <3>2 DEF new
  <2> QED
    BY <2>2, <2>3
<1>2. L = [n \in 1 .. N |-> Seen(f, Wire(f, u, n))]
  BY DEF LogFits
<1>3. L \in Seq(S)
  <2> HIDE DEF N
  <2> QED
    BY <1>1, <1>2
<1>4. A \in Seq(S)
  <2> HIDE DEF K, more
  <2> QED
    BY <1>1
<1>5. log'[f][u] = L \o A
  BY DEF Produce
<1> HIDE DEF L, A, S
<1>6. Len(L \o A) >= Len(L) /\ SubSeq(L \o A, 1, Len(L)) = L
  BY <1>3, <1>4, ConcatExtends
<1> QED
  BY <1>5, <1>6 DEF L

(* Pipeline's consumers take steps that Delivery allows, and no others: the *)
(* producing side only appends to their log, whatever it retries and        *)
(* however late a write arrives, and what the followed group does are       *)
(* deliveries. Consume loop and dedup handler implement Delivery as well    *)
(* (ImplementsDelivery of DeliveryProofs).                                  *)
THEOREM ConsumersDeliver ==
    AllSpec => [][D!Next]_(D!vars)
<1>1. Producing /\ LogFits /\ DeliveryFits /\ [AllNext]_allVars => [D!Next]_(D!vars)
  <2> SUFFICES ASSUME Producing, LogFits, DeliveryFits, [AllNext]_allVars
               PROVE  D!Next \/ UNCHANGED D!vars
    OBVIOUS
  <2>1. CASE Produce
    BY <2>1, ProduceGrows DEF Producing, D!Next
  <2>2. CASE Consume
    <3>1. PICK u \in UserIds : \E o \in Offsets(u) : Apply(u, o) \/ Handle(u, o)
      BY <2>2 DEF Consume
    <3>2. group \in P!Formats
      BY DEF DeliveryFits
    <3>3. \E o \in D!Offsets(group, u) :
             D!Apply(group, u, o) \/ D!Handle(group, u, o) \/ D!Fail(group, u, o)
      BY <3>1 DEF Apply, Handle, Offsets, D!Offsets
    <3> QED
      BY <3>2, <3>3 DEF D!Next
  <2>3. CASE UNCHANGED allVars
    BY <2>3 DEF allVars, deliveryVars, D!vars
  <2> QED
    BY <2>1, <2>2, <2>3, PipelineSteps
<1> QED
  BY <1>1, ProducingAlways, LogFitsAlways, DeliveryFitsAlways, PTL DEF AllSpec
===============================================================================
