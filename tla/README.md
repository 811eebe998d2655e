# Verification of kafka-user-service

TLA+ specifications of the service in this repository, checked with TLC on small
instances and, as far as safety goes, proved with TLAPS for every instance. Line
numbers refer to the commit in `src/`.

## 1. The system

The service offers CRUD on users over HTTP. Every change is written to Postgres and
then published as an event to two Kafka topics (Avro and Protobuf). The service also
consumes both topics, one consumer group per topic, and handles each event through a
wrapper that deduplicates on `(consumer_group, topic, event_id)`.

| Component | State it keeps | Operations | Talks to |
|---|---|---|---|
| Dedup handler (`idempotent_handler.go`, `processed_event_repository.go`) | table `processed_events`; per call an open transaction | insert marker, run inner handler, commit or roll back | Postgres, inner handler; called by the consume loop |
| Consume loop (`consumer.go`) | message in hand; the reader's cursor and membership | fetch, back off, decode, handle, commit offset | Kafka, codecs, dedup handler, `ctx` of the process |
| Codecs (`codec.go`) | schema cache of the avro codec, shared under a lock | encode, decode, resolve schema | schema registry |
| Producer (`producer.go`) | two Kafka writers | publish to avro, then to proto | Kafka; called by the user service |
| User service and repository (`user_service.go`, `user_repository.go`) | table `users` (soft delete, unique live email) | create, get, list, update, delete, publish event | Postgres, producer; called by the REST handlers |
| REST handlers (`handler.go`) | none | parse, call the service, map errors to 400/404/409/500 | user service |
| Process (`main.go`) | `ctx`, wait group, listener | start consumers, serve, stop, drain, exit | all of the above |
| Topic provisioning (`admin.go`) | none | create missing topics at startup | Kafka |
| Database setup (`db/migrate.go`, `db/postgres.go`) | `schema_migrations` and an advisory lock, in Postgres | connect, migrate | Postgres |
| Web UI (`ui.go`) | the page in a browser | load, create, edit, delete | REST handlers |
| Configuration, API docs, mocks, generated code | none of interest | | |

What is hard, and what makes each part correct:

* **Dedup handler.** Redelivery and concurrent delivery of one event, inner handlers that
  fail, COMMITs whose outcome is unknown, clients that die with a transaction open. Correct
  when an event's work is committed at most once, exactly when its marker row is, and `nil`
  means that the row is there.
* **Consume loop.** Crashes between handling and offset commit, rebalances while a message
  is in hand, commits by members of an older generation, failing messages, shutdown at any
  point. Correct when nothing is passed over unseen, order is kept, redelivery is harmless,
  every message is met in the end and a stopping process stops.
* **Producer.** Two writes that are not atomic, writes that fail and arrive all the same.
  Correct when the topics agree as far as promised and successive events stay in order.
* **User service.** Read-modify-write over several statements by concurrent requests, and a
  dual write. Correct when emails are unique, events tell of committed changes, and
  updates and deletes do what they say.
* **Codecs.** Two formats, zero values, schemas of different age. Correct when an event keeps
  its id and content on the way, and old messages still decode.
* **Process.** Instances start together, die half-way through a migration, race to create
  topics; the listener fails, a signal arrives, the drain times out. Correct when the schema
  is migrated once and in order, nobody serves unprepared, what is cut off is reported, and a
  process ends when it is told to.
* **All of it.** Requests, publications, retries, codecs and deduplication in a row. Correct
  when consumers learn only what was committed and, when all is quiet, what is so.

`PROJECT.json` lists the components with what is and is not modelled, and every hazard at
the line where it bites with the properties that watch it.

## 2. The modules

```
OncePerKey  <---refines---  IdempotentHandler  <---INSTANCE---  TopicConsumer
                                   |                                 |
                       IdempotentHandlerProofs  <--INSTANCE--  TopicConsumerProofs

Delivery  <---refines---  TopicConsumer
    TopicConsumerProofs  <---EXTENDS---  DeliveryProofs

Producer  <---INSTANCE---  UserService  <---EXTENDS---+
              Codec                     <---EXTENDS---+--- Pipeline
              Delivery                  <---INSTANCE--+        |
                                                               |
UserService  <---EXTENDS---  UserServiceProofs  <---EXTENDS----+
Codec        <---EXTENDS---  CodecProofs        <---EXTENDS----+--- PipelineProofs

Migration, Provisioning  <---INSTANCE---  Process  <---EXTENDS---  ProcessProofs
```

Operators whose name ends in `Mutant` are what the operator below them would be with a
plausible bug in it. No specification uses them; `PROJECT.json` pairs each with the
property it breaks, which shows that the property depends on that line of code.

### IdempotentHandler (and OncePerKey)

One worker is one goroutine that calls the handler. `pc[w]` is where it is: `insert`
(`RecordIfNotExists`), `inner`, `commit`, `dup` (a duplicate, about to commit nothing),
`bare` (no event id, so no transaction), and the answers `ok` (nil) and `err`. `processed`
is the table. A transaction whose client is dead or has been told of an error lives on as
`orphan[k]` until Postgres resolves it; if COMMIT had been sent, it may still commit. An
INSERT waits while any open transaction holds its key, because of the primary key of
migration 000002. The inner handler is not given `tx`, so the model separates a run of
inner that returned nil (`succeeded`) from one whose transaction committed (`applied`).
`LoggingHandler` never fails; the wrapper is modelled for any inner handler, as its
interface and its tests (rollback on failure) have it.

`OncePerKey` is the promise without a database: work becomes durable at most once per key,
only after it succeeded, and a caller is told nil only when it is durable. The refinement
maps `applied` to its `effects`, `pc` to a status, and `key` to what was asked.

### TopicConsumer

Instances of the service × consumer groups, each running `topicConsumer.run`; `loop[c]` is
the place in the loop, `hand[c]` the message. Kafka is modelled by what the loop relies on:
logs, one committed offset per group and partition, an assignment, members that have
joined the current generation (`joined`), what a reader fetches from (`claim`) and its
cursor (`position`). A reader may keep fetching what it was assigned before a rebalance
until it rejoins, and a commit sent after it rejoined is accepted whoever owns the
partition: kafka-go commits with the member's current generation. Decoding has three
outcomes: an event, malformed, or (avro) a schema that is neither cached nor answered by
the registry; a malformed message may name a schema, which is cached all the same. The dedup handler is the instance `H`; `HandlerAnswered` and the actions
around it conjoin its actions with the loop's. `Start`, `Stop`, `Exit` and `Crash` are
the process as main.go runs it; `Crash` also stands for a shutdown that times out, since
run then returns without `wg.Wait()` (main.go:134).

### Producer and UserService

A request goes through `read`, `write`, (`upsert`,) `publish` to an answer; each statement is
one step, as each is a transaction of its own in the code. `user[r]` is the `*models.User`
the request holds between statements. `Store` is a statement that commits (and the call of
`PublishUserEvent` that follows without touching anything shared), `Fallback` the second
statement of gorm's `Save` when the first found no live row, `DeleteNothing` a delete that
changed no row. A failed COMMIT leaves the request in `doubt` until `Settle` decides it. `P`
is the Producer: an attempt to write that nobody waits for any more, be it of a failed call
or one whose retry was acknowledged, is `flying` until it lands or is lost; events carry the identity of the request, as `event_id` is new per request.
`before[r]`, the requests answered when r was sent, gives properties about real time: two
requests are in sequence or they overlap. Age is one more optional field like name. `Count`
and `Page` are the two statements of `List`; which live users are on a page is left open
(`created_at` may tie, and instances have clocks of their own), how many is not.

### Codec, Delivery and Pipeline

`Codec` has operators only: a frame is its magic byte, schema id and rest; an Avro payload is
the sequence of values in the order of the writer's schema, a Protobuf payload the set of
fields that are present. Decoding is defined on any message, with `AvroAccepts` and
`ProtoAccepts` for the error returns. Avro keeps milliseconds, Protobuf everything; a time is
a number of units since the Unix epoch, `PerMilli` to a millisecond, except for `ZeroTime`,
Go's `time.Time{}`, which stands for a timestamp that the avro writer's schema does not have.

`Delivery` says what `TopicConsumer` and `IdempotentHandler` promise together, without
readers, offsets, generations and transactions: a message is met when the fates of the
earlier ones in its partition are known, is handled or fails or both, and its work is
committed once, before it counts as handled.

`Pipeline` extends `UserService` with the consuming side. It keeps no wire of its own: the
messages of a topic are computed from what the producer has written (`EventOf` is
`publishEvent`) and from a backlog with `Codec`, and `log`, the log of `Delivery`, is what the
consumers see of them when they decode them. `view` is a consumer that remembers what the
last event said whose work was committed. The two groups share neither topic, nor offsets, nor
marker rows (the primary key has group and topic), so each behaviour follows one group,
chosen at the start. A partition per user stands for the hashed partitions, since no property
relates two users' events.

### Migration, Provisioning and Process

`Process` is `run` of main.go. `phase[i]` is the statement it is at; `Proceed(i)` collects what
it does next, and the other actions are what happens to it: failing calls, signals, kills,
the listener, requests, messages. The variables of `Migration` (RunMigrations, with
golang-migrate's lock, version and dirty flag as external actions) and of `Provisioning`
(EnsureTopics) are its own, by INSTANCE. Requests and messages are counters and flags here,
as only their being open matters to the shutdown. `Vanish` ends a process on every path: its
connections close, a command that was on the wire is executed or not.

## 3. The runs

| Run | Instance | What it shows |
|---|---|---|
| `handler` | 2 workers, 2 keys | all handler invariants, the refinement of `OncePerKey`, and that no call waits for ever |
| `handler_once` | the same | inner can succeed twice for one event (finding) |
| `consumer_pair` | 2 instances, 1 group, 1 partition, 2 messages, 2 stops or crashes, 1 extra rebalance | safety of the loop with the real handler under rebalances and late commits, how far back these take a group, and the refinement of `Delivery` |
| `consumer_restart` | 1 instance, 3 messages, 2 stops or crashes | committed offsets do not go back without rebalances; every message settles; a stopping process ends |
| `consumer_skip` | 1 instance | a failed message is passed over for good (finding) |
| `users` | 3 requests out of two partial updates, read, list, delete and a competing create; 2 users, 2 names, 2 emails; 1 failing publication | unique emails, earned events, order, sequential updates and deletes |
| `users_end` | 2 requests, lists among them, 2 live users and room for a third, each write leaving 1 or 2 copies at once or later, 1 failing publication | a list adds up, every request ends and publication failures do not fail it |
| `process` | 2 instances, 2 migration files, 1 topic, 1 request at a time each, 2 faults | migrations and topics of instances that start together, serving only what is prepared, draining, ending, coming up again |
| `pipeline` | 2 requests out of a create, two partial updates and a delete, 2 users, 1 failing publication, a backlog of garbage (Protobuf) or an event without id (Avro) | from request to consumer: ids and contents survive, only committed changes are told, and quiet views are current |
| `users_fields`, `users_deleted`, `users_order` | 2 requests | lost update, revived user, publish order (findings) |

**Bounds.** Two workers (instances) are enough for a conflict on a key: the primary key
relates two transactions at a time. Two messages in one partition are the least for "a
later commit passes over an earlier message"; three, for one before and one after. Two
stops or crashes let one interrupt the recovery from another. `MaxLog`, `MaxRestarts` and
`MaxRebalances` bound only how often the world acts, never what the loop may do. Three
requests are one that is answered before the others, which overlap; every finding needs
two. Two faults let one hit the recovery from another (a kill in a migration and one at the
next start), and two files have a state between them. In `pipeline` the requests differ only
in their names, so it is checked up to symmetry. For every safety property of the passing
runs the proofs below remove the bounds: TLC's instances matter for liveness and findings.

**Fairness.** `CallsReturn`, `EveryMessageSettles`, `StopEnds` and `RequestsEnd` assume that
calls return: kafka-go, database/sql and net/http have timeouts or a `ctx`, and Postgres
ends transactions whose client is gone. Fetching and the handler's INSERT have strong
fairness: a fetch may fail any number of times but not for ever, and Postgres queues lock
waiters. A process that is down is started again by its operator. Nothing assumes that a
failure, a message, a stop or a crash happens.

`Ends` and `ComesUp` assume that what `run` does next is done, be it after waiting in turn
(strong fairness of `Proceed`: a process that waits for the migration lock may see it taken
again and again); that a handler returns; and that a consumer for which both a message and
the cancelled ctx are ready does not take the message for ever (select chooses at random).
They assume nothing of open requests: the shutdown has a timeout. `ComesUp` exempts a
database that stays dirty, which nothing in the code repairs.

**Deadlock** is checked for the handler, the loop and the process. `UserService` and `Pipeline`
stop when all requests have ended, so their runs switch the check off.

### Findings

1. *idempotent_handler.go:32, "called exactly once".* Inner succeeds, the COMMIT fails, the
   event is redelivered and inner runs again. README.md says as much (inner's side effects
   are not part of the transaction); the comment does not.
2. *consumer.go:106-108, "re-delivered after a restart".* A failed message is redelivered only
   if nothing later in its partition was committed before the restart.
3. *user_service.go:33, "omitted fields are left unchanged".* Overlapping updates lose fields.
4. *Deleted users come back* (user_repository.go:79) when an update overlaps the delete.
5. *README.md:42, "in order".* Events of one user can be published in another order than their
   writes committed.

## 4. The proofs

`IdempotentHandlerProofs`, for any sets of workers and keys, assumes only that the empty
key is no key. The inductive invariant `IInv` is the conjunction of the checked invariants
with `CommitsAreEarned` (a COMMIT is sent only after inner succeeded, which `RowsAreEarned`
needs when an orphan lands) and `BareHasNoKey`. `OneOpenTransaction` carries the argument:
only the one transaction that holds a key can commit its row, and while there is one the
row is not committed, so `applied[k]` goes from 0 to 1 and never further. Proved:
`TypeCorrect`, `OneTransactionPerKey`, `AppliedOnce`, `RowsEarned`, `NilIsProcessed` and
`ImplementsOncePerKey` (the refinement, step by step from the same invariant).

`TopicConsumerProofs`, for any instances, groups, partitions, events and bounds, assumes
`ConstantsAssumption`. It proves `TypeCorrect`, `NoMessageSkipped`, `CommitsFollowHandling`,
`PartitionsInOrder`, `ExactlyOnce`, and `LoopsUseTheHandler` (the composed system
implements the handler's specification), from an inductive invariant whose additional
parts are:

* `CursorsBehind`: what a reader is past has settled or is in its own hand;
* `HandsBehind`: everything below a message in hand has settled, and a message about to be
  committed has been handled. Neither mentions who owns the partition, which is why late
  commits of old members do no harm;
* `FatesExist`, `DownIsStopped`, and `HandlerOnHand` (the handler's key is that of the message
  in hand), which ties the handler's invariant to the loop's.

The effect of a step on each part of the state is a lemma (`CommittedStep`, `FateStep`,
`LogStep`, `CursorStep`, `HandStep`), and the preservation of each invariant follows from
those instead of from every action. The handler's own proofs are used through `HP`.

A member that commits a message of an earlier generation takes the committed offset back.
`LateCommitsAreBounded` says how far, for any instances and rebalances and without any
assumption on the timing: once a group is past an offset (`Past`: committed beyond it, every
reader that fetches from the partition is beyond it, and nobody works on an older message),
it stays past it, so that message is never fetched again. A commit stores an offset beyond
the message in hand, a reader that joins starts from the committed offset, and fetching only
moves forward. It follows from the effect lemmas and `ClaimStep` with no invariant of its own.

`OffsetsNeverRegress` is not true of the code in general, but `LoneInstanceAdvances` proves it
for one instance without spontaneous rebalances, the system of the run `consumer_restart`: by
`LoneReader`, no partition is left for the coordinator to give away while the reader fetches
anything, so that it never holds a message of an earlier generation (`HandsInGeneration`);
and then (lemma `OffsetsOnlyAdvance`, by `MembersAhead`) a member's partitions are its own,
and what it holds or fetches next is not committed.

`DeliveryProofs` proves `ImplementsDelivery`, the refinement of `Delivery`, under the same
assumption on the constants. Most steps are stutters; the lemmas say which are not. Beyond
`IInv` it needs two facts. `HandDecoded`: the handler only gets what a codec accepts.
`OrphansMet`: a transaction that outlives its client is about an event whose message has
been met. The message is in nobody's hand any more when such a transaction commits, so
nothing about hands can justify that step; the fact has to be carried from the crash on,
and it stays true since logs only grow and fates are never forgotten (`MetStays`).

`CodecProofs`, for any texts, times and registries: `AnySchemaDecodes` (a message of any
writer's schema that names no field twice decodes to the fields that schema has, and zero
values for the others: a message from before `event_id` has an empty one), and from it
`AvroRoundTrip`; and `ProtoRoundTrip`, which needs that the fields left out are those that
decode to the value they had.

`ProcessProofs`, for any instances, files, topics, requests and faults, assumes
`ProcessAssumption`. It proves `TypesHold`, `VersionTold`, `ServesPrepared` and
`ClosesDrained` from an inductive invariant of three layers, each preserved by its own
component's actions, so that `Process` only adds which of them a step is:

* `MigrationInv`: whoever works on the database holds the lock (`Excluded`), and where an
  instance is says what version, dirty flag and executed files are (`FilePlace`). An instance
  that has got through needs a clean final version, which nobody at a file can then have;
* `TopicInv`: what an instance has not found it is still going to create (`Found`);
* `Prepared` and `Ending`: what is ready when a process has got so far, and what has stopped.
  The listener's state links the two ways to the end: a request can be accepted only while it
  is open, and Shutdown has closed it before `run` waits.

`UserServiceProofs`, for any requests, users, names, emails, calls and any table to start
with, assumes `ServiceAssumption`. Users are finitely many there, as in any table: only
`ListsAddUp` counts them. Producer's actions are part of it by INSTANCE. `Basics` is what
all of it rests on: types, what a request's stage says of its call, user, publication and
history (`Control`), and that transactions in doubt hold rows of their own. `RowStep`,
`ProducerStep` and `TopicStep` say what a step can do to table and topics. On top of that:

* `LiveEmailsUnique` by `DoubtApart`: a transaction in doubt clashes neither with a live row
  nor with another one in doubt, so that they may commit late and in any order;
* `EventsTellOfCommits` by `EarnedInv`: who publishes has committed, or has found a row gone
  that was there, which only a committed delete explains;
* `ProtoFollowsAvro` by `TopicInv`: what is acknowledged is in the topic, and nothing goes to
  proto before avro has acknowledged it; `AnswersOrderEvents` from the same;
* `DeletedUsersStayAway` by `GoneInv` and `CreatesAlone`: a deleted user is live again only if
  an update overlapped the delete, and nobody else works on the user of an open create;
* `LoneUpdateKeepsTheRest` by `LoneIsFresh`: what a lone update has read is still so;
* `ListsAddUp` by `CountDrifts`: each commit since the count has changed it by at most one.

`PipelineProofs`, on top of those and of the codecs' round trips, assumes
`PipelineAssumption`: what is in the topics at first is garbage or has no event id. `LogFits`
says that the consumers' log is the encoded and decoded wire, backlog first; it ties the two
sides together, and lets every message be traced to its request.

* `PublicationsKeepTheirId`: the id that is found is the one that was given, and by `Delivery`
  its work is committed once (`DeliveryFits`);
* `ConsumersLearnWhatWasSo` by `ViewsKnown`, which states `ViewsEarned` in terms that later
  steps cannot change, and `EventsTellOfCommits`;
* `ConsumersCatchUp` in two halves. `RowsFollow` is about the table: when the writers of a
  user came one after the other, its row is what the last one has made it. `ViewsFollow` is
  about the topic: the group has worked off a prefix of the messages, and the last of them
  that taught something is a first copy. `AnswersOrderEvents` joins them: the last writer's
  event has no first copy of another behind it;
* `ConsumersDeliver`: every step is one of `Delivery` (or none), so what stands in for consume
  loop and handler here is what `ImplementsDelivery` proves of them.

Only model-checked is all liveness: `CallsReturn`, `EveryMessageSettles`, `StopEnds`,
`RequestsEnd`, `Ends` and `ComesUp` are out of the prover's reach.

## 5. Not modelled, and the plan

Not modelled, as they have no state or concurrency of their own: configuration (a file and
environment variables read into a struct), API docs and generated code, mocks. The web UI's
script runs in browsers and reaches the service only through its API; it has hazards of its
own (a reload that overtakes another renders an old page). Left out of modelled components:
refusals with 400, `/health`, and encoding errors, none of which changes state;
`GetByEmail` and `AutoMigrate`, which the service does not call.

Not covered by a property: messages without `event_id` are handled once per delivery, as the
code says they are.

Next: `WebUI`: the page's requests, answers that come out of order, the edit dialog.
