---------------------------- MODULE TopicConsumer ----------------------------
(***************************************************************************)
(* The consume loop of internal/kafka/consumer.go as main.go runs it: each *)
(* instance of the service has one topicConsumer per topic, each topic has *)
(* a consumer group of its own, and every message goes through fetch,      *)
(* decode, the idempotent handler and a manual commit of its offset.       *)
(*                                                                         *)
(* The loop and the process around it are the code's. Kafka and the        *)
(* kafka-go reader are external and modelled by what the loop relies on:   *)
(*   - a partition is an append-only log with one committed offset per     *)
(*     group; a commit stores "message offset + 1" whatever is stored;     *)
(*   - the coordinator assigns partitions to the live members of a group   *)
(*     and rejects commits of members that have not joined the current     *)
(*     generation;                                                         *)
(*   - a reader that joins starts again from the committed offsets, and    *)
(*     its cursor moves on at every fetch, whatever becomes of the message.*)
(***************************************************************************)
EXTENDS Naturals, Sequences, FiniteSets

CONSTANTS
    Instances,     \* processes of the service
    Groups,        \* consumer groups; each has the topic of its format to itself
    AvroGroups,    \* the groups whose decoder asks the schema registry
    Partitions,    \* partitions of a topic
    EventIds,      \* non-empty event ids
    NoEventId,     \* the empty event_id of a message from before the migration
    Schemas,       \* writer schemas of well-formed messages
    Garbage,       \* the "schema" of a message no decoder accepts
    PartitionOf,   \* PartitionOf[e]: the partition the hash balancer keys event e to
    NoMessage,     \* no message in hand
    NoOne,         \* the owner of an unassigned partition
    MaxLog,        \* bound: messages in a partition
    MaxRestarts,   \* bound: shutdowns and crashes
    MaxRebalances  \* bound: rebalances beyond those that give an orphaned partition away

Messages == [event : EventIds \union {NoEventId}, schema : Schemas \union {Garbage}]

ASSUME ConstantsAssumption ==
    /\ AvroGroups \subseteq Groups
    /\ NoEventId \notin EventIds
    /\ Garbage \notin Schemas
    /\ PartitionOf \in [EventIds \union {NoEventId} -> Partitions]
    /\ NoMessage \notin [partition : Partitions, offset : Nat]
    /\ NoOne \notin Instances
    /\ MaxLog \in Nat /\ MaxRestarts \in Nat /\ MaxRebalances \in Nat

Consumers == Instances \X Groups
InstanceOf(c) == c[1]
GroupOf(c) == c[2]

\* The dedup key: the group stands for the topic as well.
Keys == Groups \X EventIds
NoKey == <<>>

VARIABLES
    log,        \* log[g][p]: messages of partition p of the topic of g
    committed,  \* committed[g][p]: offset from which g continues after a restart
    owner,      \* owner[g][p]: the instance the coordinator has assigned p to
    joined,     \* joined[c]: c's reader is a member of the current generation
    claim,      \* claim[c]: the partitions c's reader fetches from
    position,   \* position[c][p]: c's fetch cursor
    mode,       \* mode[i]: the process is "down", "up" or "stopping" (ctx cancelled)
    loop,       \* loop[c]: where topicConsumer.run is
    hand,       \* hand[c]: the message that run is working on
    cache,      \* cache[i]: schemas in the cache of i's avro codec
    restarts,   \* bounds MaxRestarts ...
    rebalances, \* ... and MaxRebalances
    handled,    \* history: messages for which the handler returned nil
    failed,     \* history: messages that failed to decode or to be handled
    \* the variables of IdempotentHandler, one worker per consumer
    processed, pc, key, orphan, succeeded, applied

brokerVars == <<log, committed, owner>>
readerVars == <<joined, claim, position>>
loopVars == <<loop, hand>>
historyVars == <<handled, failed>>
budgetVars == <<restarts, rebalances>>
handlerVars == <<processed, pc, key, orphan, succeeded, applied>>
vars == <<brokerVars, readerVars, mode, loopVars, cache, budgetVars, historyVars, handlerVars>>

H == INSTANCE IdempotentHandler WITH Workers <- Consumers

Init ==
    /\ log = [g \in Groups |-> [p \in Partitions |-> <<>>]]
    /\ committed = [g \in Groups |-> [p \in Partitions |-> 0]]
    /\ owner = [g \in Groups |-> [p \in Partitions |-> NoOne]]
    /\ joined = [c \in Consumers |-> FALSE]
    /\ claim = [c \in Consumers |-> {}]
    /\ position = [c \in Consumers |-> [p \in Partitions |-> 0]]
    /\ mode = [i \in Instances |-> "down"]
    /\ loop = [c \in Consumers |-> "stopped"]
    /\ hand = [c \in Consumers |-> NoMessage]
    /\ cache = [i \in Instances |-> {}]
    /\ restarts = 0 /\ rebalances = 0
    /\ handled = {} /\ failed = {}
    /\ H!Init

------------------------------------------------------------------------------
\* Fetched messages by group, partition and offset (from 0, as in Kafka).
Exists(g, p, o) == o < Len(log[g][p])
MessageAt(g, p, o) == log[g][p][o + 1]
InHand(c) == MessageAt(GroupOf(c), hand[c].partition, hand[c].offset)
HandId(c) == <<GroupOf(c), hand[c].partition, hand[c].offset>>
KeyOf(g, m) == IF m.event = NoEventId THEN NoKey ELSE <<g, m.event>>

Settled(g, p, o) == <<g, p, o>> \in handled \union failed

Goto(c, place) == loop' = [loop EXCEPT ![c] = place]
Drop(c) == hand' = [hand EXCEPT ![c] = NoMessage]
Alive(i) == mode[i] # "down"

------------------------------------------------------------------------------
(* The world around the loop: producers, the coordinator, the reader.       *)

\* Somebody publishes a message; a retried publication repeats one.
Produce(g, m) ==
    LET p == PartitionOf[m.event] IN
    /\ Len(log[g][p]) < MaxLog
    /\ log' = [log EXCEPT ![g][p] = Append(@, m)]
    /\ UNCHANGED <<committed, owner, readerVars, mode, loopVars, cache, budgetVars,
                   historyVars, handlerVars>>

\* The coordinator starts a new generation of g with a new assignment.
Reassign(g, assignment) ==
    /\ \A p \in Partitions : Alive(assignment[p])
    /\ owner' = [owner EXCEPT ![g] = assignment]
    /\ joined' = [c \in Consumers |-> IF GroupOf(c) = g THEN FALSE ELSE joined[c]]
    /\ UNCHANGED <<log, committed, claim, position, mode, loopVars, cache, restarts,
                   historyVars, handlerVars>>

\* It must do so when a member has left partitions behind, ...
TakeOver(g) ==
    /\ \E p \in Partitions : owner[g][p] = NoOne
    /\ \E assignment \in [Partitions -> Instances] : Reassign(g, assignment)
    /\ UNCHANGED rebalances

\* ... and may at any time: a member has joined, or missed its heartbeats.
Rebalance(g) ==
    /\ rebalances < MaxRebalances
    /\ rebalances' = rebalances + 1
    /\ \E assignment \in [Partitions -> Instances] : Reassign(g, assignment)

(* As in IdempotentHandler, definitions called ...Mutant are plausible bugs *)
(* that PROJECT.json sets against the properties; the model never uses them.*)

\* The reader starts at the end of the log instead of the committed offset.
JoinAtEndMutant(c) ==
    LET g == GroupOf(c) IN
    /\ Alive(InstanceOf(c))
    /\ ~joined[c]
    /\ joined' = [joined EXCEPT ![c] = TRUE]
    /\ claim' = [claim EXCEPT ![c] = {p \in Partitions : owner[g][p] = InstanceOf(c)}]
    /\ position' = [position EXCEPT ![c] = [p \in Partitions |-> Len(log[g][p])]]
    /\ UNCHANGED <<brokerVars, mode, loopVars, cache, budgetVars, historyVars, handlerVars>>

\* The reader starts at the beginning of the log every time.
JoinAtStartMutant(c) ==
    LET g == GroupOf(c) IN
    /\ Alive(InstanceOf(c))
    /\ ~joined[c]
    /\ joined' = [joined EXCEPT ![c] = TRUE]
    /\ claim' = [claim EXCEPT ![c] = {p \in Partitions : owner[g][p] = InstanceOf(c)}]
    /\ position' = [position EXCEPT ![c] = [p \in Partitions |-> 0]]
    /\ UNCHANGED <<brokerVars, mode, loopVars, cache, budgetVars, historyVars, handlerVars>>

\* The reader, on goroutines of its own, joins the generation and starts again
\* from the committed offsets, while run may still work on an older message.
Join(c) ==
    LET g == GroupOf(c) IN
    /\ Alive(InstanceOf(c))
    /\ ~joined[c]
    /\ joined' = [joined EXCEPT ![c] = TRUE]
    /\ claim' = [claim EXCEPT ![c] = {p \in Partitions : owner[g][p] = InstanceOf(c)}]
    /\ position' = [position EXCEPT ![c] = committed[g]]
    /\ UNCHANGED <<brokerVars, mode, loopVars, cache, budgetVars, historyVars, handlerVars>>

------------------------------------------------------------------------------
(* topicConsumer.run.                                                       *)

\* ReadMessage, which commits as it fetches, in the place of FetchMessage.
FetchMutant(c, p) ==
    /\ loop[c] = "fetch"
    /\ p \in claim[c]
    /\ Exists(GroupOf(c), p, position[c][p])
    /\ hand' = [hand EXCEPT ![c] = [partition |-> p, offset |-> position[c][p]]]
    /\ position' = [position EXCEPT ![c][p] = @ + 1]
    /\ committed' = [committed EXCEPT ![GroupOf(c)][p] = position[c][p] + 1]
    /\ Goto(c, "decode")
    /\ UNCHANGED <<log, owner, joined, claim, mode, cache, budgetVars, historyVars,
                   handlerVars>>

\* FetchMessage returns a message; the cursor is past it from now on.
Fetch(c, p) ==
    /\ loop[c] = "fetch"
    /\ p \in claim[c]
    /\ Exists(GroupOf(c), p, position[c][p])
    /\ hand' = [hand EXCEPT ![c] = [partition |-> p, offset |-> position[c][p]]]
    /\ position' = [position EXCEPT ![c][p] = @ + 1]
    /\ Goto(c, "decode")
    /\ UNCHANGED <<brokerVars, joined, claim, mode, cache, budgetVars, historyVars,
                   handlerVars>>

\* FetchMessage fails: back off. (io.EOF only polls again: a stutter.)
FetchError(c) ==
    /\ loop[c] = "fetch"
    /\ mode[InstanceOf(c)] = "up"
    /\ Goto(c, "backoff")
    /\ UNCHANGED <<brokerVars, readerVars, mode, hand, cache, budgetVars, historyVars,
                   handlerVars>>

\* A cancelled ctx is taken for one more transient error.
FetchCancelledMutant(c) ==
    /\ loop[c] = "fetch"
    /\ mode[InstanceOf(c)] = "stopping"
    /\ UNCHANGED vars

\* FetchMessage reports the cancelled ctx: run returns.
FetchCancelled(c) ==
    /\ loop[c] = "fetch"
    /\ mode[InstanceOf(c)] = "stopping"
    /\ Goto(c, "stopped")
    /\ UNCHANGED <<brokerVars, readerVars, mode, hand, cache, budgetVars, historyVars,
                   handlerVars>>

\* No codec makes an event of the message.
Malformed(c) == InHand(c).schema = Garbage

\* The avro codec has to ask the registry for the writer's schema.
Unresolved(c) == GroupOf(c) \in AvroGroups /\ InHand(c).schema \notin cache[InstanceOf(c)]

\* The avro codec remembers schema s for the instance that c is part of.
Remember(c, s) ==
    cache' = IF GroupOf(c) \in AvroGroups
             THEN [cache EXCEPT ![InstanceOf(c)] = @ \union {s}]
             ELSE cache

\* The message is well-formed and its schema known: run calls the handler.
DecodeOk(c) ==
    /\ loop[c] = "decode"
    /\ ~Malformed(c)
    /\ Remember(c, InHand(c).schema)
    /\ Goto(c, "handle")
    /\ H!Call(c, KeyOf(GroupOf(c), InHand(c)))
    /\ UNCHANGED <<brokerVars, readerVars, mode, hand, budgetVars, historyVars>>

\* The `continue' after a decode error is missing.
DecodeFailMutant(c) ==
    /\ loop[c] = "decode"
    /\ Malformed(c)
    /\ failed' = failed \union {HandId(c)}
    /\ Drop(c)
    /\ Goto(c, "handle")
    /\ UNCHANGED <<brokerVars, readerVars, mode, cache, budgetVars, handled, handlerVars>>

\* The message is garbage, or the registry did not answer for its schema: the
\* message is logged, left uncommitted, and run backs off. Garbage may name a
\* schema that the registry knows; writerSchema caches it before the payload is
\* found not to fit.
DecodeFail(c) ==
    /\ loop[c] = "decode"
    /\ Malformed(c) \/ Unresolved(c)
    /\ \/ UNCHANGED cache
       \/ Malformed(c) /\ \E s \in Schemas : Remember(c, s)
    /\ failed' = failed \union {HandId(c)}
    /\ Drop(c)
    /\ Goto(c, "backoff")
    /\ UNCHANGED <<brokerVars, readerVars, mode, budgetVars, handled, handlerVars>>

BackoffElapsed(c) ==
    /\ loop[c] = "backoff"
    /\ Goto(c, "fetch")
    /\ UNCHANGED <<brokerVars, readerVars, mode, hand, cache, budgetVars, historyVars,
                   handlerVars>>

BackoffCancelled(c) ==
    /\ loop[c] = "backoff"
    /\ mode[InstanceOf(c)] = "stopping"
    /\ Goto(c, "stopped")
    /\ UNCHANGED <<brokerVars, readerVars, mode, hand, cache, budgetVars, historyVars,
                   handlerVars>>

\* A step inside the handler. With ctx cancelled, every new call to the database
\* fails: an INSERT or a COMMIT that succeeds has done so before.
HandlerAnswered(c) ==
    /\ loop[c] = "handle"
    /\ \/ mode[InstanceOf(c)] = "up" /\ (H!Record(c) \/ H!Commit(c) \/ H!Dup(c))
       \/ mode[InstanceOf(c)] = "stopping"
             /\ (H!RecordFail(c) \/ H!CommitFail(c) \/ H!DupCommitFail(c))
       \/ H!Inner(c)
       \/ H!Bare(c)
    /\ UNCHANGED <<brokerVars, readerVars, mode, loopVars, cache, budgetVars, historyVars>>

\* The database is unreachable while the service is up.
HandlerRecordFail(c) ==
    /\ loop[c] = "handle"
    /\ mode[InstanceOf(c)] = "up"
    /\ H!RecordFail(c)
    /\ UNCHANGED <<brokerVars, readerVars, mode, loopVars, cache, budgetVars, historyVars>>

HandlerNil(c) ==
    /\ loop[c] = "handle"
    /\ pc[c] = "ok"
    /\ H!Return(c)
    /\ handled' = handled \union {HandId(c)}
    /\ Goto(c, "commit")
    /\ UNCHANGED <<brokerVars, readerVars, mode, hand, cache, budgetVars, failed>>

\* The `continue' after a handler error is missing.
HandlerErrorMutant(c) ==
    /\ loop[c] = "handle"
    /\ pc[c] = "err"
    /\ H!Return(c)
    /\ failed' = failed \union {HandId(c)}
    /\ Goto(c, "commit")
    /\ UNCHANGED <<brokerVars, readerVars, mode, hand, cache, budgetVars, handled>>

\* The handler's error: logged, not committed, and on to the next message at once.
HandlerError(c) ==
    /\ loop[c] = "handle"
    /\ pc[c] = "err"
    /\ H!Return(c)
    /\ failed' = failed \union {HandId(c)}
    /\ Drop(c)
    /\ Goto(c, "fetch")
    /\ UNCHANGED <<brokerVars, readerVars, mode, cache, budgetVars, handled>>

\* CommitMessages stores the offset of the next message, whatever is stored.
StoreOffset(c) ==
    committed' = [committed EXCEPT ![GroupOf(c)][hand[c].partition] = hand[c].offset + 1]

CommitOffset(c) ==
    /\ loop[c] = "commit"
    /\ joined[c]
    /\ StoreOffset(c)
    /\ Drop(c)
    /\ Goto(c, "fetch")
    /\ UNCHANGED <<log, owner, readerVars, mode, cache, budgetVars, historyVars, handlerVars>>

\* CommitMessages returns an error. The broker may have stored the offset.
CommitOffsetFail(c) ==
    /\ loop[c] = "commit"
    /\ \/ UNCHANGED committed
       \/ joined[c] /\ StoreOffset(c)
    /\ Drop(c)
    /\ Goto(c, "fetch")
    /\ UNCHANGED <<log, owner, readerVars, mode, cache, budgetVars, historyVars, handlerVars>>

------------------------------------------------------------------------------
(* The process (cmd/server/main.go).                                        *)

ConsumersOf(i) == {i} \X Groups

\* run starts both consumers; their readers have yet to join their groups.
Start(i) ==
    /\ mode[i] = "down"
    /\ mode' = [mode EXCEPT ![i] = "up"]
    /\ loop' = [c \in Consumers |-> IF InstanceOf(c) = i THEN "fetch" ELSE loop[c]]
    /\ UNCHANGED <<brokerVars, readerVars, hand, cache, budgetVars, historyVars, handlerVars>>

\* SIGINT or SIGTERM cancels ctx.
Stop(i) ==
    /\ mode[i] = "up"
    /\ restarts < MaxRestarts
    /\ restarts' = restarts + 1
    /\ mode' = [mode EXCEPT ![i] = "stopping"]
    /\ UNCHANGED <<brokerVars, readerVars, loopVars, cache, rebalances, historyVars,
                   handlerVars>>

\* The process is gone: its memory, its readers and its place in the groups.
Gone(i) ==
    /\ mode' = [mode EXCEPT ![i] = "down"]
    /\ owner' = [g \in Groups |-> [p \in Partitions |->
                    IF owner[g][p] = i THEN NoOne ELSE owner[g][p]]]
    /\ joined' = [c \in Consumers |-> IF InstanceOf(c) = i THEN FALSE ELSE joined[c]]
    /\ claim' = [c \in Consumers |-> IF InstanceOf(c) = i THEN {} ELSE claim[c]]
    /\ position' = [c \in Consumers |->
                       IF InstanceOf(c) = i THEN [p \in Partitions |-> 0] ELSE position[c]]
    /\ cache' = [cache EXCEPT ![i] = {}]
    /\ UNCHANGED <<log, committed, rebalances, historyVars>>

\* wg.Wait() is over: main closes the readers and exits.
Exit(i) ==
    /\ mode[i] = "stopping"
    /\ \A c \in ConsumersOf(i) : loop[c] = "stopped"
    /\ Gone(i)
    /\ UNCHANGED <<loopVars, restarts, handlerVars>>

\* The process dies, or main gives up waiting for open requests (its shutdown
\* times out) and exits with the consumers at work.
Crash(i) ==
    /\ Alive(i)
    /\ restarts < MaxRestarts
    /\ restarts' = restarts + 1
    /\ Gone(i)
    /\ loop' = [c \in Consumers |-> IF InstanceOf(c) = i THEN "stopped" ELSE loop[c]]
    /\ hand' = [c \in Consumers |-> IF InstanceOf(c) = i THEN NoMessage ELSE hand[c]]
    /\ H!Die(ConsumersOf(i))

\* Postgres ends a transaction whose client is gone.
ResolveOrphan(k) ==
    /\ H!Resolve(k)
    /\ UNCHANGED <<brokerVars, readerVars, mode, loopVars, cache, budgetVars, historyVars>>

------------------------------------------------------------------------------
ConsumerNext(c) ==
    \/ Join(c)
    \/ \E p \in Partitions : Fetch(c, p)
    \/ FetchError(c) \/ FetchCancelled(c)
    \/ DecodeOk(c) \/ DecodeFail(c)
    \/ BackoffElapsed(c) \/ BackoffCancelled(c)
    \/ HandlerAnswered(c) \/ HandlerRecordFail(c)
    \/ HandlerNil(c) \/ HandlerError(c)
    \/ CommitOffset(c) \/ CommitOffsetFail(c)

Next ==
    \/ \E g \in Groups : \/ \E m \in Messages : Produce(g, m)
                         \/ TakeOver(g) \/ Rebalance(g)
    \/ \E c \in Consumers : ConsumerNext(c)
    \/ \E i \in Instances : Start(i) \/ Stop(i) \/ Exit(i) \/ Crash(i)
    \/ \E k \in Keys : ResolveOrphan(k)

Spec == Init /\ [][Next]_vars

(* Calls return, sleeps end, the coordinator gives orphaned partitions away *)
(* and an operator restarts what is down. A fetch may fail again and again  *)
(* but not for ever (SF); an INSERT that waits for another transaction gets *)
(* its turn (SF). No fairness for errors, messages or crashes.              *)
Fairness ==
    /\ \A c \in Consumers :
        /\ WF_vars(Join(c))
        /\ \A p \in Partitions : SF_vars(Fetch(c, p))
        /\ WF_vars(FetchCancelled(c))
        /\ WF_vars(DecodeOk(c) \/ DecodeFail(c))
        /\ WF_vars(BackoffElapsed(c) \/ BackoffCancelled(c))
        /\ SF_vars(HandlerAnswered(c))
        /\ WF_vars(HandlerNil(c) \/ HandlerError(c))
        /\ WF_vars(CommitOffset(c) \/ CommitOffsetFail(c))
    /\ \A g \in Groups : WF_vars(TakeOver(g))
    /\ \A i \in Instances : WF_vars(Start(i)) /\ WF_vars(Exit(i))
    /\ \A k \in Keys : WF_vars(ResolveOrphan(k))

FairSpec == Spec /\ Fairness

------------------------------------------------------------------------------
Offsets(g, p) == 0 .. Len(log[g][p]) - 1
Holding(c) == loop[c] \in {"decode", "handle", "commit"}

BrokerTypeOK ==
    /\ log \in [Groups -> [Partitions -> Seq(Messages)]]
    /\ committed \in [Groups -> [Partitions -> Nat]]
    /\ owner \in [Groups -> [Partitions -> Instances \union {NoOne}]]

ReaderTypeOK ==
    /\ joined \in [Consumers -> BOOLEAN]
    /\ claim \in [Consumers -> SUBSET Partitions]
    /\ position \in [Consumers -> [Partitions -> Nat]]

LoopTypeOK ==
    /\ loop \in [Consumers -> {"stopped", "fetch", "decode", "handle", "commit", "backoff"}]
    /\ hand \in [Consumers -> [partition : Partitions, offset : Nat] \union {NoMessage}]
    /\ \A c \in Consumers : Holding(c) <=> hand[c] # NoMessage

ProcessTypeOK ==
    /\ mode \in [Instances -> {"down", "up", "stopping"}]
    /\ cache \in [Instances -> SUBSET Schemas]
    /\ restarts \in Nat /\ rebalances \in Nat

HistoryTypeOK ==
    /\ handled \in SUBSET (Groups \X Partitions \X Nat)
    /\ failed \in SUBSET (Groups \X Partitions \X Nat)

DataTypeOK ==
    BrokerTypeOK /\ ReaderTypeOK /\ LoopTypeOK /\ ProcessTypeOK /\ HistoryTypeOK

(* Type invariant: run has a message in hand exactly between a fetch and    *)
(* the end of its round.                                                    *)
TypeOK == DataTypeOK /\ H!TypeOK

(* No message is passed over unseen: below the committed offset of a group, *)
(* every message has been handled, or its failure has been met and logged,  *)
(* through crashes, rebalances and commits by members of an old generation. *)
NothingSkipped ==
    \A g \in Groups, p \in Partitions :
        \A o \in 0 .. committed[g][p] - 1 : Settled(g, p, o)

(* "The offset is committed only after the handler returns nil"             *)
(* (consumer.go:103): the message just below a committed offset has been    *)
(* handled, whoever committed it.                                           *)
CommitFollowsHandling ==
    \A g \in Groups, p \in Partitions :
        committed[g][p] > 0 => <<g, p, committed[g][p] - 1>> \in handled

(* Messages of a partition are met in order: when one has been handled, the *)
(* fate of every earlier one is known, be it by another instance.           *)
HandledInOrder ==
    \A g \in Groups, p \in Partitions : \A o \in Offsets(g, p) :
        <<g, p, o>> \in handled => \A below \in 0 .. o - 1 : Settled(g, p, below)

(* At-least-once delivery and the dedup wrapper together: the work on an    *)
(* event that was handled anywhere, at however many offsets and by however  *)
(* many instances, is committed exactly once.                               *)
HandledExactlyOnce ==
    \A g \in Groups, p \in Partitions : \A o \in Offsets(g, p) :
        <<g, p, o>> \in handled /\ MessageAt(g, p, o).event # NoEventId
            => applied[<<g, MessageAt(g, p, o).event>>] = 1

(* What makes the invariants above inductive. Everything a reader is past,  *)
(* except the message in its own hand, has settled; so has everything below *)
(* that message. The reader may have left the generation in which it was    *)
(* fetched: nothing here says that c owns the partition.                    *)
CursorsBehind ==
    \A c \in Consumers, p \in Partitions : \A o \in 0 .. position[c][p] - 1 :
        Settled(GroupOf(c), p, o) \/ hand[c] = [partition |-> p, offset |-> o]

HandBehind(c) ==
    /\ Exists(GroupOf(c), hand[c].partition, hand[c].offset)
    /\ \A o \in 0 .. hand[c].offset - 1 : Settled(GroupOf(c), hand[c].partition, o)
    /\ loop[c] = "commit" => HandId(c) \in handled

HandsBehind == \A c \in Consumers : Holding(c) => HandBehind(c)

\* Only messages of the log have a fate.
FatesExist ==
    \A g \in Groups, p \in Partitions, o \in Nat : Settled(g, p, o) => Exists(g, p, o)

\* A process that is down runs no loop.
DownIsStopped == \A c \in Consumers : mode[InstanceOf(c)] = "down" => loop[c] = "stopped"

\* The handler works on the message in hand, and only while run waits for it.
HandlerOnHand ==
    \A c \in Consumers :
        /\ pc[c] # "idle" <=> loop[c] = "handle"
        /\ loop[c] = "handle" => key[c] = KeyOf(GroupOf(c), InHand(c))

IInv ==
    /\ TypeOK
    /\ NothingSkipped /\ CommitFollowsHandling /\ HandledInOrder /\ HandledExactlyOnce
    /\ CursorsBehind /\ HandsBehind /\ FatesExist
    /\ DownIsStopped /\ HandlerOnHand
    /\ H!IInv

(* The loops, their readers, the coordinator and the processes together     *)
(* implement the in-order, once-per-event delivery of Delivery.             *)
D == INSTANCE Delivery
DeliverySpec == D!Spec

(* Every message in hand was fetched in the current generation of its       *)
(* group. The code does not see to that: whether it holds is up to the      *)
(* coordinator and the timing. OffsetsNeverRegress depends on it.           *)
HandsInGeneration == \A c \in Consumers : Holding(c) => joined[c]

(* What a member of the current generation may rely on, if all hands are in *)
(* it: its partitions are its own, what it fetches next is not committed    *)
(* yet, and neither is what it has in hand.                                 *)
MembersAhead ==
    \A c \in Consumers : joined[c] =>
        /\ claim[c] = {p \in Partitions : owner[GroupOf(c)][p] = InstanceOf(c)}
        /\ \A p \in claim[c] : committed[GroupOf(c)][p] <= position[c][p]
        /\ Holding(c) => /\ hand[c].partition \in claim[c]
                         /\ position[c][hand[c].partition] = hand[c].offset + 1
                         /\ committed[GroupOf(c)][hand[c].partition] <= hand[c].offset

(* Why a lone instance keeps its hands in the generation: while its reader  *)
(* fetches anything, no partition is left for the coordinator to give away. *)
LoneReader ==
    /\ \A g \in Groups, p, q \in Partitions : owner[g][p] = NoOne => owner[g][q] = NoOne
    /\ \A c \in Consumers :
        /\ claim[c] # {} => joined[c] /\ \A p \in Partitions : owner[GroupOf(c)][p] # NoOne
        /\ Holding(c) => claim[c] # {}

(* A committed offset never goes back, as long as HandsInGeneration holds   *)
(* (a commit by an old owner of the partition would take the group back):   *)
(* restarts do not make a group repeat what it had committed.               *)
OffsetsNeverRegress ==
    [][\A g \in Groups, p \in Partitions : committed'[g][p] >= committed[g][p]]_vars

(* Group g is past offset o: it is committed beyond o, every reader that    *)
(* fetches from p is beyond o, and nobody works on an earlier message.      *)
Past(g, p, o) ==
    /\ committed[g][p] > o
    /\ \A c \in Consumers : GroupOf(c) = g =>
          /\ p \in claim[c] => position[c][p] > o
          /\ Holding(c) /\ hand[c].partition = p => hand[c].offset >= o

(* A commit that comes late, from a member of an earlier generation, takes  *)
(* the group back at most to the slowest reader and the oldest message in   *)
(* hand: what the whole group is past is never fetched again, through       *)
(* rebalances, late commits, stops and crashes (consumer.go:158).       *)
PastStaysPast ==
    [][\A g \in Groups, p \in Partitions, o \in 0 .. MaxLog - 1 :
          Past(g, p, o) => Past(g, p, o)']_vars

(* Every message is handled or fails: neither a crash between handling and  *)
(* commit, nor a rebalance, nor a fetch that keeps failing leaves one       *)
(* waiting for ever.                                                        *)
EveryMessageSettles ==
    \A g \in Groups, p \in Partitions, o \in 0 .. MaxLog - 1 :
        Exists(g, p, o) ~> Settled(g, p, o)

(* A process told to stop ends: neither the fetch nor the back-off nor a    *)
(* handler waiting for a transaction keeps wg.Wait() from returning.        *)
StopEnds == \A i \in Instances : mode[i] = "stopping" ~> mode[i] = "down"

(* consumer.go:106-108: a message that fails "is re-delivered after a       *)
(* restart from the last committed offset". That needs the committed offset *)
(* to stay at or below a message that has failed and was never handled; the *)
(* code commits the next message past it: see the README.                   *)
FailedIsRedelivered ==
    \A g \in Groups, p \in Partitions : \A o \in Offsets(g, p) :
        <<g, p, o>> \in failed \ handled => committed[g][p] <= o
==============================================================================
