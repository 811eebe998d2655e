-------------------------------- MODULE Process --------------------------------
(***************************************************************************)
(* The life of the service's processes: run of cmd/server/main.go, on      *)
(* several instances that share a database, a Kafka cluster and a schema   *)
(* registry and start, end and fail independently.                         *)
(*                                                                         *)
(* A process prepares what it needs step by step, and any failure ends it. *)
(* It then serves HTTP and consumes both topics on goroutines of their own *)
(* until a signal comes or the listener fails. Requests and messages are   *)
(* counted here and worked on in UserService and TopicConsumer.            *)
(*                                                                         *)
(* net/http, os/signal and the Go runtime are external: Shutdown waits for *)
(* the open requests, up to a timeout; a signal ends the process unless    *)
(* NotifyContext has been called; what runs when main returns is cut off.  *)
(***************************************************************************)
EXTENDS Naturals, Sequences

CONSTANTS
    Instances, \* processes of the service
    Files,     \* files in migrations/
    Nobody,    \* the holder of a lock that is free
    Declared,  \* topics that the configuration declares
    MaxOpen,   \* bound: requests open at an instance
    MaxFaults  \* bound: signals, crashes and failing calls

ASSUME ProcessAssumption ==
    /\ Files \in Nat /\ Nobody \notin Instances
    /\ MaxOpen \in Nat /\ MaxFaults \in Nat

Formats == {"avro", "proto"}

VARIABLES
    phase,    \* phase[i]: where run is, "down" when there is no process
    result,   \* result[i]: what run is going to return
    listener, \* listener[i]: what has become of ListenAndServe
    told,     \* told[i]: ctx is cancelled
    consumer, \* consumer[i][f]: the goroutine of startConsumer
    open,     \* open[i]: HTTP requests being handled
    subjects, \* the subjects registered in the schema registry
    faults,   \* bounds MaxFaults
    \* the variables of Migration and of Provisioning
    holder, version, dirty, ran, up, file,
    topics, ensuring, toCreate, unsure

servingVars == <<listener, told, consumer, open>>
migrationVars == <<holder, version, dirty, ran, up, file>>
topicVars == <<topics, ensuring, toCreate, unsure>>
vars == <<phase, result, servingVars, subjects, faults, migrationVars, topicVars>>

M == INSTANCE Migration
T == INSTANCE Provisioning

Idle == [f \in Formats |-> "idle"]
Stopped == [f \in Formats |-> "stopped"]

Init ==
    /\ phase = [i \in Instances |-> "down"]
    /\ result = [i \in Instances |-> "none"]
    /\ listener = [i \in Instances |-> "closed"]
    /\ told = [i \in Instances |-> FALSE]
    /\ consumer = [i \in Instances |-> Stopped]
    /\ open = [i \in Instances |-> 0]
    /\ subjects = {}
    /\ faults = 0
    /\ M!Init /\ T!Init

Goto(i, p) == phase' = [phase EXCEPT ![i] = p]
Fault == faults < MaxFaults /\ faults' = faults + 1

------------------------------------------------------------------------------
(* Starting up. Every error is returned, and the process ends.              *)

Start(i) ==
    /\ phase[i] = "down"
    /\ Goto(i, "connect")
    /\ result' = [result EXCEPT ![i] = "none"]
    /\ UNCHANGED <<servingVars, subjects, faults, migrationVars, topicVars>>

\* db.Open has connected, and RunMigrations is called.
Connect(i) ==
    /\ phase[i] = "connect"
    /\ Goto(i, "migrate")
    /\ M!Call(i)
    /\ UNCHANGED <<result, servingVars, subjects, faults, topicVars>>

MigrationStep(i) ==
    /\ phase[i] = "migrate"
    /\ M!Step(i)
    /\ UNCHANGED <<phase, result, servingVars, subjects, faults, topicVars>>

\* RunMigrations has returned nil, and EnsureTopics is called.
Migrated(i) ==
    /\ phase[i] = "migrate"
    /\ up[i] = "ok"
    /\ Goto(i, "ensure")
    /\ T!Call(i)
    /\ UNCHANGED <<result, servingVars, subjects, faults, migrationVars>>

TopicStep(i) ==
    /\ phase[i] = "ensure"
    /\ T!Step(i) \/ T!CreatedOrNot(i)
    /\ UNCHANGED <<phase, result, servingVars, subjects, faults, migrationVars>>

\* EnsureTopics has returned nil, and NewProducer is called.
Ensured(i) ==
    /\ phase[i] = "ensure"
    /\ ensuring[i] = "ok"
    /\ Goto(i, "register avro")
    /\ UNCHANGED <<result, servingVars, subjects, faults, migrationVars, topicVars>>

(* Definitions called ...Mutant are plausible bugs that PROJECT.json sets   *)
(* against the properties; the model never uses them.                       *)

\* The listener is started before the second schema is registered.
RegisterAvroMutant(i) ==
    /\ phase[i] = "register avro"
    /\ subjects' = subjects \union {"avro"}
    /\ Goto(i, "register proto")
    /\ listener' = [listener EXCEPT ![i] = "starting"]
    /\ UNCHANGED <<result, told, consumer, open, faults, migrationVars, topicVars>>

RegisterAvro(i) ==
    /\ phase[i] = "register avro"
    /\ subjects' = subjects \union {"avro"}
    /\ Goto(i, "register proto")
    /\ UNCHANGED <<result, servingVars, faults, migrationVars, topicVars>>

\* The second schema is registered; consumers and listener get their goroutines.
RegisterProto(i) ==
    /\ phase[i] = "register proto"
    /\ subjects' = subjects \union {"proto"}
    /\ Goto(i, "serve")
    /\ consumer' = [consumer EXCEPT ![i] = Idle]
    /\ listener' = [listener EXCEPT ![i] = "starting"]
    /\ UNCHANGED <<result, told, open, faults, migrationVars, topicVars>>

\* The process ends, with everything that it had in memory or under way.
Vanish(i) ==
    /\ Goto(i, "down")
    /\ listener' = [listener EXCEPT ![i] = "closed"]
    /\ told' = [told EXCEPT ![i] = FALSE]
    /\ consumer' = [consumer EXCEPT ![i] = Stopped]
    /\ open' = [open EXCEPT ![i] = 0]
    /\ M!Die(i) /\ T!Die(i)

\* run returns an error before it serves.
GiveUp(i) ==
    /\ \/ phase[i] = "migrate" /\ up[i] = "err"
       \/ phase[i] = "ensure" /\ ensuring[i] = "err"
    /\ Vanish(i)
    /\ result' = [result EXCEPT ![i] = "error"]
    /\ UNCHANGED <<subjects, faults>>

\* A call of the migrator or of the Kafka client fails.
CallFails(i) ==
    /\ Fault
    /\ \/ phase[i] = "migrate" /\ M!Fail(i) /\ UNCHANGED topicVars
       \/ phase[i] = "ensure" /\ T!Fail(i) /\ UNCHANGED migrationVars
    /\ UNCHANGED <<phase, result, servingVars, subjects>>

\* The database or the schema registry does not answer.
ConnectFails(i) ==
    /\ phase[i] \in {"connect", "register avro", "register proto"}
    /\ Fault
    /\ Vanish(i)
    /\ result' = [result EXCEPT ![i] = "error"]
    /\ UNCHANGED subjects

------------------------------------------------------------------------------
(* Serving.                                                                 *)

Listen(i) ==
    /\ listener[i] = "starting"
    /\ listener' = [listener EXCEPT ![i] = "open"]
    /\ UNCHANGED <<phase, result, told, consumer, open, subjects, faults, migrationVars,
                   topicVars>>

\* ListenAndServe returns an error: the port is taken, or Accept has failed.
ListenError(i) ==
    /\ listener[i] \in {"starting", "open"}
    /\ Fault
    /\ listener' = [listener EXCEPT ![i] = "failed"]
    /\ UNCHANGED <<phase, result, told, consumer, open, subjects, migrationVars, topicVars>>

Accept(i) ==
    /\ listener[i] = "open"
    /\ open[i] < MaxOpen
    /\ open' = [open EXCEPT ![i] = @ + 1]
    /\ UNCHANGED <<phase, result, listener, told, consumer, subjects, faults, migrationVars,
                   topicVars>>

Answer(i) ==
    /\ open[i] > 0
    /\ open' = [open EXCEPT ![i] = @ - 1]
    /\ UNCHANGED <<phase, result, listener, told, consumer, subjects, faults, migrationVars,
                   topicVars>>

SetConsumer(i, f, from, to) ==
    /\ consumer[i][f] = from
    /\ consumer' = [consumer EXCEPT ![i][f] = to]
    /\ UNCHANGED <<phase, result, listener, told, open, subjects, faults, migrationVars,
                   topicVars>>

\* A message is fetched, be ctx cancelled or not, and worked off.
Take(i, f) == SetConsumer(i, f, "idle", "busy")
Finish(i, f) == SetConsumer(i, f, "busy", "idle")

\* The consumer waits for a message or sleeps, and sees that ctx is cancelled.
Quit(i, f) == told[i] /\ SetConsumer(i, f, "idle", "stopped")

\* SIGINT or SIGTERM cancels ctx, whatever run does by now.
Signal(i) ==
    /\ phase[i] = "serve"
    /\ ~told[i]
    /\ Fault
    /\ told' = [told EXCEPT ![i] = TRUE]
    /\ UNCHANGED <<phase, result, listener, consumer, open, subjects, migrationVars, topicVars>>

\* The process is killed, or gets a signal that it does not handle yet.
Kill(i) ==
    /\ phase[i] # "down"
    /\ Fault
    /\ Vanish(i)
    /\ result' = [result EXCEPT ![i] = "none"]
    /\ UNCHANGED subjects

------------------------------------------------------------------------------
(* Ending. The select of run takes any of the two channels that is ready.   *)

\* serveErr is received, but the consumers are not told to stop.
OnListenErrorMutant(i) ==
    /\ phase[i] = "serve"
    /\ listener[i] = "failed"
    /\ result' = [result EXCEPT ![i] = "error"]
    /\ Goto(i, "wait")
    /\ UNCHANGED <<servingVars, subjects, faults, migrationVars, topicVars>>

\* serveErr is received: stop() cancels ctx, and the consumers are waited for.
OnListenError(i) ==
    /\ phase[i] = "serve"
    /\ listener[i] = "failed"
    /\ told' = [told EXCEPT ![i] = TRUE]
    /\ result' = [result EXCEPT ![i] = "error"]
    /\ Goto(i, "wait")
    /\ UNCHANGED <<listener, consumer, open, subjects, faults, migrationVars, topicVars>>

\* ctx is done, and Shutdown closes the listener, if need be before it is open.
OnSignal(i) ==
    /\ phase[i] = "serve"
    /\ told[i]
    /\ listener' = [listener EXCEPT ![i] = "closed"]
    /\ Goto(i, "shutdown")
    /\ UNCHANGED <<result, told, consumer, open, subjects, faults, migrationVars, topicVars>>

\* Shutdown returns when the last open request has been answered.
ShutdownDone(i) ==
    /\ phase[i] = "shutdown"
    /\ open[i] = 0
    /\ result' = [result EXCEPT ![i] = "nil"]
    /\ Goto(i, "wait")
    /\ UNCHANGED <<servingVars, subjects, faults, migrationVars, topicVars>>

\* The error of Shutdown is dropped.
ShutdownTimeoutMutant(i) ==
    /\ phase[i] = "shutdown"
    /\ open[i] > 0
    /\ result' = [result EXCEPT ![i] = "nil"]
    /\ Goto(i, "wait")
    /\ UNCHANGED <<servingVars, subjects, faults, migrationVars, topicVars>>

\* Requests are open after ten seconds: run returns, and does not wait for anybody.
ShutdownTimeout(i) ==
    /\ phase[i] = "shutdown"
    /\ open[i] > 0
    /\ result' = [result EXCEPT ![i] = "error"]
    /\ Goto(i, "close")
    /\ UNCHANGED <<servingVars, subjects, faults, migrationVars, topicVars>>

\* wg.Wait returns.
Waited(i) ==
    /\ phase[i] = "wait"
    /\ consumer[i] = Stopped
    /\ Goto(i, "close")
    /\ UNCHANGED <<result, servingVars, subjects, faults, migrationVars, topicVars>>

\* The deferred calls close readers and writers, and main exits.
Close(i) ==
    /\ phase[i] = "close"
    /\ Vanish(i)
    /\ UNCHANGED <<result, subjects, faults>>

------------------------------------------------------------------------------
\* What the goroutine of main does next unless something fails.
Proceed(i) ==
    \/ Start(i) \/ Connect(i) \/ MigrationStep(i) \/ Migrated(i) \/ TopicStep(i) \/ Ensured(i)
    \/ RegisterAvro(i) \/ RegisterProto(i) \/ GiveUp(i)
    \/ OnListenError(i) \/ OnSignal(i) \/ ShutdownDone(i) \/ ShutdownTimeout(i)
    \/ Waited(i) \/ Close(i)

Next ==
    \E i \in Instances :
        \/ Proceed(i)
        \/ CallFails(i) \/ ConnectFails(i) \/ Signal(i) \/ Kill(i)
        \/ Listen(i) \/ ListenError(i) \/ Accept(i) \/ Answer(i)
        \/ \E f \in Formats : Take(i, f) \/ Finish(i, f) \/ Quit(i, f)

Spec == Init /\ [][Next]_vars

(* Calls return, the shutdown timeout included, and an operator restarts    *)
(* what is down; a process that waits for the migration lock gets it when   *)
(* it is free again and again (SF). A handler returns; and of a message and *)
(* a cancelled ctx a consumer does not choose the message for ever (SF):    *)
(* select chooses at random. Nothing is assumed of requests and faults.     *)
Fairness ==
    \A i \in Instances :
        /\ SF_vars(Proceed(i))
        /\ WF_vars(\E f \in Formats : Finish(i, f))
        /\ SF_vars(\E f \in Formats : Quit(i, f))

FairSpec == Spec /\ Fairness

------------------------------------------------------------------------------
Serving(i) == phase[i] \in {"serve", "shutdown", "wait", "close"}

TypeOK ==
    /\ phase \in [Instances -> {"down", "connect", "migrate", "ensure", "register avro",
                                "register proto", "serve", "shutdown", "wait", "close"}]
    /\ result \in [Instances -> {"none", "nil", "error"}]
    /\ listener \in [Instances -> {"closed", "starting", "open", "failed"}]
    /\ told \in [Instances -> BOOLEAN]
    /\ consumer \in [Instances -> [Formats -> {"idle", "busy", "stopped"}]]
    /\ open \in [Instances -> 0 .. MaxOpen]
    /\ subjects \in SUBSET Formats
    /\ faults \in 0 .. MaxFaults
    /\ M!TypeOK /\ T!TypeOK
    /\ \A i \in Instances : listener[i] # "closed" \/ told[i] => Serving(i)

(* However the migrations of several instances, their failures and their    *)
(* ends interleave, each file runs once, in order, and the version says so. *)
VersionTellsTruth == M!VersionTellsTruth

(* A process serves only what has been prepared, by itself or by others:    *)
(* the schema is complete and clean, the topics exist (unless an ignored    *)
(* error has hidden that they do not), both schemas are registered.         *)
ServingIsPrepared ==
    \A i \in Instances : Serving(i) =>
        /\ ~dirty /\ Len(ran) = Files
        /\ Declared \subseteq topics \/ i \in unsure
        /\ subjects = Formats

(* Nothing is cut off silently: when the readers and writers are closed and *)
(* run is going to return nil, all requests are answered and both consumers *)
(* have stopped. They have stopped, too, after the listener's failure.      *)
DrainedBeforeClose ==
    \A i \in Instances : phase[i] = "close" =>
        /\ result[i] = "nil" => open[i] = 0 /\ consumer[i] = Stopped
        /\ listener[i] = "failed" => consumer[i] = Stopped

(* A process that has been told to stop, or whose listener has failed, ends *)
(* although requests may never be answered and messages never run out.      *)
Ends == \A i \in Instances : told[i] \/ listener[i] = "failed" ~> phase[i] = "down"

(* Every instance serves again and again, whatever has happened, unless a   *)
(* migration was cut off half-way: nothing in the code cleans the database. *)
ComesUp == \A i \in Instances : []<>(phase[i] = "serve") \/ <>[]dirty
================================================================================
