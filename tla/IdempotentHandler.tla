-------------------------- MODULE IdempotentHandler --------------------------
(***************************************************************************)
(* The handler that NewIdempotentHandler builds                            *)
(* (internal/kafka/idempotent_handler.go) and the processed_events table   *)
(* it keeps in Postgres (repository/processed_event_repository.go,         *)
(* db/migrations/000002).                                                  *)
(*                                                                         *)
(* One call of the handler inserts a marker row for the event, calls the   *)
(* inner handler and commits, all in one transaction. The inner handler    *)
(* runs outside that transaction as far as its own effects go (it is given *)
(* ctx, not tx), so the model tells apart a run of inner that returned nil *)
(* (`succeeded') from one whose transaction committed (`applied').         *)
(*                                                                         *)
(* Postgres is external and is modelled by what the code relies on: the    *)
(* primary key (consumer_group, topic, event_id) makes an INSERT wait for  *)
(* any open transaction that inserted the same key, and a client that dies *)
(* or loses its connection leaves a transaction behind that the server     *)
(* resolves later, possibly by committing it if COMMIT had been sent.      *)
(***************************************************************************)
EXTENDS Naturals, FiniteSets

CONSTANTS
    Workers,   \* goroutines that call the handler, one call at a time each
    Keys,      \* dedup keys <<consumer group (and so topic), event id>>
    NoKey      \* the key of an event whose event_id is empty

ASSUME NoKeyAssumption == NoKey \notin Keys

VARIABLES
    processed, \* committed rows of processed_events
    pc,        \* pc[w]: where worker w is in the handler
    key,       \* key[w]: the key of the event w is handling
    orphan,    \* orphan[k]: a transaction holding k that lost its client, by the
               \* last request that client sent
    succeeded, \* history: keys for which inner has returned nil
    applied    \* history: applied[k], how many such runs were committed

vars == <<processed, pc, key, orphan, succeeded, applied>>

Stages == {"idle", "insert", "inner", "commit", "dup", "bare", "ok", "err"}

Init ==
    /\ processed = {}
    /\ pc = [w \in Workers |-> "idle"]
    /\ key = [w \in Workers |-> NoKey]
    /\ orphan = [k \in Keys |-> "none"]
    /\ succeeded = {}
    /\ applied = [k \in Keys |-> 0]

------------------------------------------------------------------------------
\* Worker w has an open transaction in which the row of k is inserted.
Holds(w, k) == pc[w] \in {"inner", "commit"} /\ key[w] = k

\* Some open transaction has inserted k: another INSERT of k waits for it.
Locked(k) == orphan[k] # "none" \/ \E w \in Workers : Holds(w, k)

Goto(w, stage) == pc' = [pc EXCEPT ![w] = stage]

\* The transaction of k is committed: its row is there for everyone to see.
Land(k) ==
    /\ processed' = processed \union {k}
    /\ applied' = [applied EXCEPT ![k] = @ + 1]

------------------------------------------------------------------------------
(* Definitions called ...Mutant are what the operator after them would be   *)
(* with a plausible bug in it; the model never uses them. PROJECT.json says *)
(* which property each of them breaks.                                      *)

\* The early return for an empty event_id is missing.
CallMutant(w, k) ==
    /\ pc[w] = "idle"
    /\ Goto(w, "insert")
    /\ key' = [key EXCEPT ![w] = k]
    /\ UNCHANGED <<processed, orphan, succeeded, applied>>

\* The consume loop calls the handler. An empty event_id skips the database.
Call(w, k) ==
    /\ pc[w] = "idle"
    /\ Goto(w, IF k = NoKey THEN "bare" ELSE "insert")
    /\ key' = [key EXCEPT ![w] = k]
    /\ UNCHANGED <<processed, orphan, succeeded, applied>>

\* processed_events without its primary key.
RecordNewMutant(w) ==
    /\ pc[w] = "insert"
    /\ key[w] \notin processed
    /\ Goto(w, "inner")
    /\ UNCHANGED <<processed, key, orphan, succeeded, applied>>

\* INSERT ... ON CONFLICT DO NOTHING affects one row.
RecordNew(w) ==
    /\ pc[w] = "insert"
    /\ key[w] \notin processed
    /\ ~Locked(key[w])
    /\ Goto(w, "inner")
    /\ UNCHANGED <<processed, key, orphan, succeeded, applied>>

\* RowsAffected is not looked at.
RecordDuplicateMutant(w) ==
    /\ pc[w] = "insert"
    /\ key[w] \in processed
    /\ Goto(w, "inner")
    /\ UNCHANGED <<processed, key, orphan, succeeded, applied>>

\* RowsAffected = 0: a committed row is in the way.
RecordDuplicate(w) ==
    /\ pc[w] = "insert"
    /\ key[w] \in processed
    /\ Goto(w, "dup")
    /\ UNCHANGED <<processed, key, orphan, succeeded, applied>>

\* BEGIN or the INSERT fails (connection lost, ctx cancelled).
RecordFail(w) ==
    /\ pc[w] = "insert"
    /\ Goto(w, "err")
    /\ UNCHANGED <<processed, key, orphan, succeeded, applied>>

InnerOk(w) ==
    /\ pc[w] = "inner"
    /\ Goto(w, "commit")
    /\ succeeded' = succeeded \union {key[w]}
    /\ UNCHANGED <<processed, key, orphan, applied>>

\* The error of inner() is dropped and the transaction committed.
InnerFailMutant(w) ==
    /\ pc[w] = "inner"
    /\ Goto(w, "commit")
    /\ UNCHANGED <<processed, key, orphan, succeeded, applied>>

\* A deferred COMMIT runs whatever inner() returned.
InnerFailDeferMutant(w) ==
    /\ pc[w] = "inner"
    /\ Goto(w, "err")
    /\ orphan' = [orphan EXCEPT ![key[w]] = "commit"]
    /\ UNCHANGED <<processed, key, succeeded, applied>>

\* inner() returned an error: ROLLBACK is sent and the error returned at once.
InnerFail(w) ==
    /\ pc[w] = "inner"
    /\ Goto(w, "err")
    /\ orphan' = [orphan EXCEPT ![key[w]] = "rollback"]
    /\ UNCHANGED <<processed, key, succeeded, applied>>

CommitOk(w) ==
    /\ pc[w] = "commit"
    /\ Land(key[w])
    /\ Goto(w, "ok")
    /\ UNCHANGED <<key, orphan, succeeded>>

\* txErr is ignored.
CommitFailMutant(w) ==
    /\ pc[w] = "commit"
    /\ Goto(w, "ok")
    /\ orphan' = [orphan EXCEPT ![key[w]] = "commit"]
    /\ UNCHANGED <<processed, key, succeeded, applied>>

\* The whole transaction is retried until its COMMIT succeeds.
CommitFailRetryMutant(w) ==
    /\ pc[w] = "commit"
    /\ Goto(w, "insert")
    /\ orphan' = [orphan EXCEPT ![key[w]] = "commit"]
    /\ UNCHANGED <<processed, key, succeeded, applied>>

\* COMMIT returns an error, which does not tell whether it took effect.
CommitFail(w) ==
    /\ pc[w] = "commit"
    /\ Goto(w, "err")
    /\ orphan' = [orphan EXCEPT ![key[w]] = "commit"]
    /\ UNCHANGED <<processed, key, succeeded, applied>>

\* The COMMIT of a duplicate has nothing to write, but can fail as well.
DupCommit(w) ==
    /\ pc[w] = "dup"
    /\ Goto(w, "ok")
    /\ UNCHANGED <<processed, key, orphan, succeeded, applied>>

DupCommitFail(w) ==
    /\ pc[w] = "dup"
    /\ Goto(w, "err")
    /\ UNCHANGED <<processed, key, orphan, succeeded, applied>>

BareOk(w) ==
    /\ pc[w] = "bare"
    /\ Goto(w, "ok")
    /\ UNCHANGED <<processed, key, orphan, succeeded, applied>>

BareFail(w) ==
    /\ pc[w] = "bare"
    /\ Goto(w, "err")
    /\ UNCHANGED <<processed, key, orphan, succeeded, applied>>

\* The handler's return, nil (`ok') or an error (`err').
Return(w) ==
    /\ pc[w] \in {"ok", "err"}
    /\ Goto(w, "idle")
    /\ key' = [key EXCEPT ![w] = NoKey]
    /\ UNCHANGED <<processed, orphan, succeeded, applied>>

\* The process of every worker in ws dies. Their open transactions stay behind.
Die(ws) ==
    /\ pc' = [w \in Workers |-> IF w \in ws THEN "idle" ELSE pc[w]]
    /\ key' = [w \in Workers |-> IF w \in ws THEN NoKey ELSE key[w]]
    /\ orphan' = [k \in Keys |->
           IF \E w \in ws : pc[w] = "inner" /\ key[w] = k THEN "rollback"
           ELSE IF \E w \in ws : pc[w] = "commit" /\ key[w] = k THEN "commit"
           ELSE orphan[k]]
    /\ UNCHANGED <<processed, succeeded, applied>>

\* Postgres rolls an orphaned transaction back ...
OrphanRollback(k) ==
    /\ orphan[k] # "none"
    /\ orphan' = [orphan EXCEPT ![k] = "none"]
    /\ UNCHANGED <<processed, pc, key, succeeded, applied>>

\* ... or still executes the COMMIT it had been sent.
OrphanCommit(k) ==
    /\ orphan[k] = "commit"
    /\ orphan' = [orphan EXCEPT ![k] = "none"]
    /\ Land(k)
    /\ UNCHANGED <<pc, key, succeeded>>

------------------------------------------------------------------------------
Record(w) == RecordNew(w) \/ RecordDuplicate(w)
Inner(w) == InnerOk(w) \/ InnerFail(w)
Commit(w) == CommitOk(w) \/ CommitFail(w)
Dup(w) == DupCommit(w) \/ DupCommitFail(w)
Bare(w) == BareOk(w) \/ BareFail(w)
Resolve(k) == OrphanRollback(k) \/ OrphanCommit(k)

\* What happens inside one call, between Call and Return.
Step(w) == Record(w) \/ RecordFail(w) \/ Inner(w) \/ Commit(w) \/ Dup(w) \/ Bare(w)

Next ==
    \/ \E w \in Workers : \/ \E k \in Keys \union {NoKey} : Call(w, k)
                          \/ Step(w)
                          \/ Return(w)
    \/ \E ws \in SUBSET Workers : Die(ws)
    \/ \E k \in Keys : Resolve(k)

Spec == Init /\ [][Next]_vars

(* Inner returns (LoggingHandler does), Postgres answers a COMMIT and ends  *)
(* a transaction whose client is gone. An INSERT that waits for others gets *)
(* its turn because Postgres queues lock waiters, hence SF.                 *)
Fairness ==
    /\ \A w \in Workers : /\ SF_vars(Record(w))
                          /\ WF_vars(Inner(w))
                          /\ WF_vars(Commit(w))
                          /\ WF_vars(Dup(w))
                          /\ WF_vars(Bare(w))
    /\ \A k \in Keys : WF_vars(Resolve(k))

FairSpec == Spec /\ Fairness

------------------------------------------------------------------------------
(* Type invariant: only an event with an id gets as far as the database.    *)
TypeOK ==
    /\ processed \in SUBSET Keys
    /\ pc \in [Workers -> Stages]
    /\ key \in [Workers -> Keys \union {NoKey}]
    /\ orphan \in [Keys -> {"none", "rollback", "commit"}]
    /\ succeeded \in SUBSET Keys
    /\ applied \in [Keys -> Nat]
    /\ \A w \in Workers : pc[w] \in {"insert", "inner", "commit", "dup"} => key[w] \in Keys

(* At most one transaction at a time has the row of a key inserted, be its  *)
(* client alive or gone, and none has while a committed row exists. This is *)
(* what the dedup relies on when the same message is delivered to two       *)
(* members of a group, or redelivered while an old commit is in doubt.      *)
OneOpenTransaction ==
    \A k \in Keys :
        /\ \A w1, w2 \in Workers : Holds(w1, k) /\ Holds(w2, k) => w1 = w2
        /\ orphan[k] # "none" => \A w \in Workers : ~Holds(w, k)
        /\ Locked(k) => k \notin processed

(* A run of inner is committed at most once per (group, topic, event_id),   *)
(* and exactly as often as the marker row says, whatever is delivered twice *)
(* and whichever COMMIT is in doubt.                                        *)
AppliedAsRecorded ==
    \A k \in Keys : applied[k] = IF k \in processed THEN 1 ELSE 0

(* A marker row is there only if inner has succeeded on that event: a       *)
(* failed event is never taken for a processed one and skipped.             *)
RowsAreEarned == processed \subseteq succeeded

(* The caller gets nil for an event with an id only when its row is         *)
(* committed; on nil the consume loop commits the offset.                   *)
NilMeansProcessed ==
    \A w \in Workers : pc[w] \in {"dup", "ok"} /\ key[w] # NoKey => key[w] \in processed

(* What makes the invariants above inductive: a COMMIT is sent only after   *)
(* inner has succeeded, and a call without a key never meets the database.  *)
CommitsAreEarned ==
    /\ \A w \in Workers : pc[w] = "commit" => key[w] \in succeeded
    /\ \A k \in Keys : orphan[k] = "commit" => k \in succeeded

BareHasNoKey == \A w \in Workers : pc[w] = "bare" => key[w] = NoKey

IInv ==
    /\ TypeOK
    /\ OneOpenTransaction
    /\ AppliedAsRecorded
    /\ RowsAreEarned
    /\ NilMeansProcessed
    /\ CommitsAreEarned
    /\ BareHasNoKey

(* Every call is answered, or its process dies: an INSERT never waits for   *)
(* ever for the transactions of other workers and of dead clients.          *)
CallsReturn ==
    \A w \in Workers : pc[w] = "insert" ~> pc[w] \in {"ok", "err", "idle"}

(* idempotent_handler.go:32: "The inner handler is called exactly once per  *)
(* unique (consumer_group, topic, event_id)". Even counting only the runs   *)
(* that return nil, the code does not do that: see the README.              *)
InnerSucceedsOnce ==
    [][\A w \in Workers :
          pc[w] = "inner" /\ pc'[w] = "commit" => key[w] \notin succeeded]_vars

------------------------------------------------------------------------------
\* The wrapper implements OncePerKey.
Answer == [w \in Workers |->
    IF pc[w] = "idle" THEN "idle"
    ELSE IF pc[w] = "ok" THEN "nil"
    ELSE IF pc[w] = "err" THEN "error"
    ELSE "busy"]

Promise == INSTANCE OncePerKey
    WITH effects <- applied, status <- Answer, asked <- key

(* Every behaviour of the handler and its table is one OncePerKey allows.   *)
OncePerKeySpec == Promise!Spec
==============================================================================
