-------------------------- MODULE TopicConsumerProofs --------------------------
(***************************************************************************)
(* Proofs about TopicConsumer, for any number of instances, groups,        *)
(* partitions and events and any bounds.                                   *)
(***************************************************************************)
EXTENDS TopicConsumer, TLAPS

\* What is proved about the handler, for the handlers of all consumers.
HP == INSTANCE IdempotentHandlerProofs WITH Workers <- Consumers

LEMMA NoKeyIsNoKey == NoKey \notin Keys
  BY DEF NoKey, Keys

LEMMA InstanceAndGroup ==
  \A c \in Consumers : InstanceOf(c) \in Instances /\ GroupOf(c) \in Groups
  BY DEF Consumers, InstanceOf, GroupOf

\* The message in hand is one of the log, and so are its event and schema.
LEMMA HandIsMessage ==
  ASSUME TypeOK, HandsBehind, NEW c \in Consumers, Holding(c)
  PROVE  /\ hand[c].partition \in Partitions /\ hand[c].offset \in Nat
         /\ InHand(c) \in Messages
         /\ KeyOf(GroupOf(c), InHand(c)) \in Keys \union {NoKey}
<1>1. hand[c] \in [partition : Partitions, offset : Nat]
  BY DEF TypeOK, DataTypeOK, LoopTypeOK
<1>2. log[GroupOf(c)][hand[c].partition] \in Seq(Messages)
  BY <1>1, InstanceAndGroup DEF TypeOK, DataTypeOK, BrokerTypeOK
<1>3. hand[c].offset < Len(log[GroupOf(c)][hand[c].partition])
  BY DEF HandsBehind, HandBehind, Exists
<1>4. InHand(c) \in Messages
  BY <1>1, <1>2, <1>3 DEF InHand, MessageAt
<1> QED
  BY <1>1, <1>4, InstanceAndGroup DEF KeyOf, Keys, Messages

(* Every step is a step of the handler component or leaves it alone. *)
LEMMA HandlerStep ==
  ASSUME TypeOK, HandsBehind, [Next]_vars
  PROVE  [H!Next]_(H!vars)
<1> USE DEF handlerVars, H!vars
<1>1. ASSUME NEW g \in Groups, NEW m \in Messages, Produce(g, m)
      PROVE  UNCHANGED H!vars
  BY <1>1 DEF Produce
<1>2. ASSUME NEW g \in Groups, TakeOver(g) \/ Rebalance(g)
      PROVE  UNCHANGED H!vars
  BY <1>2 DEF TakeOver, Rebalance, Reassign
<1>3. ASSUME NEW c \in Consumers, Join(c) \/ \E p \in Partitions : Fetch(c, p)
      PROVE  UNCHANGED H!vars
  BY <1>3 DEF Join, Fetch
<1>4. ASSUME NEW c \in Consumers, FetchError(c) \/ FetchCancelled(c) \/ DecodeFail(c)
                                  \/ BackoffElapsed(c) \/ BackoffCancelled(c)
                                  \/ CommitOffset(c) \/ CommitOffsetFail(c)
      PROVE  UNCHANGED H!vars
  BY <1>4 DEF FetchError, FetchCancelled, DecodeFail, BackoffElapsed, BackoffCancelled,
              CommitOffset, CommitOffsetFail
<1>5. ASSUME NEW c \in Consumers, DecodeOk(c)
      PROVE  H!Next
  BY <1>5, HandIsMessage DEF DecodeOk, Holding, H!Next
<1>6. ASSUME NEW c \in Consumers, HandlerAnswered(c) \/ HandlerRecordFail(c)
      PROVE  H!Next
  BY <1>6 DEF HandlerAnswered, HandlerRecordFail, H!Next, H!Step, H!Commit, H!Dup
<1>7. ASSUME NEW c \in Consumers, HandlerNil(c) \/ HandlerError(c)
      PROVE  H!Next
  BY <1>7 DEF HandlerNil, HandlerError, H!Next
<1>8. ASSUME NEW i \in Instances, Start(i) \/ Stop(i) \/ Exit(i)
      PROVE  UNCHANGED H!vars
  BY <1>8 DEF Start, Stop, Exit
<1>9. ASSUME NEW i \in Instances, Crash(i)
      PROVE  H!Next
  <2>1. ConsumersOf(i) \in SUBSET Consumers
    BY DEF ConsumersOf, Consumers
  <2> QED
    BY <1>9, <2>1 DEF Crash, H!Next
<1>10. ASSUME NEW k \in Keys, ResolveOrphan(k)
       PROVE  H!Next
  BY <1>10 DEF ResolveOrphan, H!Next
<1>11. CASE UNCHANGED vars
  BY <1>11 DEF vars
<1> QED
  BY <1>1, <1>2, <1>3, <1>4, <1>5, <1>6, <1>7, <1>8, <1>9, <1>10, <1>11
     DEF Next, ConsumerNext

(* H and HP are instances of the same definitions. *)
LEMMA SameHandler ==
  /\ HP!IInv <=> H!IInv
  /\ HP!IInv' <=> H!IInv'
  /\ [H!Next]_(H!vars) => [HP!Next]_(HP!vars)
<1> USE DEF HP!TypeOK, H!TypeOK, HP!Stages, H!Stages, HP!Locked, H!Locked, HP!Holds, H!Holds
<1>1. HP!IInv <=> H!IInv
  BY DEF HP!IInv, H!IInv, HP!OneOpenTransaction, H!OneOpenTransaction,
         HP!AppliedAsRecorded, H!AppliedAsRecorded, HP!RowsAreEarned, H!RowsAreEarned,
         HP!NilMeansProcessed, H!NilMeansProcessed, HP!CommitsAreEarned, H!CommitsAreEarned,
         HP!BareHasNoKey, H!BareHasNoKey
<1>2. HP!IInv' <=> H!IInv'
  BY DEF HP!IInv, H!IInv, HP!OneOpenTransaction, H!OneOpenTransaction,
         HP!AppliedAsRecorded, H!AppliedAsRecorded, HP!RowsAreEarned, H!RowsAreEarned,
         HP!NilMeansProcessed, H!NilMeansProcessed, HP!CommitsAreEarned, H!CommitsAreEarned,
         HP!BareHasNoKey, H!BareHasNoKey
<1>3. UNCHANGED H!vars => UNCHANGED HP!vars
  BY DEF HP!vars, H!vars
<1>4. H!Next => HP!Next
  BY DEF HP!Next, H!Next, HP!Step, H!Step, HP!Goto, H!Goto, HP!Land, H!Land,
         HP!Call, H!Call, HP!Return, H!Return, HP!Die, H!Die,
         HP!Record, H!Record, HP!RecordNew, H!RecordNew, HP!RecordDuplicate,
         H!RecordDuplicate, HP!RecordFail, H!RecordFail,
         HP!Inner, H!Inner, HP!InnerOk, H!InnerOk, HP!InnerFail, H!InnerFail,
         HP!Commit, H!Commit, HP!CommitOk, H!CommitOk, HP!CommitFail, H!CommitFail,
         HP!Dup, H!Dup, HP!DupCommit, H!DupCommit, HP!DupCommitFail, H!DupCommitFail,
         HP!Bare, H!Bare, HP!BareOk, H!BareOk, HP!BareFail, H!BareFail,
         HP!Resolve, H!Resolve, HP!OrphanRollback, H!OrphanRollback,
         HP!OrphanCommit, H!OrphanCommit
<1>5. [H!Next]_(H!vars) => [HP!Next]_(HP!vars)
  BY <1>3, <1>4
<1> QED
  BY <1>1, <1>2, <1>5

LEMMA HandlerInvariant ==
  ASSUME H!IInv, [H!Next]_(H!vars)
  PROVE  H!IInv'
<1>1. HP!IInv /\ [HP!Next]_(HP!vars) => HP!IInv'
  BY HP!StepIInv, NoKeyIsNoKey DEF Keys
<1> QED
  BY <1>1, SameHandler

-------------------------------------------------------------------------------
LEMMA StepDataType ==
  ASSUME IInv, [Next]_vars
  PROVE  DataTypeOK'
<1>1. TypeOK /\ HandsBehind /\ DownIsStopped
  BY DEF IInv
<1>2. DataTypeOK
  BY <1>1 DEF TypeOK
<1> USE DEF DataTypeOK, brokerVars, readerVars, loopVars, historyVars, budgetVars
<1>4. ASSUME NEW g \in Groups, NEW m \in Messages, Produce(g, m)
      PROVE  DataTypeOK'
  <2>1. PartitionOf[m.event] \in Partitions
    BY ConstantsAssumption DEF Messages
  <2>2. BrokerTypeOK'
    BY <1>2, <1>4, <2>1 DEF Produce, BrokerTypeOK
  <2> QED
    BY <1>2, <1>4, <2>2
       DEF Produce, ReaderTypeOK, LoopTypeOK, Holding, ProcessTypeOK, HistoryTypeOK
<1>5. ASSUME NEW g \in Groups, NEW a \in [Partitions -> Instances], Reassign(g, a),
             rebalances' \in Nat
      PROVE  DataTypeOK'
  <2>1. BrokerTypeOK'
    BY <1>2, <1>5 DEF Reassign, BrokerTypeOK
  <2>2. ReaderTypeOK'
    BY <1>2, <1>5 DEF Reassign, ReaderTypeOK
  <2> QED
    BY <1>2, <1>5, <2>1, <2>2 DEF Reassign, LoopTypeOK, Holding, ProcessTypeOK, HistoryTypeOK
<1>6. ASSUME NEW c \in Consumers, Join(c)
      PROVE  DataTypeOK'
  <2>1. ReaderTypeOK'
    BY <1>2, <1>6, InstanceAndGroup DEF Join, ReaderTypeOK, BrokerTypeOK
  <2> QED
    BY <1>2, <1>6, <2>1 DEF Join, BrokerTypeOK, LoopTypeOK, Holding, ProcessTypeOK, HistoryTypeOK
<1>7. ASSUME NEW c \in Consumers, NEW p \in Partitions, Fetch(c, p)
      PROVE  DataTypeOK'
  <2>1. ReaderTypeOK'
    BY <1>2, <1>7 DEF Fetch, ReaderTypeOK
  <2>2. LoopTypeOK'
    BY <1>2, <1>7, ConstantsAssumption DEF Fetch, Goto, ReaderTypeOK, LoopTypeOK, Holding
  <2> QED
    BY <1>2, <1>7, <2>1, <2>2 DEF Fetch, BrokerTypeOK, ProcessTypeOK, HistoryTypeOK
<1>8. ASSUME NEW c \in Consumers, FetchError(c) \/ FetchCancelled(c)
                                   \/ BackoffElapsed(c) \/ BackoffCancelled(c)
      PROVE  DataTypeOK'
  <2>1. LoopTypeOK'
    BY <1>2, <1>8 DEF FetchError, FetchCancelled, BackoffElapsed, BackoffCancelled, Goto,
                      LoopTypeOK, Holding
  <2> QED
    BY <1>2, <1>8, <2>1
       DEF FetchError, FetchCancelled, BackoffElapsed, BackoffCancelled, BrokerTypeOK,
           ReaderTypeOK, ProcessTypeOK, HistoryTypeOK
<1>9. ASSUME NEW c \in Consumers, DecodeOk(c)
      PROVE  DataTypeOK'
  <2>1. LoopTypeOK'
    BY <1>2, <1>9 DEF DecodeOk, Goto, LoopTypeOK, Holding
  <2>2. InHand(c).schema \in Schemas /\ InstanceOf(c) \in Instances
    BY <1>1, <1>9, HandIsMessage, InstanceAndGroup DEF DecodeOk, Malformed, Messages, Holding
  <2>3. ProcessTypeOK'
    BY <1>2, <1>9, <2>2 DEF DecodeOk, Remember, ProcessTypeOK
  <2> QED
    BY <1>2, <1>9, <2>1, <2>3 DEF DecodeOk, BrokerTypeOK, ReaderTypeOK, HistoryTypeOK
<1>10. ASSUME NEW c \in Consumers, DecodeFail(c) \/ HandlerNil(c) \/ HandlerError(c)
       PROVE  DataTypeOK'
  <2>1. LoopTypeOK'
    BY <1>2, <1>10 DEF DecodeFail, HandlerNil, HandlerError, Drop, Goto, LoopTypeOK, Holding
  <2>2. HandId(c) \in Groups \X Partitions \X Nat
    BY <1>1, <1>10, HandIsMessage, InstanceAndGroup
       DEF DecodeFail, HandlerNil, HandlerError, HandId, Holding
  <2>3. HistoryTypeOK'
    BY <1>2, <1>10, <2>2 DEF DecodeFail, HandlerNil, HandlerError, HistoryTypeOK
  <2>4. cache' \in [Instances -> SUBSET Schemas]
    <3>1. \/ UNCHANGED cache
          \/ \E s \in Schemas : Remember(c, s)
      BY <1>10 DEF DecodeFail, HandlerNil, HandlerError
    <3> QED
      BY <1>2, <3>1, InstanceAndGroup DEF Remember, ProcessTypeOK
  <2> QED
    BY <1>2, <1>10, <2>1, <2>3, <2>4
       DEF DecodeFail, HandlerNil, HandlerError, BrokerTypeOK, ReaderTypeOK, ProcessTypeOK
<1>11. ASSUME NEW c \in Consumers, HandlerAnswered(c) \/ HandlerRecordFail(c)
       PROVE  DataTypeOK'
  BY <1>2, <1>11
     DEF HandlerAnswered, HandlerRecordFail, BrokerTypeOK, ReaderTypeOK, LoopTypeOK, Holding,
         ProcessTypeOK, HistoryTypeOK
<1>12. ASSUME NEW c \in Consumers, CommitOffset(c) \/ CommitOffsetFail(c)
       PROVE  DataTypeOK'
  <2>1. hand[c].partition \in Partitions /\ hand[c].offset \in Nat
    BY <1>1, <1>12, HandIsMessage DEF CommitOffset, CommitOffsetFail, Holding
  <2>2. StoreOffset(c) \/ UNCHANGED committed
    BY <1>12 DEF CommitOffset, CommitOffsetFail
  <2>3. UNCHANGED <<log, owner>>
    BY <1>12 DEF CommitOffset, CommitOffsetFail
  <2>4. committed' \in [Groups -> [Partitions -> Nat]]
    <3>1. CASE StoreOffset(c)
      <4>1. hand[c].offset + 1 \in Nat /\ committed \in [Groups -> [Partitions -> Nat]]
        BY <1>2, <2>1 DEF BrokerTypeOK
      <4>2. committed' = [committed EXCEPT ![GroupOf(c)][hand[c].partition] =
                                                                 hand[c].offset + 1]
        BY <3>1 DEF StoreOffset
      <4> QED
        BY <2>1, <4>1, <4>2, InstanceAndGroup
    <3>2. CASE UNCHANGED committed
      BY <1>2, <3>2 DEF BrokerTypeOK
    <3> QED
      BY <2>2, <3>1, <3>2
  <2>5. LoopTypeOK'
    BY <1>2, <1>12 DEF CommitOffset, CommitOffsetFail, Drop, Goto, LoopTypeOK, Holding
  <2> QED
    BY <1>2, <1>12, <2>4, <2>5
       DEF CommitOffset, CommitOffsetFail, BrokerTypeOK, ReaderTypeOK, ProcessTypeOK, HistoryTypeOK
<1>13. ASSUME NEW i \in Instances, Start(i)
       PROVE  DataTypeOK'
  <2>1. LoopTypeOK'
    BY <1>1, <1>2, <1>13 DEF Start, LoopTypeOK, Holding, DownIsStopped
  <2> QED
    BY <1>2, <1>13, <2>1 DEF Start, BrokerTypeOK, ReaderTypeOK, ProcessTypeOK, HistoryTypeOK
<1>14. ASSUME NEW i \in Instances, Stop(i)
       PROVE  DataTypeOK'
  BY <1>2, <1>14
     DEF Stop, BrokerTypeOK, ReaderTypeOK, LoopTypeOK, Holding, ProcessTypeOK, HistoryTypeOK
<1>15. ASSUME NEW i \in Instances, Gone(i)
       PROVE  BrokerTypeOK' /\ ReaderTypeOK' /\ HistoryTypeOK'
  <2>1. BrokerTypeOK'
    BY <1>2, <1>15 DEF Gone, BrokerTypeOK
  <2>2. ReaderTypeOK'
    BY <1>2, <1>15 DEF Gone, ReaderTypeOK
  <2> QED
    BY <1>2, <1>15, <2>1, <2>2 DEF Gone, HistoryTypeOK
<1>16. ASSUME NEW i \in Instances, Exit(i)
       PROVE  DataTypeOK'
  BY <1>2, <1>15, <1>16 DEF Exit, Gone, LoopTypeOK, Holding, ProcessTypeOK
<1>17. ASSUME NEW i \in Instances, Crash(i)
       PROVE  DataTypeOK'
  <2>1. LoopTypeOK'
    BY <1>2, <1>17 DEF Crash, LoopTypeOK, Holding
  <2>2. ProcessTypeOK'
    BY <1>2, <1>17 DEF Crash, Gone, ProcessTypeOK
  <2> QED
    BY <1>15, <1>17, <2>1, <2>2 DEF Crash
<1>18. ASSUME NEW k \in Keys, ResolveOrphan(k)
       PROVE  DataTypeOK'
  BY <1>2, <1>18
     DEF ResolveOrphan, BrokerTypeOK, ReaderTypeOK, LoopTypeOK, Holding, ProcessTypeOK,
         HistoryTypeOK
<1>19. CASE UNCHANGED vars
  BY <1>2, <1>19
     DEF vars, BrokerTypeOK, ReaderTypeOK, LoopTypeOK, Holding, ProcessTypeOK, HistoryTypeOK
<1>20. ASSUME NEW g \in Groups, TakeOver(g) \/ Rebalance(g)
       PROVE  DataTypeOK'
  BY <1>2, <1>5, <1>20 DEF TakeOver, Rebalance, ProcessTypeOK
<1> HIDE DEF DataTypeOK, brokerVars, readerVars, loopVars, historyVars, budgetVars
<1> QED
  BY <1>4, <1>6, <1>7, <1>8, <1>9, <1>10, <1>11, <1>12, <1>13, <1>14, <1>16, <1>17, <1>18,
     <1>19, <1>20 DEF Next, ConsumerNext

LEMMA StepType ==
  ASSUME IInv, [Next]_vars
  PROVE  TypeOK'
  BY StepDataType, HandlerStep, HandlerInvariant DEF IInv, TypeOK, H!IInv

-------------------------------------------------------------------------------
(* What a step can do to each part of the state. The invariants are proved  *)
(* from these facts rather than action by action.                           *)

\* Only run's commit moves a committed offset, to just after the message in hand.
LEMMA CommittedStep ==
  ASSUME [Next]_vars
  PROVE  \/ UNCHANGED committed
         \/ \E c \in Consumers : loop[c] = "commit" /\ StoreOffset(c)
<1> USE DEF brokerVars
<1>1. ASSUME NEW c \in Consumers, ConsumerNext(c)
      PROVE  UNCHANGED committed \/ (loop[c] = "commit" /\ StoreOffset(c))
  BY <1>1 DEF ConsumerNext, Join, Fetch, FetchError, FetchCancelled, DecodeOk, DecodeFail,
       BackoffElapsed, BackoffCancelled, HandlerAnswered, HandlerRecordFail, HandlerNil,
       HandlerError, CommitOffset, CommitOffsetFail
<1>2. ASSUME NEW i \in Instances, Start(i) \/ Stop(i) \/ Exit(i) \/ Crash(i)
      PROVE  UNCHANGED committed
  BY <1>2 DEF Start, Stop, Exit, Crash, Gone
<1>3. ASSUME NEW g \in Groups,
             (\E m \in Messages : Produce(g, m)) \/ TakeOver(g) \/ Rebalance(g)
      PROVE  UNCHANGED committed
  BY <1>3 DEF Produce, TakeOver, Rebalance, Reassign
<1> QED
  BY <1>1, <1>2, <1>3 DEF Next, ResolveOrphan, vars

\* A message's fate is never forgotten, and only a message in hand gets one.
LEMMA FateStep ==
  ASSUME LoopTypeOK, [Next]_vars
  PROVE  \/ UNCHANGED <<handled, failed>>
         \/ \E c \in Consumers :
              \/ /\ loop[c] = "handle" /\ pc[c] = "ok" /\ loop'[c] = "commit"
                 /\ handled' = handled \union {HandId(c)} /\ UNCHANGED <<failed, applied>>
              \/ /\ Holding(c) /\ failed' = failed \union {HandId(c)} /\ UNCHANGED handled
<1> USE DEF historyVars
<1>1. ASSUME NEW c \in Consumers, ConsumerNext(c), ~UNCHANGED <<handled, failed>>
      PROVE  DecodeFail(c) \/ HandlerNil(c) \/ HandlerError(c)
  BY <1>1 DEF ConsumerNext, Join, Fetch, FetchError, FetchCancelled, DecodeOk,
       BackoffElapsed, BackoffCancelled, HandlerAnswered, HandlerRecordFail,
       CommitOffset, CommitOffsetFail
<1>2. ASSUME NEW c \in Consumers, DecodeFail(c) \/ HandlerError(c)
      PROVE  Holding(c) /\ failed' = failed \union {HandId(c)} /\ UNCHANGED handled
  BY <1>2 DEF DecodeFail, HandlerError, Holding
<1>3. ASSUME NEW c \in Consumers, HandlerNil(c)
      PROVE  /\ loop[c] = "handle" /\ pc[c] = "ok" /\ loop'[c] = "commit"
             /\ handled' = handled \union {HandId(c)} /\ UNCHANGED <<failed, applied>>
  BY <1>3 DEF HandlerNil, Goto, LoopTypeOK, H!Return
<1>4. ASSUME NEW i \in Instances, Start(i) \/ Stop(i) \/ Exit(i) \/ Crash(i)
      PROVE  UNCHANGED <<handled, failed>>
  BY <1>4 DEF Start, Stop, Exit, Crash, Gone
<1>5. ASSUME NEW g \in Groups,
             (\E m \in Messages : Produce(g, m)) \/ TakeOver(g) \/ Rebalance(g)
      PROVE  UNCHANGED <<handled, failed>>
  BY <1>5 DEF Produce, TakeOver, Rebalance, Reassign
<1> QED
  BY <1>1, <1>2, <1>3, <1>4, <1>5 DEF Next, ResolveOrphan, vars

\* Messages are only appended to a log.
LEMMA LogStep ==
  ASSUME BrokerTypeOK, [Next]_vars, NEW g \in Groups, NEW p \in Partitions
  PROVE  /\ Len(log[g][p]) \in Nat /\ Len(log'[g][p]) \in Nat
         /\ Len(log[g][p]) <= Len(log'[g][p])
         /\ \A o \in Nat : Exists(g, p, o) => MessageAt(g, p, o)' = MessageAt(g, p, o)
<1>1. CASE \E h \in Groups, m \in Messages : Produce(h, m)
  <2>1. PICK h \in Groups, m \in Messages : Produce(h, m)
    BY <1>1
  <2>2. \/ log'[g][p] = log[g][p]
        \/ log'[g][p] = Append(log[g][p], m)
    BY <2>1 DEF Produce, BrokerTypeOK
  <2>3. log[g][p] \in Seq(Messages)
    BY DEF BrokerTypeOK
  <2> QED
    BY <2>2, <2>3 DEF Exists, MessageAt
<1>2. CASE UNCHANGED log
  BY <1>2 DEF BrokerTypeOK, Exists, MessageAt
<1>3. ASSUME NEW c \in Consumers, ConsumerNext(c)
      PROVE  UNCHANGED log
  BY <1>3 DEF ConsumerNext, Join, Fetch, FetchError, FetchCancelled, DecodeOk, DecodeFail,
       BackoffElapsed, BackoffCancelled, HandlerAnswered, HandlerRecordFail, HandlerNil,
       HandlerError, CommitOffset, CommitOffsetFail, brokerVars
<1>4. ASSUME NEW i \in Instances, Start(i) \/ Stop(i) \/ Exit(i) \/ Crash(i)
      PROVE  UNCHANGED log
  BY <1>4 DEF Start, Stop, Exit, Crash, Gone, brokerVars
<1>5. ASSUME NEW h \in Groups, TakeOver(h) \/ Rebalance(h)
      PROVE  UNCHANGED log
  BY <1>5 DEF TakeOver, Rebalance, Reassign
<1> QED
  BY <1>1, <1>2, <1>3, <1>4, <1>5 DEF Next, ResolveOrphan, vars, brokerVars

\* A reader's cursor moves by fetching, or is set when it joins or ends.
LEMMA CursorStep ==
  ASSUME ReaderTypeOK, LoopTypeOK, [Next]_vars, NEW c \in Consumers, NEW p \in Partitions
  PROVE  \/ position'[c][p] = position[c][p]
         \/ position'[c][p] = 0
         \/ position'[c][p] = committed[GroupOf(c)][p]
         \/ /\ position'[c][p] = position[c][p] + 1
            /\ hand'[c] = [partition |-> p, offset |-> position[c][p]]
<1> USE DEF readerVars
<1>1. ASSUME NEW d \in Consumers, Join(d)
      PROVE  \/ position'[c][p] = position[c][p]
             \/ position'[c][p] = committed[GroupOf(c)][p]
  BY <1>1 DEF Join, ReaderTypeOK
<1>2. ASSUME NEW d \in Consumers, NEW q \in Partitions, Fetch(d, q)
      PROVE  \/ position'[c][p] = position[c][p]
             \/ /\ position'[c][p] = position[c][p] + 1
                /\ hand'[c] = [partition |-> p, offset |-> position[c][p]]
  BY <1>2 DEF Fetch, ReaderTypeOK, LoopTypeOK
<1>3. ASSUME NEW i \in Instances, Gone(i)
      PROVE  position'[c][p] = position[c][p] \/ position'[c][p] = 0
  BY <1>3 DEF Gone
<1>4. ASSUME NEW d \in Consumers, ConsumerNext(d), ~Join(d),
             ~\E q \in Partitions : Fetch(d, q)
      PROVE  UNCHANGED position
  BY <1>4 DEF ConsumerNext, FetchError, FetchCancelled, DecodeOk, DecodeFail,
       BackoffElapsed, BackoffCancelled, HandlerAnswered, HandlerRecordFail, HandlerNil,
       HandlerError, CommitOffset, CommitOffsetFail
<1>5. ASSUME NEW i \in Instances, Start(i) \/ Stop(i)
      PROVE  UNCHANGED position
  BY <1>5 DEF Start, Stop
<1>6. ASSUME NEW g \in Groups,
             (\E m \in Messages : Produce(g, m)) \/ TakeOver(g) \/ Rebalance(g)
      PROVE  UNCHANGED position
  BY <1>6 DEF Produce, TakeOver, Rebalance, Reassign
<1>7. CASE (\E k \in Keys : ResolveOrphan(k)) \/ UNCHANGED vars
  BY <1>7 DEF ResolveOrphan, vars
<1> QED
  BY <1>1, <1>2, <1>3, <1>4, <1>5, <1>6, <1>7 DEF Next, Exit, Crash

\* A reader gets a partition at the committed offset and goes forward in it.
LEMMA ClaimStep ==
  ASSUME ReaderTypeOK, BrokerTypeOK, [Next]_vars, NEW c \in Consumers, NEW p \in claim'[c]
  PROVE  \/ position'[c][p] = committed[GroupOf(c)][p]
         \/ p \in claim[c] /\ position'[c][p] \in {position[c][p], position[c][p] + 1}
<1> USE DEF readerVars
<1>1. ASSUME NEW d \in Consumers, Join(d)
      PROVE  \/ position'[c][p] = committed[GroupOf(c)][p]
             \/ p \in claim[c] /\ position'[c][p] = position[c][p]
  BY <1>1 DEF Join, ReaderTypeOK
<1>2. ASSUME NEW d \in Consumers, NEW q \in Partitions, Fetch(d, q)
      PROVE  p \in claim[c] /\ position'[c][p] \in {position[c][p], position[c][p] + 1}
  BY <1>2 DEF Fetch, ReaderTypeOK
<1>3. ASSUME NEW i \in Instances, Gone(i)
      PROVE  p \in claim[c] /\ position'[c][p] = position[c][p]
  BY <1>3 DEF Gone
<1>4. ASSUME NEW d \in Consumers, ConsumerNext(d), ~Join(d),
             ~\E q \in Partitions : Fetch(d, q)
      PROVE  UNCHANGED <<claim, position>>
  BY <1>4 DEF ConsumerNext, FetchError, FetchCancelled, DecodeOk, DecodeFail,
       BackoffElapsed, BackoffCancelled, HandlerAnswered, HandlerRecordFail, HandlerNil,
       HandlerError, CommitOffset, CommitOffsetFail
<1>5. ASSUME NEW i \in Instances, Start(i) \/ Stop(i)
      PROVE  UNCHANGED <<claim, position>>
  BY <1>5 DEF Start, Stop
<1>6. ASSUME NEW g \in Groups,
             (\E m \in Messages : Produce(g, m)) \/ TakeOver(g) \/ Rebalance(g)
      PROVE  UNCHANGED <<claim, position>>
  BY <1>6 DEF Produce, TakeOver, Rebalance, Reassign
<1>7. CASE (\E k \in Keys : ResolveOrphan(k)) \/ UNCHANGED vars
  BY <1>7 DEF ResolveOrphan, vars
<1> QED
  BY <1>1, <1>2, <1>3, <1>4, <1>5, <1>6, <1>7 DEF Next, Exit, Crash

\* What run may come to hold, and how it may lay a message down.
LEMMA HandStep ==
  ASSUME LoopTypeOK, HandsBehind, [Next]_vars, NEW c \in Consumers
  PROVE  /\ Holding(c)' =>
              \/ /\ Holding(c) /\ hand'[c] = hand[c]
                 /\ loop'[c] = "commit" => HandId(c) \in handled'
              \/ \E p \in Partitions :
                    /\ loop[c] = "fetch" /\ loop'[c] = "decode"
                    /\ p \in claim[c] /\ Exists(GroupOf(c), p, position[c][p])
                    /\ hand'[c] = [partition |-> p, offset |-> position[c][p]]
         /\ Holding(c) /\ hand'[c] # hand[c] =>
              \/ HandId(c) \in handled' \union failed'
              \/ position'[c] = [p \in Partitions |-> 0]
<1> USE DEF Holding, Goto, Drop, LoopTypeOK, loopVars, historyVars
<1> DEFINE Kept == /\ Holding(c)' => /\ Holding(c) /\ hand'[c] = hand[c]
                                     /\ loop'[c] = "commit" => HandId(c) \in handled'
                   /\ Holding(c) /\ hand'[c] # hand[c] =>
                                     HandId(c) \in handled' \union failed'
<1>1. loop[c] = "commit" => HandId(c) \in handled
  BY DEF HandsBehind, HandBehind, Holding
<1>2. ASSUME NEW d \in Consumers, Join(d) \/ FetchError(d) \/ FetchCancelled(d)
                \/ BackoffElapsed(d) \/ BackoffCancelled(d)
                \/ HandlerAnswered(d) \/ HandlerRecordFail(d)
      PROVE  Kept
  BY <1>1, <1>2 DEF Join, FetchError, FetchCancelled, BackoffElapsed, BackoffCancelled,
       HandlerAnswered, HandlerRecordFail
<1>3. ASSUME NEW d \in Consumers, DecodeOk(d)
      PROVE  Kept
  BY <1>1, <1>3 DEF DecodeOk
<1>4. ASSUME NEW d \in Consumers, DecodeFail(d)
      PROVE  Kept
  BY <1>1, <1>4 DEF DecodeFail
<1>5. ASSUME NEW d \in Consumers, HandlerNil(d) \/ HandlerError(d)
      PROVE  Kept
  BY <1>1, <1>5 DEF HandlerNil, HandlerError
<1>6. ASSUME NEW d \in Consumers, CommitOffset(d) \/ CommitOffsetFail(d)
      PROVE  Kept
  BY <1>1, <1>6 DEF CommitOffset, CommitOffsetFail
<1>7. ASSUME NEW d \in Consumers, NEW q \in Partitions, Fetch(d, q)
      PROVE  \/ Kept
             \/ d = c /\ loop[c] = "fetch" /\ loop'[c] = "decode"
                /\ q \in claim[c] /\ Exists(GroupOf(c), q, position[c][q])
                /\ hand'[c] = [partition |-> q, offset |-> position[c][q]]
  BY <1>1, <1>7 DEF Fetch
<1>8. ASSUME NEW i \in Instances, Start(i) \/ Stop(i) \/ Exit(i)
      PROVE  Kept
  BY <1>1, <1>8 DEF Start, Stop, Exit, Gone
<1>9. ASSUME NEW i \in Instances, Crash(i)
      PROVE  Kept \/ (~Holding(c)' /\ position'[c] = [p \in Partitions |-> 0])
  BY <1>1, <1>9 DEF Crash, Gone
<1>10. ASSUME NEW g \in Groups,
              (\E m \in Messages : Produce(g, m)) \/ TakeOver(g) \/ Rebalance(g)
       PROVE  Kept
  BY <1>1, <1>10 DEF Produce, TakeOver, Rebalance, Reassign
<1>11. CASE (\E k \in Keys : ResolveOrphan(k)) \/ UNCHANGED vars
  BY <1>1, <1>11 DEF ResolveOrphan, vars
<1> QED
  BY <1>2, <1>3, <1>4, <1>5, <1>6, <1>7, <1>8, <1>9, <1>10, <1>11 DEF Next, ConsumerNext

-------------------------------------------------------------------------------
(* The inductive invariant, one lemma per conjunct.                         *)

LEMMA SettledStays ==
  ASSUME LoopTypeOK, [Next]_vars, NEW g, NEW p, NEW o, Settled(g, p, o)
  PROVE  Settled(g, p, o)'
  BY FateStep DEF Settled

\* The fates that a step adds are those of messages in hand.
LEMMA NewFate ==
  ASSUME TypeOK, HandsBehind, [Next]_vars, NEW g \in Groups, NEW p \in Partitions, NEW o \in Nat
  PROVE  /\ Settled(g, p, o)' => \/ Settled(g, p, o)
                                 \/ \E c \in Consumers : Holding(c) /\ HandId(c) = <<g, p, o>>
         /\ <<g, p, o>> \in handled' => \/ <<g, p, o>> \in handled
                                       \/ \E c \in Consumers :
                                            /\ loop[c] = "handle" /\ pc[c] = "ok"
                                            /\ HandId(c) = <<g, p, o>> /\ UNCHANGED applied
  BY FateStep DEF TypeOK, DataTypeOK, Settled, Holding

LEMMA StepNothingSkipped ==
  ASSUME IInv, [Next]_vars
  PROVE  NothingSkipped'
<1> SUFFICES ASSUME NEW g \in Groups, NEW p \in Partitions,
                    NEW o \in 0 .. committed'[g][p] - 1
             PROVE  Settled(g, p, o)'
  BY DEF NothingSkipped
<1> USE DEF IInv, TypeOK, DataTypeOK
<1>1. CASE o \in 0 .. committed[g][p] - 1
  BY <1>1, SettledStays DEF NothingSkipped
<1>2. CASE o \notin 0 .. committed[g][p] - 1
  <2>1. PICK c \in Consumers : loop[c] = "commit" /\ StoreOffset(c)
    BY <1>2, CommittedStep
  <2>2. hand[c].partition \in Partitions /\ hand[c].offset \in Nat
    BY <2>1, HandIsMessage DEF Holding
  <2>3. GroupOf(c) = g /\ hand[c].partition = p /\ o \in 0 .. hand[c].offset
    BY <1>2, <2>1, <2>2, InstanceAndGroup DEF StoreOffset, BrokerTypeOK
  <2>4. CASE o = hand[c].offset
    BY <2>1, <2>3, <2>4, SettledStays DEF HandsBehind, HandBehind, Holding, HandId, Settled
  <2>5. CASE o \in 0 .. hand[c].offset - 1
    BY <2>1, <2>3, <2>5, SettledStays DEF HandsBehind, HandBehind, Holding
  <2> QED
    BY <2>2, <2>3, <2>4, <2>5
<1> QED
  BY <1>1, <1>2

LEMMA StepCommitFollowsHandling ==
  ASSUME IInv, [Next]_vars
  PROVE  CommitFollowsHandling'
<1> SUFFICES ASSUME NEW g \in Groups, NEW p \in Partitions, committed'[g][p] > 0
             PROVE  <<g, p, committed'[g][p] - 1>> \in handled'
  BY DEF CommitFollowsHandling
<1> USE DEF IInv, TypeOK, DataTypeOK
<1>1. handled \subseteq handled'
  BY FateStep
<1>2. CASE committed'[g][p] = committed[g][p]
  BY <1>1, <1>2 DEF CommitFollowsHandling
<1>3. CASE committed'[g][p] # committed[g][p]
  <2>1. PICK c \in Consumers : loop[c] = "commit" /\ StoreOffset(c)
    BY <1>3, CommittedStep
  <2>2. hand[c].partition \in Partitions /\ hand[c].offset \in Nat
    BY <2>1, HandIsMessage DEF Holding
  <2>3. GroupOf(c) = g /\ hand[c].partition = p /\ committed'[g][p] = hand[c].offset + 1
    BY <1>3, <2>1, <2>2, InstanceAndGroup DEF StoreOffset, BrokerTypeOK
  <2>4. HandId(c) \in handled
    BY <2>1 DEF HandsBehind, HandBehind, Holding
  <2> QED
    BY <1>1, <2>2, <2>3, <2>4 DEF HandId
<1> QED
  BY <1>2, <1>3

LEMMA StepHandledInOrder ==
  ASSUME IInv, [Next]_vars
  PROVE  HandledInOrder'
<1> SUFFICES ASSUME NEW g \in Groups, NEW p \in Partitions, NEW o \in Offsets(g, p)',
                    <<g, p, o>> \in handled', NEW below \in 0 .. o - 1
             PROVE  Settled(g, p, below)'
  BY DEF HandledInOrder
<1> USE DEF IInv, TypeOK, DataTypeOK
<1>1. o \in Nat /\ below \in Nat
  BY LogStep DEF Offsets
<1>2. CASE <<g, p, o>> \in handled
  <2>1. o \in Offsets(g, p)
    BY <1>1, <1>2, LogStep DEF FatesExist, Settled, Exists, Offsets
  <2> QED
    BY <1>2, <2>1, SettledStays DEF HandledInOrder
<1>3. CASE <<g, p, o>> \notin handled
  <2>1. PICK c \in Consumers : loop[c] = "handle" /\ HandId(c) = <<g, p, o>>
    BY <1>1, <1>3, NewFate
  <2>2. Settled(g, p, below)
    BY <2>1 DEF HandsBehind, HandBehind, Holding, HandId
  <2> QED
    BY <2>2, SettledStays
<1> QED
  BY <1>2, <1>3

LEMMA StepCursorsBehind ==
  ASSUME IInv, [Next]_vars
  PROVE  CursorsBehind'
<1> SUFFICES ASSUME NEW c \in Consumers, NEW p \in Partitions,
                    NEW o \in 0 .. position'[c][p] - 1
             PROVE  Settled(GroupOf(c), p, o)' \/ hand'[c] = [partition |-> p, offset |-> o]
  BY DEF CursorsBehind
<1> USE DEF IInv, TypeOK, DataTypeOK
<1>1. GroupOf(c) \in Groups /\ position[c][p] \in Nat /\ committed[GroupOf(c)][p] \in Nat
  BY InstanceAndGroup DEF ReaderTypeOK, BrokerTypeOK
<1>2. ASSUME o \in 0 .. position[c][p] - 1, position'[c][p] # 0
      PROVE  Settled(GroupOf(c), p, o)' \/ hand'[c] = [partition |-> p, offset |-> o]
  <2>1. CASE Settled(GroupOf(c), p, o)
    BY <2>1, SettledStays
  <2>2. CASE hand[c] = [partition |-> p, offset |-> o]
    <3>1. Holding(c) /\ HandId(c) = <<GroupOf(c), p, o>>
      BY <2>2, ConstantsAssumption DEF LoopTypeOK, HandId
    <3>2. hand'[c] = hand[c] \/ HandId(c) \in handled' \union failed'
      BY <1>2, <3>1, HandStep
    <3> QED
      BY <2>2, <3>1, <3>2 DEF Settled
  <2> QED
    BY <1>2, <2>1, <2>2 DEF CursorsBehind
<1>3. CASE position'[c][p] = position[c][p]
  BY <1>2, <1>3
<1>4. CASE position'[c][p] = 0
  BY <1>4
<1>5. CASE position'[c][p] = committed[GroupOf(c)][p]
  BY <1>1, <1>5, SettledStays DEF NothingSkipped
<1>6. CASE /\ position'[c][p] = position[c][p] + 1
           /\ hand'[c] = [partition |-> p, offset |-> position[c][p]]
  BY <1>1, <1>2, <1>6
<1> QED
  BY <1>3, <1>4, <1>5, <1>6, CursorStep

LEMMA StepHandsBehind ==
  ASSUME IInv, [Next]_vars
  PROVE  HandsBehind'
<1> SUFFICES ASSUME NEW c \in Consumers, Holding(c)'
             PROVE  HandBehind(c)'
  BY DEF HandsBehind
<1> USE DEF IInv, TypeOK, DataTypeOK
<1>1. CASE /\ Holding(c) /\ hand'[c] = hand[c]
           /\ loop'[c] = "commit" => HandId(c) \in handled'
  <2>1. Exists(GroupOf(c), hand[c].partition, hand[c].offset)'
    BY <1>1, HandIsMessage, InstanceAndGroup, LogStep DEF HandsBehind, HandBehind, Exists
  <2>2. \A o \in 0 .. hand[c].offset - 1 : Settled(GroupOf(c), hand[c].partition, o)'
    BY <1>1, SettledStays DEF HandsBehind, HandBehind
  <2>3. \A o \in 0 .. hand'[c].offset - 1 : Settled(GroupOf(c), hand[c].partition, o)'
    BY <1>1, <2>2
  <2>4. HandId(c)' = HandId(c)
    BY <1>1 DEF HandId
  <2> QED
    BY <1>1, <2>1, <2>3, <2>4 DEF HandBehind
<1>2. ASSUME NEW p \in Partitions,
             loop[c] = "fetch", loop'[c] = "decode",
             Exists(GroupOf(c), p, position[c][p]),
             hand'[c] = [partition |-> p, offset |-> position[c][p]]
      PROVE  HandBehind(c)'
  <2>1. hand[c] = NoMessage /\ position[c][p] \in Nat
    BY <1>2 DEF LoopTypeOK, Holding, ReaderTypeOK
  <2>2. ASSUME NEW o \in 0 .. position[c][p] - 1
        PROVE  Settled(GroupOf(c), p, o)'
    <3>1. [partition |-> p, offset |-> o] # NoMessage
      BY <2>1, ConstantsAssumption
    <3>2. Settled(GroupOf(c), p, o)
      BY <2>1, <3>1 DEF CursorsBehind
    <3> QED
      BY <3>2, SettledStays
  <2>3. position[c][p] < Len(log'[GroupOf(c)][p])
    BY <1>2, <2>1, LogStep, InstanceAndGroup DEF Exists
  <2> QED
    BY <1>2, <2>2, <2>3 DEF HandBehind, Exists
<1> QED
  BY <1>1, <1>2, HandStep

LEMMA StepFatesExist ==
  ASSUME IInv, [Next]_vars
  PROVE  FatesExist'
<1> SUFFICES ASSUME NEW g \in Groups, NEW p \in Partitions, NEW o \in Nat,
                    Settled(g, p, o)'
             PROVE  Exists(g, p, o)'
  BY DEF FatesExist
<1> USE DEF IInv, TypeOK, DataTypeOK
<1>1. CASE Settled(g, p, o)
  BY <1>1, LogStep DEF FatesExist, Exists
<1>2. CASE \E c \in Consumers : Holding(c) /\ HandId(c) = <<g, p, o>>
  <2>1. PICK c \in Consumers : Holding(c) /\ HandId(c) = <<g, p, o>>
    BY <1>2
  <2>2. Exists(GroupOf(c), hand[c].partition, hand[c].offset)
    BY <2>1 DEF HandsBehind, HandBehind
  <2>3. GroupOf(c) = g /\ hand[c].partition = p /\ hand[c].offset = o
    BY <2>1 DEF HandId
  <2> QED
    BY <2>2, <2>3, LogStep DEF Exists
<1> QED
  BY <1>1, <1>2, NewFate

LEMMA StepDownIsStopped ==
  ASSUME IInv, [Next]_vars
  PROVE  DownIsStopped'
<1> USE DEF DownIsStopped, LoopTypeOK, ProcessTypeOK
<1>0. DownIsStopped /\ LoopTypeOK /\ ProcessTypeOK
  BY DEF IInv, TypeOK, DataTypeOK
<1>1. ASSUME NEW c \in Consumers, ConsumerNext(c)
      PROVE  DownIsStopped'
  <2>1. UNCHANGED mode
    BY <1>1 DEF ConsumerNext, Join, Fetch, FetchError, FetchCancelled, DecodeOk, DecodeFail,
         BackoffElapsed, BackoffCancelled, HandlerAnswered, HandlerRecordFail, HandlerNil,
         HandlerError, CommitOffset, CommitOffsetFail
  <2>2. UNCHANGED loop \/ (loop[c] # "stopped" /\ \E place : Goto(c, place))
    BY <1>1 DEF ConsumerNext, Join, Fetch, FetchError, FetchCancelled, DecodeOk, DecodeFail,
         BackoffElapsed, BackoffCancelled, HandlerAnswered, HandlerRecordFail, HandlerNil,
         HandlerError, CommitOffset, CommitOffsetFail, loopVars
  <2>3. CASE UNCHANGED loop
    BY <1>0, <2>1, <2>3
  <2>4. CASE loop[c] # "stopped" /\ \E place : Goto(c, place)
    BY <1>0, <2>1, <2>4 DEF Goto
  <2> QED
    BY <2>2, <2>3, <2>4
<1>2. ASSUME NEW i \in Instances, Start(i) \/ Stop(i) \/ Exit(i) \/ Crash(i)
      PROVE  DownIsStopped'
  <2>1. CASE Start(i) \/ Stop(i)
    BY <1>0, <2>1, InstanceAndGroup DEF Start, Stop, loopVars
  <2>2. CASE Exit(i)
    <3>1. \A c \in Consumers : InstanceOf(c) = i => c \in ConsumersOf(i)
      BY DEF Consumers, ConsumersOf, InstanceOf
    <3> QED
      BY <1>0, <2>2, <3>1, InstanceAndGroup DEF Exit, Gone, loopVars
  <2>3. CASE Crash(i)
    BY <1>0, <2>3, InstanceAndGroup DEF Crash, Gone
  <2> QED
    BY <1>2, <2>1, <2>2, <2>3
<1>3. ASSUME NEW g \in Groups,
             (\E m \in Messages : Produce(g, m)) \/ TakeOver(g) \/ Rebalance(g)
      PROVE  DownIsStopped'
  BY <1>0, <1>3 DEF Produce, TakeOver, Rebalance, Reassign, loopVars
<1>4. CASE (\E k \in Keys : ResolveOrphan(k)) \/ UNCHANGED vars
  BY <1>0, <1>4 DEF ResolveOrphan, vars, loopVars
<1> QED
  BY <1>1, <1>2, <1>3, <1>4 DEF Next

LEMMA InHandStays ==
  ASSUME TypeOK, HandsBehind, [Next]_vars, NEW c \in Consumers, Holding(c), hand'[c] = hand[c]
  PROVE  InHand(c)' = InHand(c)
<1>1. Exists(GroupOf(c), hand[c].partition, hand[c].offset)
  BY DEF HandsBehind, HandBehind
<1> QED
  BY <1>1, HandIsMessage, InstanceAndGroup, LogStep DEF InHand, MessageAt, TypeOK, DataTypeOK

LEMMA StepHandlerOnHand ==
  ASSUME IInv, [Next]_vars
  PROVE  HandlerOnHand'
<1> DEFINE OnHand(c) == /\ pc[c] # "idle" <=> loop[c] = "handle"
                        /\ loop[c] = "handle" => key[c] = KeyOf(GroupOf(c), InHand(c))
           Same(c) == /\ pc'[c] = pc[c] /\ key'[c] = key[c]
                      /\ loop'[c] = loop[c] /\ hand'[c] = hand[c]
           Typed == /\ DOMAIN loop = Consumers /\ loop = [e \in Consumers |-> loop[e]]
                    /\ DOMAIN hand = Consumers /\ hand = [e \in Consumers |-> hand[e]]
                    /\ DOMAIN pc = Consumers /\ pc = [e \in Consumers |-> pc[e]]
                    /\ DOMAIN key = Consumers /\ key = [e \in Consumers |-> key[e]]
<1>1. TypeOK /\ HandsBehind /\ \A c \in Consumers : OnHand(c)
  BY DEF IInv, HandlerOnHand
<1>2. Typed
  <2>1. LoopTypeOK /\ H!TypeOK
    BY <1>1 DEF TypeOK, DataTypeOK
  <2>2. DOMAIN loop = Consumers /\ loop = [e \in Consumers |-> loop[e]]
    BY <2>1 DEF LoopTypeOK
  <2>3. DOMAIN hand = Consumers /\ hand = [e \in Consumers |-> hand[e]]
    BY <2>1 DEF LoopTypeOK
  <2>4. DOMAIN pc = Consumers /\ pc = [e \in Consumers |-> pc[e]]
    BY <2>1 DEF H!TypeOK
  <2>5. DOMAIN key = Consumers /\ key = [e \in Consumers |-> key[e]]
    BY <2>1 DEF H!TypeOK
  <2> QED
    BY <2>2, <2>3, <2>4, <2>5
<1> SUFFICES ASSUME NEW d \in Consumers
             PROVE  OnHand(d)'
  BY DEF HandlerOnHand
<1>3. ASSUME Same(d)
      PROVE  OnHand(d)'
  BY <1>1, <1>3, InHandStays DEF Holding
<1> USE DEF Goto, loopVars, handlerVars
<1>4. ASSUME NEW c \in Consumers,
             \/ Join(c) \/ \E p \in Partitions : Fetch(c, p)
             \/ FetchError(c) \/ FetchCancelled(c) \/ DecodeFail(c)
             \/ BackoffElapsed(c) \/ BackoffCancelled(c)
             \/ CommitOffset(c) \/ CommitOffsetFail(c)
      PROVE  OnHand(d)'
  <2>1. UNCHANGED <<pc, key>>
    BY <1>4 DEF Join, Fetch, FetchError, FetchCancelled, DecodeFail, BackoffElapsed,
         BackoffCancelled, CommitOffset, CommitOffsetFail
  <2>2. Same(d) \/ (d = c /\ loop[c] # "handle" /\ loop'[c] # "handle")
    BY <1>2, <1>4, <2>1 DEF Join, Fetch, FetchError, FetchCancelled, DecodeFail,
         BackoffElapsed, BackoffCancelled, CommitOffset, CommitOffsetFail, Drop
  <2> QED
    BY <1>1, <1>3, <2>1, <2>2
<1>5. ASSUME NEW c \in Consumers, DecodeOk(c)
      PROVE  OnHand(d)'
  <2>1. Same(d) \/ d = c
    BY <1>2, <1>5 DEF DecodeOk, H!Call, H!Goto
  <2>2. /\ loop[c] = "decode" /\ loop'[c] = "handle" /\ hand'[c] = hand[c]
        /\ pc'[c] # "idle" /\ key'[c] = KeyOf(GroupOf(c), InHand(c))
    BY <1>2, <1>5 DEF DecodeOk, H!Call, H!Goto
  <2>3. InHand(c)' = InHand(c)
    BY <1>1, <2>2, InHandStays DEF Holding
  <2>4. OnHand(c)'
    BY <2>2, <2>3 DEF KeyOf
  <2> QED
    BY <1>3, <2>1, <2>4
<1>6. ASSUME NEW c \in Consumers, HandlerAnswered(c) \/ HandlerRecordFail(c)
      PROVE  OnHand(d)'
  <2>1. loop[c] = "handle" /\ UNCHANGED <<loop, hand>>
    BY <1>6 DEF HandlerAnswered, HandlerRecordFail
  <2>2. H!Step(c)
    BY <1>6 DEF HandlerAnswered, HandlerRecordFail, H!Step, H!Commit, H!Dup
  <2>3. UNCHANGED key /\ pc'[c] # "idle" /\ \A e \in Consumers : e # c => pc'[e] = pc[e]
    BY <1>2, <2>2 DEF H!Step, H!Record, H!RecordNew, H!RecordDuplicate, H!RecordFail,
         H!Inner, H!InnerOk, H!InnerFail, H!Commit, H!CommitOk, H!CommitFail, H!Dup,
         H!DupCommit, H!DupCommitFail, H!Bare, H!BareOk, H!BareFail, H!Goto
  <2>4. CASE d # c
    BY <1>3, <2>1, <2>3, <2>4
  <2>5. CASE d = c
    <3>1. InHand(c)' = InHand(c)
      BY <1>1, <2>1, InHandStays DEF Holding
    <3> QED
      BY <1>1, <2>1, <2>3, <2>5, <3>1 DEF KeyOf
  <2> QED
    BY <2>4, <2>5
<1>7. ASSUME NEW c \in Consumers, HandlerNil(c) \/ HandlerError(c)
      PROVE  OnHand(d)'
  <2>1. Same(d) \/ d = c
    BY <1>2, <1>7 DEF HandlerNil, HandlerError, Drop, H!Return, H!Goto
  <2>2. loop'[c] # "handle" /\ pc'[c] = "idle"
    BY <1>2, <1>7 DEF HandlerNil, HandlerError, H!Return, H!Goto
  <2> QED
    BY <1>3, <2>1, <2>2
<1>8. ASSUME NEW i \in Instances, Start(i)
      PROVE  OnHand(d)'
  <2>1. UNCHANGED <<pc, key, hand>>
    BY <1>8 DEF Start
  <2>2. Same(d) \/ (loop[d] = "stopped" /\ loop'[d] = "fetch")
    BY <1>2, <1>8, <2>1 DEF Start, IInv, DownIsStopped
  <2> QED
    BY <1>1, <1>3, <2>1, <2>2
<1>9. ASSUME NEW i \in Instances, Stop(i) \/ Exit(i)
      PROVE  OnHand(d)'
  BY <1>3, <1>9 DEF Stop, Exit
<1>10. ASSUME NEW i \in Instances, Crash(i)
       PROVE  OnHand(d)'
  <2>1. InstanceOf(d) = i <=> d \in ConsumersOf(i)
    BY DEF Consumers, ConsumersOf, InstanceOf
  <2>2. CASE InstanceOf(d) = i
    BY <1>10, <2>1, <2>2 DEF Crash, H!Die
  <2>3. CASE InstanceOf(d) # i
    BY <1>3, <1>10, <2>1, <2>3 DEF Crash, H!Die
  <2> QED
    BY <2>2, <2>3
<1>11. ASSUME NEW g \in Groups,
              (\E m \in Messages : Produce(g, m)) \/ TakeOver(g) \/ Rebalance(g)
       PROVE  OnHand(d)'
  BY <1>3, <1>11 DEF Produce, TakeOver, Rebalance, Reassign
<1>12. ASSUME NEW k \in Keys, ResolveOrphan(k)
       PROVE  OnHand(d)'
  BY <1>3, <1>12 DEF ResolveOrphan, H!Resolve, H!OrphanRollback, H!OrphanCommit
<1>13. CASE UNCHANGED vars
  BY <1>3, <1>13 DEF vars
<1> HIDE DEF OnHand
<1> QED
  BY <1>4, <1>5, <1>6, <1>7, <1>8, <1>9, <1>10, <1>11, <1>12, <1>13 DEF Next, ConsumerNext

\* Rows of processed_events stay.
LEMMA ProcessedStays ==
  ASSUME [H!Next]_(H!vars)
  PROVE  processed \subseteq processed'
<1>1. ASSUME NEW w \in Consumers, H!Step(w)
      PROVE  processed \subseteq processed'
  BY <1>1 DEF H!Step, H!Record, H!RecordNew, H!RecordDuplicate, H!RecordFail,
     H!Inner, H!InnerOk, H!InnerFail, H!Commit, H!CommitOk, H!CommitFail, H!Dup,
     H!DupCommit, H!DupCommitFail, H!Bare, H!BareOk, H!BareFail, H!Land
<1>2. ASSUME NEW k \in Keys, H!Resolve(k)
      PROVE  processed \subseteq processed'
  BY <1>2 DEF H!Resolve, H!OrphanRollback, H!OrphanCommit, H!Land
<1> QED
  BY <1>1, <1>2 DEF H!Next, H!Call, H!Return, H!Die, H!vars

LEMMA StepHandledExactlyOnce ==
  ASSUME IInv, [Next]_vars
  PROVE  HandledExactlyOnce'
<1> SUFFICES ASSUME NEW g \in Groups, NEW p \in Partitions, NEW o \in Offsets(g, p)',
                    <<g, p, o>> \in handled', MessageAt(g, p, o)'.event # NoEventId
             PROVE  applied'[<<g, MessageAt(g, p, o)'.event>>] = 1
  BY DEF HandledExactlyOnce
<1> DEFINE k == <<g, MessageAt(g, p, o).event>>
<1>1. TypeOK /\ LoopTypeOK /\ BrokerTypeOK /\ HandsBehind /\ FatesExist /\ H!IInv
  BY DEF IInv, TypeOK, DataTypeOK
<1>2. [H!Next]_(H!vars) /\ H!IInv'
  BY <1>1, HandlerStep, HandlerInvariant
<1>3. o \in Nat
  BY <1>1, LogStep DEF Offsets
<1>4. Exists(g, p, o)
  <2>1. CASE <<g, p, o>> \in handled
    BY <1>1, <1>3, <2>1 DEF FatesExist, Settled
  <2>2. CASE <<g, p, o>> \notin handled
    <3>1. PICK c \in Consumers : loop[c] = "handle" /\ HandId(c) = <<g, p, o>>
      BY <1>1, <1>3, <2>2, NewFate
    <3> QED
      BY <1>1, <3>1 DEF HandsBehind, HandBehind, Holding, HandId
  <2> QED
    BY <2>1, <2>2
<1>5. MessageAt(g, p, o)' = MessageAt(g, p, o) /\ MessageAt(g, p, o) \in Messages
  <2>1. log[g][p] \in Seq(Messages)
    BY <1>1 DEF BrokerTypeOK
  <2> QED
    BY <1>1, <1>3, <1>4, <2>1, LogStep DEF MessageAt, Exists
<1>6. k \in Keys
  BY <1>5 DEF Keys, Messages
<1>7. k \in processed
  <2>1. CASE <<g, p, o>> \in handled
    <3>1. o \in Offsets(g, p)
      BY <1>1, <1>3, <1>4 DEF Exists, Offsets, BrokerTypeOK
    <3>2. applied[k] = 1
      BY <1>5, <2>1, <3>1 DEF IInv, HandledExactlyOnce
    <3> QED
      BY <1>1, <1>6, <3>2 DEF H!IInv, H!AppliedAsRecorded
  <2>2. CASE <<g, p, o>> \notin handled
    <3>1. PICK c \in Consumers :
            loop[c] = "handle" /\ pc[c] = "ok" /\ HandId(c) = <<g, p, o>>
      BY <1>1, <1>3, <2>2, NewFate
    <3>2. GroupOf(c) = g /\ InHand(c) = MessageAt(g, p, o)
      BY <3>1 DEF HandId, InHand
    <3>3. key[c] = k
      BY <1>5, <3>1, <3>2 DEF IInv, HandlerOnHand, KeyOf
    <3> QED
      BY <1>1, <1>6, <3>1, <3>3, NoKeyIsNoKey DEF H!IInv, H!NilMeansProcessed
  <2> QED
    BY <2>1, <2>2
<1>8. k \in processed'
  BY <1>2, <1>7, ProcessedStays
<1>9. applied'[k] = 1
  BY <1>2, <1>6, <1>8 DEF H!IInv, H!AppliedAsRecorded
<1> QED
  BY <1>5, <1>9

-------------------------------------------------------------------------------
LEMMA InitIInv == Init => IInv
<1> SUFFICES ASSUME Init
             PROVE  IInv
  OBVIOUS
<1>1. H!IInv
  <2>1. HP!Init
    BY DEF Init, H!Init, HP!Init
  <2>2. HP!IInv
    BY <2>1, HP!InitIInv, NoKeyIsNoKey
  <2> QED
    BY <2>2, SameHandler
<1>2. DataTypeOK
  BY ConstantsAssumption
     DEF Init, DataTypeOK, BrokerTypeOK, ReaderTypeOK, LoopTypeOK, ProcessTypeOK, HistoryTypeOK,
         Holding
<1>3. NothingSkipped /\ CommitFollowsHandling
  BY DEF Init, NothingSkipped, CommitFollowsHandling
<1>4. HandledInOrder /\ HandledExactlyOnce /\ FatesExist
  BY DEF Init, HandledInOrder, HandledExactlyOnce, FatesExist, Settled
<1>5. CursorsBehind /\ HandsBehind
  BY DEF Init, CursorsBehind, HandsBehind, Holding
<1>6. DownIsStopped /\ HandlerOnHand
  BY DEF Init, DownIsStopped, HandlerOnHand, H!Init
<1> QED
  BY <1>1, <1>2, <1>3, <1>4, <1>5, <1>6 DEF IInv, TypeOK, H!IInv

LEMMA StepIInv == IInv /\ [Next]_vars => IInv'
<1> SUFFICES ASSUME IInv, [Next]_vars
             PROVE  IInv'
  OBVIOUS
<1>1. TypeOK'
  BY StepType
<1>2. NothingSkipped' /\ CommitFollowsHandling'
  BY StepNothingSkipped, StepCommitFollowsHandling
<1>3. HandledInOrder' /\ HandledExactlyOnce'
  BY StepHandledInOrder, StepHandledExactlyOnce
<1>4. CursorsBehind' /\ HandsBehind' /\ FatesExist'
  BY StepCursorsBehind, StepHandsBehind, StepFatesExist
<1>5. DownIsStopped' /\ HandlerOnHand'
  BY StepDownIsStopped, StepHandlerOnHand
<1>6. H!IInv'
  BY HandlerStep, HandlerInvariant DEF IInv
<1> QED
  BY <1>1, <1>2, <1>3, <1>4, <1>5, <1>6 DEF IInv

(* The inductive invariant. CursorsBehind and HandsBehind carry the         *)
(* argument: whatever a reader is past has settled or is in its own hand,   *)
(* also when the reader has been thrown out of its group and another        *)
(* instance has its partitions; so a commit, late or not, never passes a    *)
(* message nobody has looked at.                                            *)
LEMMA InductiveInvariant == Spec => []IInv
  BY InitIInv, StepIInv, PTL DEF Spec

(* Every variable of the loop, its readers and its broker keeps its type,   *)
(* and run has a message in hand exactly from fetch to the end of a round.  *)
THEOREM TypeCorrect == Spec => []TypeOK
  BY InductiveInvariant, PTL DEF IInv

(* Across crashes, restarts, rebalances, failed commits and late commits of *)
(* members that have lost the partition, no message below a committed       *)
(* offset has gone unseen.                                                  *)
THEOREM NoMessageSkipped == Spec => []NothingSkipped
  BY InductiveInvariant, PTL DEF IInv

(* The message just below a committed offset has been handled with nil:     *)
(* neither a decode error nor a handler error is ever committed itself.     *)
THEOREM CommitsFollowHandling == Spec => []CommitFollowsHandling
  BY InductiveInvariant, PTL DEF IInv

(* A message is handled only when the fate of every earlier message of its  *)
(* partition is known.                                                      *)
THEOREM PartitionsInOrder == Spec => []HandledInOrder
  BY InductiveInvariant, PTL DEF IInv

(* Redelivery and the dedup wrapper together commit the work on an event    *)
(* exactly once, at however many offsets and by however many instances the  *)
(* event is handled.                                                        *)
THEOREM ExactlyOnce == Spec => []HandledExactlyOnce
  BY InductiveInvariant, PTL DEF IInv

(* The handlers that the consume loops call behave, all together and with   *)
(* crashes and rebalances around them, as the handler component specified   *)
(* alone; so everything proved about that component holds here.             *)
THEOREM LoopsUseTheHandler == Spec => H!Spec
<1>1. Init => H!Init
  BY DEF Init
<1>2. IInv /\ [Next]_vars => [H!Next]_(H!vars)
  BY HandlerStep DEF IInv
<1> QED
  BY <1>1, <1>2, InductiveInvariant, PTL DEF Spec, H!Spec
(* Late commits. *)
LEMMA StepPast ==
  ASSUME IInv, [Next]_vars, NEW g \in Groups, NEW p \in Partitions, NEW o \in Nat,
         Past(g, p, o)
  PROVE  Past(g, p, o)'
<1>1. /\ TypeOK /\ HandsBehind /\ BrokerTypeOK /\ ReaderTypeOK /\ LoopTypeOK
      /\ committed[g][p] \in Nat /\ committed[g][p] > o
  BY DEF IInv, TypeOK, DataTypeOK, BrokerTypeOK, Past
<1>2. ASSUME NEW c \in Consumers, GroupOf(c) = g
      PROVE  /\ p \in claim[c] => position[c][p] > o
             /\ Holding(c) /\ hand[c].partition = p => hand[c].offset >= o
  BY <1>2 DEF Past
<1>3. committed'[g][p] > o
  <2>1. CASE UNCHANGED committed
    BY <1>1, <2>1
  <2>2. ASSUME NEW c \in Consumers, loop[c] = "commit", StoreOffset(c)
        PROVE  committed'[g][p] > o
    <3>1. Holding(c) /\ hand[c].offset \in Nat
      BY <1>1, <2>2, HandIsMessage DEF Holding
    <3>2. CASE GroupOf(c) = g /\ hand[c].partition = p
      <4>1. hand[c].offset >= o
        BY <1>2, <3>1, <3>2
      <4>2. committed'[g][p] = hand[c].offset + 1
        BY <1>1, <2>2, <3>2 DEF StoreOffset, BrokerTypeOK
      <4> QED
        BY <3>1, <4>1, <4>2
    <3>3. CASE ~(GroupOf(c) = g /\ hand[c].partition = p)
      <4>1. committed'[g][p] = committed[g][p]
        BY <1>1, <2>2, <3>3, InstanceAndGroup DEF StoreOffset, BrokerTypeOK
      <4> QED
        BY <1>1, <4>1
    <3> QED
      BY <3>2, <3>3
  <2> QED
    BY <2>1, <2>2, CommittedStep
<1>4. ASSUME NEW c \in Consumers, GroupOf(c) = g, p \in claim'[c]
      PROVE  position'[c][p] > o
  <2>1. position[c][p] \in Nat
    BY <1>1 DEF ReaderTypeOK
  <2>2. \/ position'[c][p] = committed[g][p]
        \/ p \in claim[c] /\ position'[c][p] \in {position[c][p], position[c][p] + 1}
    BY <1>1, <1>4, ClaimStep
  <2> QED
    BY <1>1, <1>2, <1>4, <2>1, <2>2
<1>5. ASSUME NEW c \in Consumers, GroupOf(c) = g, Holding(c)', hand'[c].partition = p
      PROVE  hand'[c].offset >= o
  <2>1. CASE Holding(c) /\ hand'[c] = hand[c]
    BY <1>2, <1>5, <2>1
  <2>2. CASE \E q \in Partitions : /\ q \in claim[c]
                                  /\ hand'[c] = [partition |-> q, offset |-> position[c][q]]
    <3>1. PICK q \in Partitions : /\ q \in claim[c]
                                  /\ hand'[c] = [partition |-> q, offset |-> position[c][q]]
      BY <2>2
    <3>2. q = p /\ hand'[c].offset = position[c][p] /\ position[c][p] \in Nat
      BY <1>1, <1>5, <3>1 DEF ReaderTypeOK
    <3> QED
      BY <1>2, <1>5, <3>1, <3>2
  <2> QED
    BY <1>1, <1>5, <2>1, <2>2, HandStep
<1> QED
  BY <1>3, <1>4, <1>5 DEF Past

(* A group never gets back to a message that it is past: a late commit by a *)
(* member of an earlier generation takes it back at most to what some       *)
(* member has yet to fetch or is working on (consumer.go:158).              *)
THEOREM LateCommitsAreBounded == Spec => PastStaysPast
<1>1. IInv /\ [Next]_vars
      => [\A g \in Groups, p \in Partitions, o \in 0 .. MaxLog - 1 :
             Past(g, p, o) => Past(g, p, o)']_vars
  <2> SUFFICES ASSUME IInv, [Next]_vars, NEW g \in Groups, NEW p \in Partitions,
                      NEW o \in 0 .. MaxLog - 1, Past(g, p, o)
               PROVE  Past(g, p, o)'
    OBVIOUS
  <2>1. o \in Nat
    BY ConstantsAssumption
  <2> QED
    BY <2>1, StepPast
<1> QED
  BY <1>1, InductiveInvariant, PTL DEF Spec, PastStaysPast

-------------------------------------------------------------------------------
(* Committed offsets do not go back while every hand is in the generation.  *)

LEMMA SameConsumer ==
  \A c, d \in Consumers : InstanceOf(c) = InstanceOf(d) /\ GroupOf(c) = GroupOf(d) => c = d
  BY DEF Consumers, InstanceOf, GroupOf

\* The coordinator and the processes take partitions away from members that
\* are out of the generation from then on.
LEMMA StepMembersAhead ==
  ASSUME TypeOK, HandsBehind, MembersAhead, HandsInGeneration, HandsInGeneration', [Next]_vars
  PROVE  MembersAhead'
<1> USE InstanceAndGroup DEF TypeOK, DataTypeOK, BrokerTypeOK, ReaderTypeOK, LoopTypeOK,
      Holding, brokerVars, readerVars, loopVars
<1> SUFFICES ASSUME NEW c \in Consumers, joined'[c]
             PROVE  /\ claim'[c] = {p \in Partitions : owner'[GroupOf(c)][p] = InstanceOf(c)}
                    /\ \A p \in claim'[c] : committed'[GroupOf(c)][p] <= position'[c][p]
                    /\ Holding(c)' =>
                         /\ hand'[c].partition \in claim'[c]
                         /\ position'[c][hand'[c].partition] = hand'[c].offset + 1
                         /\ committed'[GroupOf(c)][hand'[c].partition] <= hand'[c].offset
  BY DEF MembersAhead
<1> DEFINE Ahead == /\ claim[c] = {p \in Partitions : owner[GroupOf(c)][p] = InstanceOf(c)}
                    /\ \A p \in claim[c] : committed[GroupOf(c)][p] <= position[c][p]
                    /\ Holding(c) =>
                         /\ hand[c].partition \in claim[c]
                         /\ position[c][hand[c].partition] = hand[c].offset + 1
                         /\ committed[GroupOf(c)][hand[c].partition] <= hand[c].offset
           Kept == joined[c] /\ (Holding(c)' => Holding(c) /\ hand'[c] = hand[c])
<1>1. joined[c] => Ahead
  BY DEF MembersAhead
<1>2. CASE Kept /\ UNCHANGED <<committed, owner, claim, position>>
  BY <1>1, <1>2
<1>3. ASSUME NEW d \in Consumers, FetchError(d) \/ FetchCancelled(d) \/ DecodeOk(d)
               \/ DecodeFail(d) \/ BackoffElapsed(d) \/ BackoffCancelled(d)
               \/ HandlerAnswered(d) \/ HandlerRecordFail(d) \/ HandlerNil(d) \/ HandlerError(d)
      PROVE  Kept /\ UNCHANGED <<committed, owner, claim, position>>
  BY <1>3 DEF FetchError, FetchCancelled, DecodeOk, DecodeFail, BackoffElapsed,
       BackoffCancelled, HandlerAnswered, HandlerRecordFail, HandlerNil, HandlerError,
       Goto, Drop
<1>4. ASSUME NEW i \in Instances, Start(i) \/ Stop(i)
      PROVE  Kept /\ UNCHANGED <<committed, owner, claim, position>>
  BY <1>4 DEF Start, Stop
<1>5. ASSUME NEW g \in Groups, NEW m \in Messages, Produce(g, m)
      PROVE  Kept /\ UNCHANGED <<committed, owner, claim, position>>
  BY <1>5 DEF Produce
<1>6. ASSUME NEW k \in Keys, ResolveOrphan(k)
      PROVE  Kept /\ UNCHANGED <<committed, owner, claim, position>>
  BY <1>6 DEF ResolveOrphan
<1>7. CASE UNCHANGED vars
  BY <1>2, <1>7 DEF vars
<1>8. ASSUME NEW g \in Groups, TakeOver(g) \/ Rebalance(g)
      PROVE  Ahead /\ Kept /\ UNCHANGED <<committed, claim, position>>
             /\ owner'[GroupOf(c)] = owner[GroupOf(c)]
  <2>1. PICK assignment \in [Partitions -> Instances] : Reassign(g, assignment)
    BY <1>8 DEF TakeOver, Rebalance
  <2> QED
    BY <1>1, <2>1 DEF Reassign
<1>9. ASSUME NEW i \in Instances, Exit(i) \/ Crash(i)
      PROVE  Ahead /\ Kept /\ UNCHANGED committed
             /\ claim'[c] = claim[c] /\ position'[c] = position[c]
             /\ \A p \in Partitions : owner'[GroupOf(c)][p] = InstanceOf(c)
                                        <=> owner[GroupOf(c)][p] = InstanceOf(c)
  <2>1. Gone(i) /\ (UNCHANGED loopVars \/ Crash(i))
    BY <1>9 DEF Exit, Crash
  <2>2. InstanceOf(c) # i /\ joined[c]
    BY <2>1 DEF Gone
  <2>3. UNCHANGED committed /\ claim'[c] = claim[c] /\ position'[c] = position[c]
    BY <2>1, <2>2 DEF Gone
  <2>4. loop'[c] = loop[c] /\ hand'[c] = hand[c]
    BY <2>1, <2>2 DEF Crash
  <2>5. \A p \in Partitions : owner'[GroupOf(c)][p] = InstanceOf(c)
                                <=> owner[GroupOf(c)][p] = InstanceOf(c)
    BY <2>1, <2>2, ConstantsAssumption DEF Gone
  <2> QED
    BY <1>1, <2>2, <2>3, <2>4, <2>5
<1>10. ASSUME NEW d \in Consumers, Join(d)
       PROVE  \/ Kept /\ UNCHANGED <<committed, owner>>
                 /\ claim'[c] = claim[c] /\ position'[c] = position[c]
              \/ /\ ~Holding(c)' /\ UNCHANGED committed
                 /\ position'[c] = committed[GroupOf(c)]
                 /\ claim'[c] = {p \in Partitions : owner'[GroupOf(c)][p] = InstanceOf(c)}
  BY <1>10 DEF Join, HandsInGeneration
<1>11. ASSUME NEW d \in Consumers, NEW q \in Partitions, Fetch(d, q)
       PROVE  \/ Kept /\ UNCHANGED <<committed, owner>>
                 /\ claim'[c] = claim[c] /\ position'[c] = position[c]
              \/ /\ Ahead /\ UNCHANGED <<committed, owner, claim>> /\ q \in claim[c]
                 /\ position'[c] = [position[c] EXCEPT ![q] = @ + 1]
                 /\ hand'[c] = [partition |-> q, offset |-> position[c][q]]
  BY <1>1, <1>11 DEF Fetch, Goto
<1>12. ASSUME NEW d \in Consumers, CommitOffset(d) \/ CommitOffsetFail(d)
       PROVE  /\ Ahead /\ Kept /\ UNCHANGED <<owner, claim, position>>
              /\ d = c => ~Holding(c)'
              /\ UNCHANGED committed \/ (Holding(d) /\ StoreOffset(d))
  BY <1>1, <1>12 DEF CommitOffset, CommitOffsetFail, Goto, Drop
<1>13. ASSUME NEW d \in Consumers, Holding(d), StoreOffset(d), Ahead, joined[c],
              NEW p \in claim[c]
       PROVE  /\ committed'[GroupOf(c)][p] <= position[c][p]
              /\ d # c => committed'[GroupOf(c)][p] = committed[GroupOf(c)][p]
  <2>1. /\ joined[d] /\ hand[d].partition \in claim[d]
        /\ position[d][hand[d].partition] = hand[d].offset + 1
        /\ owner[GroupOf(d)][hand[d].partition] = InstanceOf(d)
    BY <1>13 DEF HandsInGeneration, MembersAhead
  <2>2. owner[GroupOf(c)][p] = InstanceOf(c)
    BY <1>13
  <2>3. CASE GroupOf(d) = GroupOf(c) /\ hand[d].partition = p
    <3>1. d = c
      BY <2>1, <2>2, <2>3, SameConsumer
    <3> QED
      BY <1>13, <2>1, <2>3, <3>1 DEF StoreOffset
  <2>4. CASE ~(GroupOf(d) = GroupOf(c) /\ hand[d].partition = p)
    BY <1>13, <2>4 DEF StoreOffset
  <2> QED
    BY <2>3, <2>4
<1>14. ASSUME NEW d \in Consumers, CommitOffset(d) \/ CommitOffsetFail(d)
       PROVE  /\ claim'[c] = {p \in Partitions : owner'[GroupOf(c)][p] = InstanceOf(c)}
              /\ \A p \in claim'[c] : committed'[GroupOf(c)][p] <= position'[c][p]
              /\ Holding(c)' =>
                   /\ hand'[c].partition \in claim'[c]
                   /\ position'[c][hand'[c].partition] = hand'[c].offset + 1
                   /\ committed'[GroupOf(c)][hand'[c].partition] <= hand'[c].offset
  <2>1. /\ Ahead /\ Kept /\ UNCHANGED <<owner, claim, position>>
        /\ d = c => ~Holding(c)'
        /\ UNCHANGED committed \/ (Holding(d) /\ StoreOffset(d))
    BY <1>12, <1>14
  <2>2. ASSUME NEW p \in claim[c]
        PROVE  /\ committed'[GroupOf(c)][p] <= position[c][p]
               /\ d # c => committed'[GroupOf(c)][p] = committed[GroupOf(c)][p]
    <3>1. CASE UNCHANGED committed
      BY <2>1, <3>1
    <3>2. CASE Holding(d) /\ StoreOffset(d)
      BY <2>1, <3>2, <1>13
    <3> QED
      BY <2>1, <3>1, <3>2
  <2>3. ASSUME Holding(c)'
        PROVE  /\ hand'[c].partition \in claim'[c]
               /\ position'[c][hand'[c].partition] = hand'[c].offset + 1
               /\ committed'[GroupOf(c)][hand'[c].partition] <= hand'[c].offset
    <3>1. hand'[c] = hand[c] /\ hand[c].partition \in claim[c] /\ d # c
      BY <2>1, <2>3
    <3>2. committed'[GroupOf(c)][hand[c].partition] = committed[GroupOf(c)][hand[c].partition]
      BY <2>2, <3>1
    <3> QED
      BY <2>1, <2>3, <3>1, <3>2
  <2> QED
    BY <2>1, <2>2, <2>3
<1>15. CASE (\E g \in Groups : TakeOver(g) \/ Rebalance(g))
              \/ \E i \in Instances : Exit(i) \/ Crash(i)
  BY <1>8, <1>9, <1>15
<1>16. CASE \E d \in Consumers : Join(d)
  BY <1>1, <1>10, <1>16
<1>17. CASE \E d \in Consumers, q \in Partitions : Fetch(d, q)
  <2>1. PICK d \in Consumers, q \in Partitions : Fetch(d, q)
    BY <1>17
  <2>2. CASE Kept /\ UNCHANGED <<committed, owner>>
             /\ claim'[c] = claim[c] /\ position'[c] = position[c]
    BY <1>1, <2>2
  <2>3. CASE /\ Ahead /\ UNCHANGED <<committed, owner, claim>> /\ q \in claim[c]
             /\ position'[c] = [position[c] EXCEPT ![q] = @ + 1]
             /\ hand'[c] = [partition |-> q, offset |-> position[c][q]]
    BY <2>3
  <2> QED
    BY <1>11, <2>1, <2>2, <2>3
<1>18. CASE \E d \in Consumers : CommitOffset(d) \/ CommitOffsetFail(d)
  BY <1>14, <1>18
<1>19. CASE \E d \in Consumers : FetchError(d) \/ FetchCancelled(d) \/ DecodeOk(d)
               \/ DecodeFail(d) \/ BackoffElapsed(d) \/ BackoffCancelled(d)
               \/ HandlerAnswered(d) \/ HandlerRecordFail(d) \/ HandlerNil(d) \/ HandlerError(d)
  BY <1>2, <1>3, <1>19
<1>20. CASE (\E g \in Groups, m \in Messages : Produce(g, m))
              \/ (\E i \in Instances : Start(i) \/ Stop(i)) \/ \E k \in Keys : ResolveOrphan(k)
  BY <1>2, <1>4, <1>5, <1>6, <1>20
<1> QED
  BY <1>7, <1>15, <1>16, <1>17, <1>18, <1>19, <1>20 DEF Next, ConsumerNext

LEMMA StepNoRegress ==
  ASSUME TypeOK, HandsBehind, MembersAhead, HandsInGeneration, [Next]_vars,
         NEW g \in Groups, NEW p \in Partitions
  PROVE  committed'[g][p] >= committed[g][p]
<1> USE InstanceAndGroup DEF TypeOK, DataTypeOK, BrokerTypeOK, LoopTypeOK
<1>1. CASE UNCHANGED committed
  BY <1>1
<1>2. ASSUME NEW c \in Consumers, loop[c] = "commit", StoreOffset(c)
      PROVE  committed'[g][p] >= committed[g][p]
  <2>1. Holding(c) /\ joined[c]
    BY <1>2 DEF HandsInGeneration, Holding
  <2>2. committed[GroupOf(c)][hand[c].partition] <= hand[c].offset
    BY <2>1 DEF MembersAhead
  <2>3. hand[c].partition \in Partitions /\ hand[c].offset \in Nat
    BY <2>1, HandIsMessage
  <2> QED
    BY <1>2, <2>2, <2>3 DEF StoreOffset
<1> QED
  BY <1>1, <1>2, CommittedStep

(* While no member works on a message of an earlier generation, a committed *)
(* offset never goes back, however many instances start, stop, crash and    *)
(* take partitions over.                                                    *)
LEMMA OffsetsOnlyAdvance == Spec /\ []HandsInGeneration => OffsetsNeverRegress
<1>1. Init => MembersAhead
  BY DEF Init, MembersAhead
<1>2. /\ IInv /\ MembersAhead /\ HandsInGeneration /\ HandsInGeneration' /\ [Next]_vars
      => MembersAhead'
  BY StepMembersAhead DEF IInv
<1>3. IInv /\ MembersAhead /\ HandsInGeneration /\ [Next]_vars
      => [\A g \in Groups, p \in Partitions : committed'[g][p] >= committed[g][p]]_vars
  BY StepNoRegress DEF IInv
<1> QED
  BY <1>1, <1>2, <1>3, InductiveInvariant, PTL DEF Spec, OffsetsNeverRegress

\* A lone instance is given all partitions or none, and loses them only by ending.
LEMMA StepLoneReader ==
  ASSUME \A i, j \in Instances : i = j, MaxRebalances = 0,
         TypeOK, LoneReader, HandsInGeneration, [Next]_vars
  PROVE  LoneReader' /\ HandsInGeneration'
<1> USE InstanceAndGroup DEF TypeOK, DataTypeOK, BrokerTypeOK, ReaderTypeOK, LoopTypeOK,
      Holding, brokerVars, readerVars, loopVars
<1> DEFINE AllOrNone == \A g \in Groups, p, q \in Partitions :
                           owner[g][p] = NoOne => owner[g][q] = NoOne
           Lone(c) == /\ claim[c] # {} =>
                            joined[c] /\ \A p \in Partitions : owner[GroupOf(c)][p] # NoOne
                      /\ Holding(c) => claim[c] # {}
           Laid(c) == Holding(c)' => Holding(c)
<1>1. AllOrNone /\ \A c \in Consumers : Lone(c) /\ (Holding(c) => joined[c])
  BY DEF LoneReader, HandsInGeneration
<1>2. SUFFICES AllOrNone' /\ \A c \in Consumers : Lone(c)'
  BY DEF LoneReader, HandsInGeneration
<1>3. ASSUME UNCHANGED <<owner, joined, claim>>, \A c \in Consumers : Laid(c)
      PROVE  AllOrNone' /\ \A c \in Consumers : Lone(c)'
  <2>1. AllOrNone'
    BY <1>1, <1>3
  <2>2. ASSUME NEW c \in Consumers
        PROVE  Lone(c)'
    BY <1>1, <1>3
  <2> QED
    BY <2>1, <2>2
<1>4. ASSUME NEW d \in Consumers, FetchError(d) \/ FetchCancelled(d) \/ DecodeOk(d)
               \/ DecodeFail(d) \/ BackoffElapsed(d) \/ BackoffCancelled(d)
               \/ HandlerAnswered(d) \/ HandlerRecordFail(d) \/ HandlerNil(d)
               \/ HandlerError(d) \/ CommitOffset(d) \/ CommitOffsetFail(d)
      PROVE  UNCHANGED <<owner, joined, claim>> /\ \A c \in Consumers : Laid(c)
  BY <1>4 DEF FetchError, FetchCancelled, DecodeOk, DecodeFail, BackoffElapsed,
       BackoffCancelled, HandlerAnswered, HandlerRecordFail, HandlerNil, HandlerError,
       CommitOffset, CommitOffsetFail, Goto, Drop
<1>5. ASSUME NEW d \in Consumers, NEW q \in Partitions, Fetch(d, q)
      PROVE  AllOrNone' /\ \A c \in Consumers : Lone(c)'
  BY <1>1, <1>5 DEF Fetch, Goto
<1>6. ASSUME NEW d \in Consumers, Join(d)
      PROVE  AllOrNone' /\ \A c \in Consumers : Lone(c)'
  <2>1. /\ UNCHANGED <<owner, loop>> /\ joined' = [joined EXCEPT ![d] = TRUE]
        /\ claim' = [claim EXCEPT ![d] =
              {p \in Partitions : owner[GroupOf(d)][p] = InstanceOf(d)}]
    BY <1>6 DEF Join
  <2>2. ~Holding(d) /\ claim[d] = {}
    BY <1>1, <1>6 DEF Join
  <2>3. claim'[d] # {} => \A p \in Partitions : owner[GroupOf(d)][p] # NoOne
    BY <1>1, <2>1, ConstantsAssumption
  <2> QED
    BY <1>1, <2>1, <2>2, <2>3
<1>7. ASSUME NEW i \in Instances, Start(i) \/ Stop(i)
      PROVE  UNCHANGED <<owner, joined, claim>> /\ \A c \in Consumers : Laid(c)
  BY <1>7 DEF Start, Stop
<1>8. ASSUME NEW i \in Instances, Exit(i) \/ Crash(i)
      PROVE  AllOrNone' /\ \A c \in Consumers : Lone(c)'
  <2>1. Gone(i)
    BY <1>8 DEF Exit, Crash
  <2>2. \A c \in Consumers : claim'[c] = {} /\ ~Holding(c)'
    <3> SUFFICES ASSUME NEW c \in Consumers
                 PROVE  claim'[c] = {} /\ ~Holding(c)'
      OBVIOUS
    <3>1. InstanceOf(c) = i
      OBVIOUS
    <3>2. claim'[c] = {}
      BY <2>1, <3>1 DEF Gone
    <3>3. c \in ConsumersOf(i)
      BY <3>1 DEF ConsumersOf, Consumers, InstanceOf
    <3>4. loop'[c] = "stopped"
      BY <1>8, <3>1, <3>3 DEF Exit, Crash
    <3> QED
      BY <3>2, <3>4
  <2>3. \A g \in Groups, p \in Partitions : owner'[g][p] = NoOne
    BY <2>1 DEF Gone
  <2> QED
    BY <2>2, <2>3
<1>9. ASSUME NEW g \in Groups, TakeOver(g)
      PROVE  AllOrNone' /\ \A c \in Consumers : Lone(c)'
  <2>1. PICK assignment \in [Partitions -> Instances] : Reassign(g, assignment)
    BY <1>9 DEF TakeOver
  <2>2. \A c \in Consumers : GroupOf(c) = g => claim[c] = {} /\ ~Holding(c)
    <3>1. \E p \in Partitions : owner[g][p] = NoOne
      BY <1>9 DEF TakeOver
    <3> SUFFICES ASSUME NEW c \in Consumers, GroupOf(c) = g
                 PROVE  claim[c] = {} /\ ~Holding(c)
      OBVIOUS
    <3>2. Lone(c)
      BY <1>1
    <3> QED
      BY <3>1, <3>2
  <2>3. UNCHANGED <<claim, loop>> /\ owner' = [owner EXCEPT ![g] = assignment]
    BY <2>1 DEF Reassign
  <2>4. \A c \in Consumers : GroupOf(c) # g => joined'[c] = joined[c]
    BY <2>1 DEF Reassign
  <2>5. \A p \in Partitions : owner'[g][p] # NoOne
    BY <2>3, ConstantsAssumption
  <2>6. \A h \in Groups : h # g => owner'[h] = owner[h]
    BY <2>3
  <2> QED
    BY <1>1, <2>2, <2>3, <2>4, <2>5, <2>6
<1>10. ASSUME NEW g \in Groups
       PROVE  ~Rebalance(g)
  BY DEF Rebalance, ProcessTypeOK
<1>11. ASSUME NEW g \in Groups, NEW m \in Messages, Produce(g, m)
       PROVE  UNCHANGED <<owner, joined, claim>> /\ \A c \in Consumers : Laid(c)
  BY <1>11 DEF Produce
<1>12. ASSUME NEW k \in Keys, ResolveOrphan(k)
       PROVE  UNCHANGED <<owner, joined, claim>> /\ \A c \in Consumers : Laid(c)
  BY <1>12 DEF ResolveOrphan
<1>13. CASE UNCHANGED vars
  BY <1>3, <1>13 DEF vars
<1> QED
  BY <1>3, <1>4, <1>5, <1>6, <1>7, <1>8, <1>9, <1>10, <1>11, <1>12, <1>13
     DEF Next, ConsumerNext

(* A lone instance, which the coordinator never interrupts, does not work   *)
(* on messages of an earlier generation, whenever it is stopped, killed and *)
(* started again; so its restarts never take a committed offset back.       *)
THEOREM LoneInstanceAdvances ==
  ASSUME \A i, j \in Instances : i = j, MaxRebalances = 0
  PROVE  Spec => OffsetsNeverRegress
<1>1. Init => LoneReader /\ HandsInGeneration
  BY DEF Init, LoneReader, HandsInGeneration, Holding
<1>2. IInv /\ LoneReader /\ HandsInGeneration /\ [Next]_vars
      => LoneReader' /\ HandsInGeneration'
  BY StepLoneReader DEF IInv
<1>3. Spec => []HandsInGeneration
  BY <1>1, <1>2, InductiveInvariant, PTL DEF Spec
<1> QED
  BY <1>3, OffsetsOnlyAdvance, PTL
================================================================================
