---------------------------- MODULE DeliveryProofs ----------------------------
(***************************************************************************)
(* TopicConsumer implements Delivery, for any number of instances, groups, *)
(* partitions and events and any bounds.                                   *)
(***************************************************************************)
EXTENDS TopicConsumerProofs

(* The event of k lies in the log, in a message that can be decoded, and    *)
(* the turn of that message has come.                                       *)
EventMet(k) ==
    \E p \in Partitions, o \in Nat :
        /\ D!Met(k[1], p, o)
        /\ MessageAt(k[1], p, o).event = k[2]
        /\ MessageAt(k[1], p, o).schema # Garbage

(* What the refinement needs beyond IInv: the handler is never given what   *)
(* no codec accepts, and a transaction that outlives its client is about an *)
(* event that has been met. Its client has forgotten the message by now, so *)
(* this cannot be told from the message in anybody's hand.                  *)
HandDecoded == \A c \in Consumers : loop[c] = "handle" => ~Malformed(c)
OrphansMet == \A k \in Keys : orphan[k] # "none" => EventMet(k)

DeliveryInv == IInv /\ HandDecoded /\ OrphansMet

-------------------------------------------------------------------------------
\* A message once met stays met, and stays what it is.
LEMMA MetStays ==
  ASSUME TypeOK, [Next]_vars, NEW g \in Groups, NEW p \in Partitions, NEW o \in Nat,
         D!Met(g, p, o)
  PROVE  D!Met(g, p, o)' /\ MessageAt(g, p, o)' = MessageAt(g, p, o)
<1>1. BrokerTypeOK /\ LoopTypeOK
  BY DEF TypeOK, DataTypeOK
<1>2. Exists(g, p, o) /\ \A below \in 0 .. o - 1 : Settled(g, p, below)
  BY DEF D!Met, Exists, Settled
<1>3. o < Len(log'[g][p])
  BY <1>1, <1>2, LogStep DEF Exists
<1>4. \A below \in 0 .. o - 1 : Settled(g, p, below)'
  BY <1>1, <1>2, SettledStays
<1> QED
  BY <1>1, <1>2, <1>3, <1>4, LogStep DEF D!Met, Settled

LEMMA EventMetStays ==
  ASSUME TypeOK, [Next]_vars, NEW k \in Keys, EventMet(k)
  PROVE  EventMet(k)'
<1>1. k[1] \in Groups
  BY DEF Keys
<1>2. PICK p \in Partitions, o \in Nat :
        /\ D!Met(k[1], p, o)
        /\ MessageAt(k[1], p, o).event = k[2]
        /\ MessageAt(k[1], p, o).schema # Garbage
  BY DEF EventMet
<1>3. D!Met(k[1], p, o)' /\ MessageAt(k[1], p, o)' = MessageAt(k[1], p, o)
  BY <1>1, <1>2, MetStays
<1> QED
  BY <1>2, <1>3 DEF EventMet

\* The turn of a message in hand has come.
LEMMA HandMet ==
  ASSUME TypeOK, HandsBehind, NEW c \in Consumers, Holding(c)
  PROVE  D!Met(GroupOf(c), hand[c].partition, hand[c].offset)
  BY DEF HandsBehind, HandBehind, D!Met, Exists, Settled

\* What a handler has a transaction open for has been met.
LEMMA WorkMet ==
  ASSUME DeliveryInv, NEW c \in Consumers, pc[c] # "idle", key[c] \in Keys
  PROVE  EventMet(key[c])
<1>1. TypeOK /\ HandsBehind /\ loop[c] = "handle" /\ key[c] = KeyOf(GroupOf(c), InHand(c))
  BY DEF DeliveryInv, IInv, HandlerOnHand
<1>2. Holding(c) /\ InHand(c).schema # Garbage
  BY <1>1 DEF DeliveryInv, HandDecoded, Malformed, Holding
<1>3. key[c] = <<GroupOf(c), InHand(c).event>>
  BY <1>1, NoKeyIsNoKey DEF KeyOf
<1> QED
  BY <1>1, <1>2, <1>3, HandMet, HandIsMessage DEF EventMet, InHand

LEMMA LockedIsMet ==
  ASSUME DeliveryInv, NEW k \in Keys, H!Locked(k)
  PROVE  EventMet(k)
  BY WorkMet DEF H!Locked, H!Holds, DeliveryInv, OrphansMet
-------------------------------------------------------------------------------
(* DeliveryInv is inductive. *)

\* Only a decoded message gets to the handler.
LEMMA ToTheHandler ==
  ASSUME LoopTypeOK, DownIsStopped, [Next]_vars, NEW c \in Consumers, loop'[c] = "handle"
  PROVE  /\ loop[c] = "handle" \/ (loop[c] = "decode" /\ ~Malformed(c))
         /\ hand'[c] = hand[c]
<1> DEFINE Fits == loop'[c] = "handle" =>
                     /\ loop[c] = "handle" \/ (loop[c] = "decode" /\ ~Malformed(c))
                     /\ hand'[c] = hand[c]
<1> USE DEF LoopTypeOK, Goto, Drop, loopVars
<1>1. ASSUME NEW d \in Consumers, Join(d) \/ FetchError(d) \/ FetchCancelled(d)
                \/ BackoffElapsed(d) \/ BackoffCancelled(d)
                \/ HandlerAnswered(d) \/ HandlerRecordFail(d)
      PROVE  Fits
  BY <1>1 DEF Join, FetchError, FetchCancelled, BackoffElapsed, BackoffCancelled,
       HandlerAnswered, HandlerRecordFail
<1>2. ASSUME NEW d \in Consumers, DecodeOk(d)
      PROVE  Fits
  BY <1>2 DEF DecodeOk
<1>3. ASSUME NEW d \in Consumers, DecodeFail(d) \/ HandlerNil(d) \/ HandlerError(d)
      PROVE  Fits
  BY <1>3 DEF DecodeFail, HandlerNil, HandlerError
<1>4. ASSUME NEW d \in Consumers, CommitOffset(d) \/ CommitOffsetFail(d)
      PROVE  Fits
  BY <1>4 DEF CommitOffset, CommitOffsetFail
<1>5. ASSUME NEW d \in Consumers, NEW p \in Partitions, Fetch(d, p)
      PROVE  Fits
  BY <1>5 DEF Fetch
<1>6. ASSUME NEW i \in Instances, Start(i) \/ Stop(i) \/ Exit(i) \/ Crash(i)
      PROVE  Fits
  BY <1>6 DEF Start, Stop, Exit, Crash
<1>7. ASSUME NEW g \in Groups,
             (\E m \in Messages : Produce(g, m)) \/ TakeOver(g) \/ Rebalance(g)
      PROVE  Fits
  BY <1>7 DEF Produce, TakeOver, Rebalance, Reassign
<1>8. CASE (\E k \in Keys : ResolveOrphan(k)) \/ UNCHANGED vars
  BY <1>8 DEF ResolveOrphan, vars
<1> QED
  BY <1>1, <1>2, <1>3, <1>4, <1>5, <1>6, <1>7, <1>8 DEF Next, ConsumerNext

LEMMA StepHandDecoded ==
  ASSUME DeliveryInv, [Next]_vars
  PROVE  HandDecoded'
<1> SUFFICES ASSUME NEW c \in Consumers, loop'[c] = "handle"
             PROVE  ~Malformed(c)'
  BY DEF HandDecoded
<1>1. TypeOK /\ LoopTypeOK /\ HandsBehind /\ DownIsStopped
  BY DEF DeliveryInv, IInv, TypeOK, DataTypeOK
<1>2. Holding(c) /\ ~Malformed(c) /\ hand'[c] = hand[c]
  BY <1>1, ToTheHandler DEF DeliveryInv, HandDecoded, Holding
<1> QED
  BY <1>1, <1>2, InHandStays DEF Malformed

\* A transaction loses its client; none comes into being without one.
LEMMA OrphanStep ==
  ASSUME H!TypeOK, [H!Next]_(H!vars), NEW k \in Keys, orphan'[k] # "none"
  PROVE  H!Locked(k)
<1> USE DEF H!TypeOK, H!Locked, H!Holds
<1>1. ASSUME NEW w \in Consumers, H!Step(w)
      PROVE  H!Locked(k)
  BY <1>1 DEF H!Step, H!Record, H!RecordNew, H!RecordDuplicate, H!RecordFail,
     H!Inner, H!InnerOk, H!InnerFail, H!Commit, H!CommitOk, H!CommitFail, H!Dup,
     H!DupCommit, H!DupCommitFail, H!Bare, H!BareOk, H!BareFail
<1>2. ASSUME NEW ws \in SUBSET Consumers, H!Die(ws)
      PROVE  H!Locked(k)
  BY <1>2 DEF H!Die
<1>3. ASSUME NEW j \in Keys, H!Resolve(j)
      PROVE  H!Locked(k)
  BY <1>3 DEF H!Resolve, H!OrphanRollback, H!OrphanCommit
<1> QED
  BY <1>1, <1>2, <1>3 DEF H!Next, H!Call, H!Return, H!vars

LEMMA StepOrphansMet ==
  ASSUME DeliveryInv, [Next]_vars
  PROVE  OrphansMet'
<1>1. TypeOK /\ H!TypeOK /\ HandsBehind
  BY DEF DeliveryInv, IInv, TypeOK
<1>2. ASSUME NEW k \in Keys, orphan'[k] # "none"
      PROVE  EventMet(k)'
  BY <1>1, <1>2, HandlerStep, OrphanStep, LockedIsMet, EventMetStays
<1> QED
  BY <1>2 DEF OrphansMet

LEMMA DeliveryInvariant == Spec => []DeliveryInv
<1>1. Init => HandDecoded /\ OrphansMet
  BY DEF Init, H!Init, HandDecoded, OrphansMet
<1>2. DeliveryInv /\ [Next]_vars => DeliveryInv'
  BY StepIInv, StepHandDecoded, StepOrphansMet DEF DeliveryInv
<1> QED
  BY <1>1, <1>2, InitIInv, PTL DEF Spec, DeliveryInv
-------------------------------------------------------------------------------
(* The step mapping. Only these steps show in Delivery: somebody publishes, *)
(* a handler or an orphaned transaction commits work, a message fails, or a *)
(* handler returns nil. Everything else is a stutter.                       *)

\* A step that neither publishes nor decides a fate leaves log and fates alone.
LEMMA QuietStep ==
  ASSUME [Next]_vars
  PROVE  \/ \E g \in Groups, m \in Messages : Produce(g, m)
         \/ \E c \in Consumers : DecodeFail(c) \/ HandlerNil(c) \/ HandlerError(c)
         \/ UNCHANGED <<log, handled, failed>>
<1> USE DEF brokerVars, historyVars
<1>1. ASSUME NEW c \in Consumers, ConsumerNext(c),
             ~(DecodeFail(c) \/ HandlerNil(c) \/ HandlerError(c))
      PROVE  UNCHANGED <<log, handled, failed>>
  BY <1>1 DEF ConsumerNext, Join, Fetch, FetchError, FetchCancelled, DecodeOk,
       BackoffElapsed, BackoffCancelled, HandlerAnswered, HandlerRecordFail, CommitOffset,
       CommitOffsetFail
<1>2. ASSUME NEW i \in Instances, Start(i) \/ Stop(i) \/ Exit(i) \/ Crash(i)
      PROVE  UNCHANGED <<log, handled, failed>>
  BY <1>2 DEF Start, Stop, Exit, Crash, Gone
<1>3. ASSUME NEW g \in Groups, TakeOver(g) \/ Rebalance(g)
      PROVE  UNCHANGED <<log, handled, failed>>
  BY <1>3 DEF TakeOver, Rebalance, Reassign
<1> QED
  BY <1>1, <1>2, <1>3 DEF Next, ResolveOrphan, vars

\* Work is committed once, by the one transaction that has the key inserted.
LEMMA AppliedStep ==
  ASSUME H!IInv, [H!Next]_(H!vars)
  PROVE  \/ UNCHANGED applied
         \/ \E k \in Keys : /\ H!Locked(k) /\ applied[k] = 0
                            /\ applied' = [applied EXCEPT ![k] = 1]
<1>1. ASSUME NEW k \in Keys, H!Locked(k), H!Land(k)
      PROVE  applied[k] = 0 /\ applied' = [applied EXCEPT ![k] = 1]
  <2>1. applied[k] = 0
    BY <1>1 DEF H!IInv, H!OneOpenTransaction, H!AppliedAsRecorded
  <2> QED
    BY <1>1, <2>1 DEF H!Land
<1>2. ASSUME NEW w \in Consumers, H!CommitOk(w)
      PROVE  key[w] \in Keys /\ H!Locked(key[w]) /\ H!Land(key[w])
  BY <1>2 DEF H!CommitOk, H!IInv, H!TypeOK, H!Locked, H!Holds
<1>3. ASSUME NEW k \in Keys, H!OrphanCommit(k)
      PROVE  H!Locked(k) /\ H!Land(k)
  BY <1>3 DEF H!OrphanCommit, H!Locked
<1>4. ASSUME NEW w \in Consumers, H!Step(w), ~H!CommitOk(w)
      PROVE  UNCHANGED applied
  BY <1>4 DEF H!Step, H!Record, H!RecordNew, H!RecordDuplicate, H!RecordFail,
     H!Inner, H!InnerOk, H!InnerFail, H!Commit, H!CommitFail, H!Dup,
     H!DupCommit, H!DupCommitFail, H!Bare, H!BareOk, H!BareFail
<1>5. ASSUME NEW k \in Keys, H!Resolve(k), ~H!OrphanCommit(k)
      PROVE  UNCHANGED applied
  BY <1>5 DEF H!Resolve, H!OrphanRollback
<1> QED
  BY <1>1, <1>2, <1>3, <1>4, <1>5 DEF H!Next, H!Call, H!Return, H!Die, H!vars

LEMMA ProduceGrows ==
  ASSUME BrokerTypeOK, NEW g \in Groups, NEW m \in Messages, Produce(g, m)
  PROVE  D!Grow
<1>1. ASSUME NEW h \in Groups, NEW p \in Partitions
      PROVE  /\ Len(log'[h][p]) >= Len(log[h][p])
             /\ SubSeq(log'[h][p], 1, Len(log[h][p])) = log[h][p]
  <2>1. log[h][p] \in Seq(Messages)
    BY DEF BrokerTypeOK
  <2>2. log'[h][p] = log[h][p] \/ log'[h][p] = Append(log[h][p], m)
    BY DEF Produce, BrokerTypeOK
  <2> QED
    BY <2>1, <2>2
<1> QED
  BY <1>1 DEF Produce, D!Grow, historyVars, handlerVars

\* The message in hand of c, as Delivery names it.
LEMMA HandMessage ==
  ASSUME TypeOK, HandsBehind, NEW c \in Consumers, Holding(c)
  PROVE  /\ GroupOf(c) \in Groups /\ hand[c].partition \in Partitions
         /\ hand[c].offset \in D!Offsets(GroupOf(c), hand[c].partition)
         /\ D!Met(GroupOf(c), hand[c].partition, hand[c].offset)
         /\ D!Message(GroupOf(c), hand[c].partition, hand[c].offset) = InHand(c)
<1>1. hand[c].partition \in Partitions /\ hand[c].offset \in Nat
  BY HandIsMessage
<1>2. log[GroupOf(c)][hand[c].partition] \in Seq(Messages)
  BY <1>1, InstanceAndGroup DEF TypeOK, DataTypeOK, BrokerTypeOK
<1>3. D!Met(GroupOf(c), hand[c].partition, hand[c].offset)
  BY HandMet
<1> QED
  BY <1>1, <1>2, <1>3, InstanceAndGroup DEF D!Met, D!Offsets, D!Message, InHand, MessageAt

LEMMA FailureFails ==
  ASSUME TypeOK, HandsBehind, NEW c \in Consumers, DecodeFail(c) \/ HandlerError(c)
  PROVE  D!Next
<1>1. /\ Holding(c) /\ failed' = failed \union {HandId(c)}
      /\ UNCHANGED <<log, handled, applied>>
  BY DEF DecodeFail, HandlerError, Holding, brokerVars, handlerVars, H!Return
<1>2. D!Fail(GroupOf(c), hand[c].partition, hand[c].offset)
  BY <1>1, HandMessage DEF D!Fail, HandId
<1> QED
  BY <1>1, <1>2, HandMessage DEF D!Next

(* nil for an event with an id means a committed row (NilMeansProcessed),   *)
(* and a committed row means work committed once (AppliedAsRecorded).       *)
LEMMA NilHandles ==
  ASSUME DeliveryInv, NEW c \in Consumers, HandlerNil(c)
  PROVE  D!Next
<1>1. TypeOK /\ HandsBehind /\ H!IInv
  BY DEF DeliveryInv, IInv
<1>2. /\ Holding(c) /\ loop[c] = "handle" /\ pc[c] = "ok"
      /\ handled' = handled \union {HandId(c)}
      /\ UNCHANGED <<log, failed, applied>>
  BY DEF HandlerNil, Holding, brokerVars, H!Return
<1>3. InHand(c).schema # Garbage
  BY <1>2 DEF DeliveryInv, HandDecoded, Malformed
<1>4. ASSUME InHand(c).event # NoEventId
      PROVE  applied[<<GroupOf(c), InHand(c).event>>] = 1
  <2>1. key[c] = <<GroupOf(c), InHand(c).event>>
    BY <1>2, <1>4 DEF DeliveryInv, IInv, HandlerOnHand, KeyOf
  <2>2. key[c] \in Keys
    BY <1>1, <1>2, <1>4, <2>1, HandIsMessage, InstanceAndGroup DEF Keys, Messages
  <2>3. key[c] \in processed
    BY <1>1, <1>2, <2>2, NoKeyIsNoKey DEF H!IInv, H!NilMeansProcessed
  <2> QED
    BY <1>1, <2>1, <2>2, <2>3 DEF H!IInv, H!AppliedAsRecorded
<1>5. D!Handle(GroupOf(c), hand[c].partition, hand[c].offset)
  BY <1>1, <1>2, <1>3, <1>4, HandMessage DEF D!Handle, HandId
<1> QED
  BY <1>1, <1>2, <1>5, HandMessage DEF D!Next

(* A commit, by the handler or in its absence, is about an event whose      *)
(* message has been met: for an orphan that is OrphansMet.                  *)
LEMMA LandingApplies ==
  ASSUME DeliveryInv, UNCHANGED <<log, handled, failed>>, NEW k \in Keys,
         H!Locked(k), applied[k] = 0, applied' = [applied EXCEPT ![k] = 1]
  PROVE  D!Next
<1>1. k = <<k[1], k[2]>> /\ k[1] \in Groups /\ k[2] \in EventIds
  BY DEF Keys
<1>2. PICK p \in Partitions, o \in Nat :
        /\ D!Met(k[1], p, o)
        /\ MessageAt(k[1], p, o).event = k[2]
        /\ MessageAt(k[1], p, o).schema # Garbage
  BY LockedIsMet DEF EventMet
<1>3. D!Message(k[1], p, o) = MessageAt(k[1], p, o)
  BY DEF D!Message, MessageAt
<1>4. D!Apply(k[1], p, o)
  BY <1>1, <1>2, <1>3, ConstantsAssumption DEF D!Apply
<1>5. log[k[1]][p] \in Seq(Messages)
  BY <1>1 DEF DeliveryInv, IInv, TypeOK, DataTypeOK, BrokerTypeOK
<1>6. o \in D!Offsets(k[1], p)
  BY <1>2, <1>5 DEF D!Met, D!Offsets
<1> QED
  BY <1>1, <1>4, <1>6 DEF D!Next

LEMMA StepDelivers ==
  ASSUME DeliveryInv, [Next]_vars
  PROVE  [D!Next]_(D!vars)
<1>1. TypeOK /\ BrokerTypeOK /\ HandsBehind /\ H!IInv
  BY DEF DeliveryInv, IInv, TypeOK, DataTypeOK
<1>2. CASE \E g \in Groups, m \in Messages : Produce(g, m)
  BY <1>1, <1>2, ProduceGrows DEF D!Next
<1>3. CASE \E c \in Consumers : DecodeFail(c) \/ HandlerNil(c) \/ HandlerError(c)
  BY <1>1, <1>3, FailureFails, NilHandles
<1>4. CASE UNCHANGED <<log, handled, failed>>
  <2>1. \/ UNCHANGED applied
        \/ \E k \in Keys : /\ H!Locked(k) /\ applied[k] = 0
                           /\ applied' = [applied EXCEPT ![k] = 1]
    BY <1>1, HandlerStep, AppliedStep
  <2> QED
    BY <1>4, <2>1, LandingApplies DEF D!vars
<1> QED
  BY <1>2, <1>3, <1>4, QuietStep

(* The consume loops of all instances, their readers, the coordinator, the  *)
(* handlers, Postgres and the processes together implement Delivery: in a   *)
(* partition messages are met in order, each is handled or fails, and the   *)
(* work on its event is committed once and before any handler returns nil   *)
(* for it. Pipeline's use of Delivery in their place rests on this.         *)
THEOREM ImplementsDelivery == Spec => DeliverySpec
<1>1. Init => D!Init
  BY DEF Init, D!Init, H!Init, Keys
<1>2. DeliveryInv /\ [Next]_vars => [D!Next]_(D!vars)
  BY StepDelivers
<1> QED
  BY <1>1, <1>2, DeliveryInvariant, PTL DEF Spec, DeliverySpec, D!Spec
===============================================================================
