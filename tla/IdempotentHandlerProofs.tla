------------------------ MODULE IdempotentHandlerProofs ------------------------
(***************************************************************************)
(* Proofs about IdempotentHandler, for any set of workers and of keys.     *)
(***************************************************************************)
EXTENDS IdempotentHandler, TLAPS

LEMMA StepType == TypeOK /\ [Next]_vars => TypeOK'
<1> SUFFICES ASSUME TypeOK, [Next]_vars
             PROVE  TypeOK'
  OBVIOUS
<1> USE DEF TypeOK, Stages, Goto
<1>1. ASSUME NEW w \in Workers, NEW k \in Keys \union {NoKey}, Call(w, k)
      PROVE  TypeOK'
  BY <1>1, NoKeyAssumption DEF Call
<1>2. ASSUME NEW w \in Workers, Record(w) \/ RecordFail(w)
      PROVE  TypeOK'
  BY <1>2 DEF Record, RecordNew, RecordDuplicate, RecordFail
<1>3. ASSUME NEW w \in Workers, Inner(w)
      PROVE  TypeOK'
  BY <1>3 DEF Inner, InnerOk, InnerFail
<1>4. ASSUME NEW w \in Workers, Commit(w)
      PROVE  TypeOK'
  BY <1>4 DEF Commit, CommitOk, CommitFail, Land
<1>5. ASSUME NEW w \in Workers, Dup(w) \/ Bare(w)
      PROVE  TypeOK'
  BY <1>5 DEF Dup, DupCommit, DupCommitFail, Bare, BareOk, BareFail
<1>6. ASSUME NEW w \in Workers, Return(w)
      PROVE  TypeOK'
  BY <1>6 DEF Return
<1>7. ASSUME NEW ws \in SUBSET Workers, Die(ws)
      PROVE  TypeOK'
  BY <1>7 DEF Die
<1>8. ASSUME NEW k \in Keys, Resolve(k)
      PROVE  TypeOK'
  BY <1>8 DEF Resolve, OrphanRollback, OrphanCommit, Land
<1>9. CASE UNCHANGED vars
  BY <1>9 DEF vars
<1> QED
  BY <1>1, <1>2, <1>3, <1>4, <1>5, <1>6, <1>7, <1>8, <1>9 DEF Next, Step

(* Every variable keeps its type, and only calls with a key get into the    *)
(* transaction: NewIdempotentHandler's early return for an empty event_id.  *)
THEOREM TypeCorrect == Spec => []TypeOK
<1>1. Init => TypeOK
  BY DEF Init, TypeOK, Stages
<1> QED
  BY <1>1, StepType, PTL DEF Spec

-------------------------------------------------------------------------------
(* The inductive invariant. OneOpenTransaction carries the argument: a row  *)
(* can be committed only by the one transaction that has it inserted, and   *)
(* while there is one the row is not committed yet; so a commit takes       *)
(* applied[k] from 0 to 1.                                                  *)
LEMMA InitIInv == Init => IInv
  BY NoKeyAssumption DEF Init, IInv, TypeOK, Stages, OneOpenTransaction, Locked, Holds,
     AppliedAsRecorded, RowsAreEarned, NilMeansProcessed, CommitsAreEarned, BareHasNoKey

LEMMA StepIInv == IInv /\ [Next]_vars => IInv'
<1> SUFFICES ASSUME IInv, [Next]_vars
             PROVE  IInv'
  OBVIOUS
<1>0. TypeOK'
  BY StepType DEF IInv
<1> USE <1>0 DEF IInv, TypeOK, Stages, Goto
<1>1. ASSUME NEW w \in Workers, NEW k \in Keys \union {NoKey}, Call(w, k)
      PROVE  IInv'
  BY <1>1, NoKeyAssumption
     DEF Call, OneOpenTransaction, Locked, Holds, AppliedAsRecorded, RowsAreEarned,
         NilMeansProcessed, CommitsAreEarned, BareHasNoKey
<1>2. ASSUME NEW w \in Workers, RecordNew(w)
      PROVE  IInv'
  <2>1. OneOpenTransaction'
    BY <1>2 DEF RecordNew, OneOpenTransaction, Locked, Holds
  <2>2. AppliedAsRecorded' /\ RowsAreEarned'
    BY <1>2 DEF RecordNew, AppliedAsRecorded, RowsAreEarned
  <2>3. NilMeansProcessed' /\ CommitsAreEarned' /\ BareHasNoKey'
    BY <1>2 DEF RecordNew, NilMeansProcessed, CommitsAreEarned, BareHasNoKey
  <2> QED
    BY <2>1, <2>2, <2>3
<1>3. ASSUME NEW w \in Workers, RecordDuplicate(w) \/ RecordFail(w)
      PROVE  IInv'
  BY <1>3
     DEF RecordDuplicate, RecordFail, OneOpenTransaction, Locked, Holds, AppliedAsRecorded,
         RowsAreEarned, NilMeansProcessed, CommitsAreEarned, BareHasNoKey
<1>4. ASSUME NEW w \in Workers, InnerOk(w)
      PROVE  IInv'
  BY <1>4
     DEF InnerOk, OneOpenTransaction, Locked, Holds, AppliedAsRecorded, RowsAreEarned,
         NilMeansProcessed, CommitsAreEarned, BareHasNoKey
<1>5. ASSUME NEW w \in Workers, InnerFail(w)
      PROVE  IInv'
  BY <1>5
     DEF InnerFail, OneOpenTransaction, Locked, Holds, AppliedAsRecorded, RowsAreEarned,
         NilMeansProcessed, CommitsAreEarned, BareHasNoKey
<1>6. ASSUME NEW w \in Workers, CommitOk(w)
      PROVE  IInv'
  <2>1. key[w] \in Keys /\ Holds(w, key[w])
    BY <1>6 DEF CommitOk, Holds
  <2>2. OneOpenTransaction'
    BY <1>6, <2>1 DEF CommitOk, Land, OneOpenTransaction, Locked, Holds
  <2>3. key[w] \notin processed
    BY <2>1 DEF OneOpenTransaction, Locked
  <2>4. AppliedAsRecorded'
    BY <1>6, <2>1, <2>3 DEF CommitOk, Land, AppliedAsRecorded
  <2>5. RowsAreEarned'
    BY <1>6 DEF CommitOk, Land, RowsAreEarned, CommitsAreEarned
  <2>6. NilMeansProcessed' /\ CommitsAreEarned' /\ BareHasNoKey'
    BY <1>6 DEF CommitOk, Land, NilMeansProcessed, CommitsAreEarned, BareHasNoKey
  <2> QED
    BY <2>2, <2>4, <2>5, <2>6
<1>7. ASSUME NEW w \in Workers, CommitFail(w)
      PROVE  IInv'
  BY <1>7
     DEF CommitFail, OneOpenTransaction, Locked, Holds, AppliedAsRecorded, RowsAreEarned,
         NilMeansProcessed, CommitsAreEarned, BareHasNoKey
<1>8. ASSUME NEW w \in Workers, Dup(w) \/ Bare(w)
      PROVE  IInv'
  BY <1>8, NoKeyAssumption
     DEF Dup, DupCommit, DupCommitFail, Bare, BareOk, BareFail, OneOpenTransaction, Locked,
         Holds, AppliedAsRecorded, RowsAreEarned, NilMeansProcessed, CommitsAreEarned,
         BareHasNoKey
<1>9. ASSUME NEW w \in Workers, Return(w)
      PROVE  IInv'
  BY <1>9
     DEF Return, OneOpenTransaction, Locked, Holds, AppliedAsRecorded, RowsAreEarned,
         NilMeansProcessed, CommitsAreEarned, BareHasNoKey
<1>10. ASSUME NEW ws \in SUBSET Workers, Die(ws)
       PROVE  IInv'
  <2>1. \A w \in Workers, k \in Keys : Holds(w, k)' => w \notin ws /\ Holds(w, k)
    BY <1>10 DEF Die, Holds
  <2>2. \A k \in Keys : orphan'[k] # "none" =>
          orphan[k] # "none" \/ \E w \in ws : Holds(w, k)
    BY <1>10 DEF Die, Holds
  <2>3. OneOpenTransaction'
    BY <1>10, <2>1, <2>2 DEF Die, OneOpenTransaction, Locked
  <2>4. AppliedAsRecorded' /\ RowsAreEarned'
    BY <1>10 DEF Die, AppliedAsRecorded, RowsAreEarned
  <2>5. NilMeansProcessed' /\ CommitsAreEarned' /\ BareHasNoKey'
    BY <1>10 DEF Die, NilMeansProcessed, CommitsAreEarned, BareHasNoKey
  <2> QED
    BY <2>3, <2>4, <2>5
<1>11. ASSUME NEW k \in Keys, OrphanRollback(k)
       PROVE  IInv'
  BY <1>11
     DEF OrphanRollback, OneOpenTransaction, Locked, Holds, AppliedAsRecorded, RowsAreEarned,
         NilMeansProcessed, CommitsAreEarned, BareHasNoKey
<1>12. ASSUME NEW k \in Keys, OrphanCommit(k)
       PROVE  IInv'
  <2>1. OneOpenTransaction'
    BY <1>12 DEF OrphanCommit, Land, OneOpenTransaction, Locked, Holds
  <2>2. k \notin processed
    BY <1>12 DEF OrphanCommit, OneOpenTransaction, Locked
  <2>3. AppliedAsRecorded'
    BY <1>12, <2>2 DEF OrphanCommit, Land, AppliedAsRecorded
  <2>4. RowsAreEarned' /\ NilMeansProcessed' /\ CommitsAreEarned' /\ BareHasNoKey'
    BY <1>12
       DEF OrphanCommit, Land, RowsAreEarned, NilMeansProcessed, CommitsAreEarned,
           BareHasNoKey
  <2> QED
    BY <2>1, <2>3, <2>4
<1>13. CASE UNCHANGED vars
  BY <1>13
     DEF vars, OneOpenTransaction, Locked, Holds, AppliedAsRecorded, RowsAreEarned,
         NilMeansProcessed, CommitsAreEarned, BareHasNoKey
<1> QED
  BY <1>1, <1>2, <1>3, <1>4, <1>5, <1>6, <1>7, <1>8, <1>9, <1>10, <1>11, <1>12, <1>13
     DEF Next, Step, Record, Inner, Commit, Resolve

LEMMA InductiveInvariant == Spec => []IInv
  BY InitIInv, StepIInv, PTL DEF Spec

(* Whatever is delivered twice, fails, dies or is left in doubt, no two     *)
(* open transactions hold the same event, for any number of workers.        *)
THEOREM OneTransactionPerKey == Spec => []OneOpenTransaction
  BY InductiveInvariant, PTL DEF IInv

(* The work on an event is committed at most once, and is committed exactly *)
(* when its marker row is.                                                  *)
THEOREM AppliedOnce == Spec => []AppliedAsRecorded
  BY InductiveInvariant, PTL DEF IInv

(* No marker row without a successful run of inner: the rollback on error   *)
(* keeps a failed event deliverable.                                        *)
THEOREM RowsEarned == Spec => []RowsAreEarned
  BY InductiveInvariant, PTL DEF IInv

(* nil, on which the consume loop commits the offset, is returned only for  *)
(* an event whose marker row is committed (or that has no id).              *)
THEOREM NilIsProcessed == Spec => []NilMeansProcessed
  BY InductiveInvariant, PTL DEF IInv

-------------------------------------------------------------------------------
(* The handler and its table implement OncePerKey: every step is a step of  *)
(* the abstract specification or changes nothing it can see.                *)
THEOREM ImplementsOncePerKey == Spec => OncePerKeySpec
<1>1. Init => Promise!Init
  BY DEF Init, Promise!Init, Answer
<1>2. IInv /\ TypeOK' /\ [Next]_vars => [Promise!Next]_(Promise!vars)
  <2> SUFFICES ASSUME IInv, TypeOK', [Next]_vars
               PROVE  [Promise!Next]_(Promise!vars)
    OBVIOUS
  <2> USE DEF IInv, TypeOK, Stages, Goto, Answer
  <2>1. ASSUME NEW w \in Workers, NEW k \in Keys \union {NoKey}, Call(w, k)
        PROVE  Promise!Ask(w, k)
    BY <2>1 DEF Call, Promise!Ask
  <2>2. ASSUME NEW w \in Workers, Record(w)
        PROVE  UNCHANGED Promise!vars
    BY <2>2 DEF Record, RecordNew, RecordDuplicate, Promise!vars
  <2>3. ASSUME NEW w \in Workers, RecordFail(w) \/ InnerFail(w) \/ CommitFail(w)
                                    \/ DupCommitFail(w) \/ BareFail(w)
        PROVE  Promise!AnswerError(w)
    BY <2>3 DEF RecordFail, InnerFail, CommitFail, DupCommitFail, BareFail,
                Promise!AnswerError
  <2>4. ASSUME NEW w \in Workers, InnerOk(w)
        PROVE  key[w] \in Keys /\ Promise!Succeed(key[w])
    BY <2>4 DEF InnerOk, Promise!Succeed
  <2>5. ASSUME NEW w \in Workers, CommitOk(w)
        PROVE  key[w] \in Keys /\ Promise!Apply(key[w])
    <3>1. key[w] \in Keys /\ Holds(w, key[w])
      BY <2>5 DEF CommitOk, Holds
    <3>2. key[w] \in succeeded /\ applied[key[w]] = 0
      BY <2>5, <3>1 DEF CommitOk, OneOpenTransaction, Locked, AppliedAsRecorded,
                        CommitsAreEarned
    <3>3. Answer[w] = "busy" /\ Answer' = [Answer EXCEPT ![w] = "nil"]
      BY <2>5 DEF CommitOk
    <3>4. applied' = [applied EXCEPT ![key[w]] = 1] /\ UNCHANGED <<succeeded, key>>
      BY <2>5, <3>2 DEF CommitOk, Land
    <3> HIDE DEF IInv, Answer
    <3> QED
      BY <3>1, <3>2, <3>3, <3>4 DEF Promise!Apply
  <2>6. ASSUME NEW w \in Workers, DupCommit(w) \/ BareOk(w)
        PROVE  Promise!AnswerNil(w)
    <3>1. key[w] \in Keys => applied[key[w]] = 1
      BY <2>6, NoKeyAssumption
         DEF DupCommit, BareOk, NilMeansProcessed, AppliedAsRecorded, BareHasNoKey
    <3> QED
      BY <2>6, <3>1 DEF DupCommit, BareOk, Promise!AnswerNil
  <2>7. ASSUME NEW w \in Workers, Return(w)
        PROVE  Promise!Leave({w})
    BY <2>7 DEF Return, Promise!Leave
  <2>8. ASSUME NEW ws \in SUBSET Workers, Die(ws)
        PROVE  Promise!Leave(ws)
    BY <2>8 DEF Die, Promise!Leave
  <2>9. ASSUME NEW k \in Keys, OrphanRollback(k)
        PROVE  UNCHANGED Promise!vars
    BY <2>9 DEF OrphanRollback, Promise!vars
  <2>10. ASSUME NEW k \in Keys, OrphanCommit(k)
         PROVE  Promise!Apply(k)
    <3>1. k \in succeeded /\ applied[k] = 0
      BY <2>10 DEF OrphanCommit, OneOpenTransaction, Locked, AppliedAsRecorded,
                   CommitsAreEarned
    <3> QED
      BY <2>10, <3>1 DEF OrphanCommit, Land, Promise!Apply
  <2>11. CASE UNCHANGED vars
    BY <2>11 DEF vars, Promise!vars
  <2> HIDE DEF IInv, TypeOK, Stages, Goto, Answer
  <2> QED
    BY <2>1, <2>2, <2>3, <2>4, <2>5, <2>6, <2>7, <2>8, <2>9, <2>10, <2>11
       DEF Next, Step, Inner, Commit, Dup, Bare, Resolve, Promise!Next
<1> QED
  BY <1>1, <1>2, InductiveInvariant, TypeCorrect, PTL DEF Spec, OncePerKeySpec, Promise!Spec
================================================================================
