----------------------------- MODULE ProcessProofs -----------------------------
(***************************************************************************)
(* Proofs about Process, with its migrations and topics, for any number of *)
(* instances, files, topics, requests and faults.                          *)
(***************************************************************************)
EXTENDS Process, TLAPS

------------------------------------------------------------------------------
(* Migrations.                                                              *)

\* Where the database is when an instance is at a file, or has got through.
FilePlace(i) ==
    /\ up[i] = "begin" => ~dirty /\ version + 1 = file[i]
    /\ up[i] = "apply" => dirty /\ version = file[i] /\ Len(ran) + 1 = version
    /\ up[i] = "clean" => dirty /\ version = file[i] /\ Len(ran) = version
    /\ up[i] = "ok" => ~dirty /\ version = Files

MigrationInv ==
    /\ M!TypeOK /\ M!Excluded /\ M!VersionTellsTruth
    /\ \A i \in Instances : FilePlace(i)

MigrationAct(i) == M!Call(i) \/ M!Step(i) \/ M!Fail(i) \/ M!Die(i)

USE ProcessAssumption

LEMMA MigrationTypes ==
    ASSUME MigrationInv, NEW i \in Instances, MigrationAct(i)
    PROVE  M!TypeOK'
<1> USE DEF M!TypeOK, M!Goto, M!At, M!Leave, M!databaseVars
<1>1. M!TypeOK /\ FilePlace(i)
  BY DEF MigrationInv
<1>2. file[i] \in 0 .. Files /\ version \in Nat /\ Len(ran) \in Nat
  BY <1>1
<1>3. CASE M!Call(i)
  BY <1>1, <1>3 DEF M!Call
<1>4. CASE M!Lock(i)
  BY <1>1, <1>4 DEF M!Lock
<1>5. CASE M!Look(i)
  BY <1>1, <1>5 DEF M!Look
<1>6. CASE M!NoChange(i)
  BY <1>1, <1>6 DEF M!NoChange
<1>7. CASE M!Refuse(i)
  BY <1>1, <1>7 DEF M!Refuse
<1>8. CASE M!Fail(i)
  BY <1>1, <1>8 DEF M!Fail
<1>9. CASE M!Begin(i)
  BY <1>1, <1>9 DEF M!Begin
<1>10. up[i] = "apply" => Append(ran, file[i]) \in Seq(1 .. Files)
  <2>1. up[i] = "apply" => file[i] \in 1 .. Files
    BY <1>1, <1>2 DEF FilePlace
  <2> QED
    BY <1>1, <2>1
<1>11. CASE M!Apply(i)
  BY <1>1, <1>10, <1>11 DEF M!Apply, M!Execute
<1>12. ASSUME M!SetClean(i)
       PROVE  version' \in 0 .. Files /\ dirty' \in BOOLEAN /\ ran' \in Seq(1 .. Files)
  BY <1>1, <1>2, <1>12 DEF M!SetClean
<1>13. ASSUME NEW r \in {"idle", "ok"}, M!Leave(i, r)
       PROVE  /\ holder' \in Instances \union {Nobody}
              /\ up' \in [Instances -> {"idle", "lock", "look", "begin", "apply", "clean",
                                        "ok", "err"}]
              /\ file' \in [Instances -> 0 .. Files]
  BY <1>1, <1>13
<1>14. CASE M!Clean(i)
  <2>1. file[i] + 1 \in 0 .. Files
    BY <1>2, <1>14 DEF M!Clean
  <2>2. file' \in [Instances -> 0 .. Files]
    BY <1>1, <2>1, <1>14 DEF M!Clean
  <2>3. up' \in [Instances -> {"idle", "lock", "look", "begin", "apply", "clean",
                               "ok", "err"}]
    BY <1>1, <1>14 DEF M!Clean
  <2> QED
    BY <1>1, <1>12, <1>14, <2>2, <2>3 DEF M!Clean
<1>15. CASE M!CleanLast(i)
  BY <1>12, <1>13, <1>15 DEF M!CleanLast
<1>16. CASE M!Die(i)
  <2>1. ran' \in Seq(1 .. Files)
    BY <1>1, <1>10, <1>16 DEF M!Die, M!Execute
  <2>2. M!Leave(i, "idle")
    BY <1>16 DEF M!Die
  <2> QED
    BY <1>1, <1>13, <1>16, <2>1, <2>2 DEF M!Die
<1> QED
  BY <1>3, <1>4, <1>5, <1>6, <1>7, <1>8, <1>9, <1>11, <1>14, <1>15, <1>16
     DEF MigrationAct, M!Step

\* What an instance does to its own call of Up touches nobody else's.
LEMMA OwnCall ==
    ASSUME MigrationInv, NEW i \in Instances, MigrationAct(i), NEW j \in Instances \ {i}
    PROVE  up'[j] = up[j] /\ file'[j] = file[j]
<1> USE DEF M!TypeOK, M!Goto, M!At, M!Leave
<1>1. M!TypeOK
  BY DEF MigrationInv
<1>2. CASE M!Call(i) \/ M!Lock(i) \/ M!Begin(i) \/ M!Apply(i)
  BY <1>1, <1>2 DEF M!Call, M!Lock, M!Begin, M!Apply
<1>3. CASE M!Look(i) \/ M!Clean(i)
  BY <1>1, <1>3 DEF M!Look, M!Clean
<1>4. CASE M!NoChange(i) \/ M!Refuse(i) \/ M!CleanLast(i) \/ M!Fail(i) \/ M!Die(i)
  BY <1>1, <1>4 DEF M!NoChange, M!Refuse, M!CleanLast, M!Fail, M!Die
<1> QED
  BY <1>2, <1>3, <1>4 DEF MigrationAct, M!Step

\* The database changes only in the hands of who holds the lock.
LEMMA OwnDatabase ==
    ASSUME MigrationInv, NEW i \in Instances, MigrationAct(i)
    PROVE  \/ UNCHANGED M!databaseVars
           \/ up[i] \in {"begin", "apply", "clean"} /\ holder = i
<1>1. M!Excluded
  BY DEF MigrationInv
<1> QED
  BY <1>1 DEF MigrationAct, M!Step, M!Call, M!Lock, M!Look, M!NoChange, M!Refuse, M!Begin, M!Apply,
              M!Clean, M!CleanLast, M!SetClean, M!Fail, M!Die, M!Leave, M!Goto, M!At, M!Excluded,
              M!databaseVars

LEMMA MigrationExcludes ==
    ASSUME MigrationInv, NEW i \in Instances, MigrationAct(i)
    PROVE  M!Excluded'
<1> DEFINE Working == {"look", "begin", "apply", "clean"}
<1> SUFFICES ASSUME NEW j \in Instances, up'[j] \in Working
             PROVE  holder' = j
  BY DEF M!Excluded
<1>1. M!TypeOK /\ M!Excluded
  BY DEF MigrationInv
<1> USE DEF M!Goto, M!At, M!Leave, M!TypeOK
<1>2. CASE j # i
  <2>1. up[j] \in Working /\ holder = j
    BY <1>1, <1>2, OwnCall DEF M!Excluded
  <2>2. holder' = holder
    BY <1>2, <2>1 DEF MigrationAct, M!Step, M!Call, M!Lock, M!Look, M!NoChange, M!Refuse, M!Begin,
                      M!Apply, M!Clean, M!CleanLast, M!SetClean, M!Fail, M!Die
  <2> QED
    BY <2>1, <2>2
<1>3. CASE j = i
  <2>1. CASE M!Call(i) \/ M!NoChange(i) \/ M!Refuse(i) \/ M!CleanLast(i) \/ M!Fail(i) \/ M!Die(i)
    BY <1>1, <1>3, <2>1 DEF M!Call, M!NoChange, M!Refuse, M!CleanLast, M!Fail, M!Die
  <2>2. CASE M!Lock(i)
    BY <1>3, <2>2 DEF M!Lock
  <2>3. CASE M!Look(i) \/ M!Begin(i) \/ M!Apply(i) \/ M!Clean(i)
    BY <1>1, <1>3, <2>3 DEF M!Look, M!Begin, M!Apply, M!Clean, M!SetClean, M!Excluded
  <2> QED
    BY <2>1, <2>2, <2>3 DEF MigrationAct, M!Step
<1> QED
  BY <1>2, <1>3

LEMMA MigrationTellsTruth ==
    ASSUME MigrationInv, NEW i \in Instances, MigrationAct(i)
    PROVE  M!VersionTellsTruth'
<1>1. M!TypeOK /\ M!VersionTellsTruth /\ FilePlace(i)
  BY DEF MigrationInv
<1>2. version \in Nat /\ Len(ran) \in Nat /\ file[i] \in Nat /\ ran \in Seq(Nat)
  BY <1>1 DEF M!TypeOK
<1>3. CASE UNCHANGED M!databaseVars
  BY <1>1, <1>3 DEF M!databaseVars, M!VersionTellsTruth
<1>4. ASSUME up[i] = "apply", M!Execute(i)
      PROVE  /\ \A n \in DOMAIN ran' : ran'[n] = n
             /\ Len(ran') = Len(ran) + 1
  <2>1. file[i] = Len(ran) + 1
    BY <1>1, <1>2, <1>4 DEF FilePlace
  <2> QED
    BY <1>1, <1>2, <1>4, <2>1 DEF M!Execute, M!VersionTellsTruth
<1>5. CASE M!Begin(i)
  <2>1. ran' = ran /\ dirty' = TRUE /\ version' = version + 1 /\ version = Len(ran)
    BY <1>1, <1>2, <1>5 DEF M!Begin, FilePlace, M!VersionTellsTruth
  <2> QED
    BY <1>1, <1>2, <2>1 DEF M!VersionTellsTruth
<1>6. CASE M!Apply(i)
  <2>1. dirty' = TRUE /\ version' = version /\ version = Len(ran')
    BY <1>1, <1>2, <1>4, <1>6 DEF M!Apply, FilePlace
  <2> QED
    BY <1>2, <1>4, <1>6, <2>1 DEF M!Apply, M!VersionTellsTruth
<1>7. CASE M!SetClean(i)
  <2>1. ran' = ran /\ dirty' = FALSE /\ version' = Len(ran)
    BY <1>1, <1>2, <1>7 DEF M!SetClean, FilePlace
  <2> QED
    BY <1>1, <1>2, <2>1 DEF M!VersionTellsTruth
<1>8. CASE M!Die(i) /\ up[i] = "apply" /\ M!Execute(i)
  <2>1. dirty' = TRUE /\ version' = version /\ version = Len(ran')
    BY <1>1, <1>2, <1>4, <1>8 DEF M!Die, FilePlace
  <2> QED
    BY <1>2, <1>4, <1>8, <2>1 DEF M!VersionTellsTruth
<1> QED
  BY <1>3, <1>5, <1>6, <1>7, <1>8
     DEF MigrationAct, M!Step, M!Call, M!Lock, M!Look, M!NoChange, M!Refuse, M!Clean, M!CleanLast,
         M!Fail, M!Die, M!databaseVars

LEMMA MigrationPlaces ==
    ASSUME MigrationInv, NEW i \in Instances, MigrationAct(i), NEW j \in Instances
    PROVE  FilePlace(j)'
<1>1. M!TypeOK /\ M!Excluded /\ M!VersionTellsTruth /\ FilePlace(i) /\ FilePlace(j)
  BY DEF MigrationInv
<1>2. version \in Nat /\ Len(ran) \in Nat /\ file[i] \in 0 .. Files
  BY <1>1 DEF M!TypeOK
<1>3. CASE j # i
  <2>1. up'[j] = up[j] /\ file'[j] = file[j]
    BY <1>3, OwnCall
  <2>2. CASE UNCHANGED M!databaseVars
    BY <1>1, <2>1, <2>2 DEF FilePlace, M!databaseVars
  <2>3. CASE up[i] \in {"begin", "apply", "clean"} /\ holder = i
    <3>1. up[j] \notin {"begin", "apply", "clean"}
      BY <1>1, <1>3, <2>3 DEF M!Excluded
    <3>2. up[j] # "ok"
      BY <1>1, <1>2, <2>3 DEF FilePlace
    <3> QED
      BY <2>1, <3>1, <3>2 DEF FilePlace
  <2> QED
    BY <2>2, <2>3, OwnDatabase
<1>4. CASE j = i
  <2> USE DEF M!TypeOK, M!Goto, M!At, M!Leave
  <2>1. CASE M!Call(i) \/ M!Lock(i) \/ M!Refuse(i) \/ M!Fail(i) \/ M!Die(i)
    <3>1. up'[i] \in {"lock", "look", "err", "idle"}
      BY <1>1, <2>1 DEF M!Call, M!Lock, M!Refuse, M!Fail, M!Die
    <3> QED
      BY <1>4, <3>1 DEF FilePlace
  <2>2. CASE M!Look(i)
    BY <1>1, <1>4, <2>2 DEF M!Look, M!databaseVars, FilePlace
  <2>3. CASE M!NoChange(i)
    BY <1>1, <1>4, <2>3 DEF M!NoChange, M!databaseVars, FilePlace
  <2>4. CASE M!Begin(i)
    <3>1. up'[i] = "apply" /\ file'[i] = file[i] /\ version' = file[i] /\ dirty' = TRUE
          /\ ran' = ran
      BY <1>1, <2>4 DEF M!Begin
    <3>2. file[i] = Len(ran) + 1
      BY <1>1, <1>2, <2>4 DEF M!Begin, FilePlace, M!VersionTellsTruth
    <3> QED
      BY <1>4, <3>1, <3>2 DEF FilePlace
  <2>5. CASE M!Apply(i)
    <3>1. up'[i] = "clean" /\ file'[i] = file[i] /\ version' = version /\ dirty' = dirty
      BY <1>1, <2>5 DEF M!Apply
    <3>2. Len(ran') = Len(ran) + 1
      BY <1>1, <2>5 DEF M!Apply, M!Execute
    <3> QED
      BY <1>1, <1>2, <1>4, <2>5, <3>1, <3>2 DEF M!Apply, FilePlace
  <2>6. CASE M!Clean(i)
    <3>1. up'[i] = "begin" /\ file'[i] = file[i] + 1
      BY <1>1, <2>6 DEF M!Clean
    <3> QED
      BY <1>4, <2>6, <3>1 DEF M!Clean, M!SetClean, FilePlace
  <2>7. CASE M!CleanLast(i)
    <3>1. up'[i] = "ok"
      BY <1>1, <2>7 DEF M!CleanLast
    <3> QED
      BY <1>4, <2>7, <3>1 DEF M!CleanLast, M!SetClean, FilePlace
  <2> QED
    BY <2>1, <2>2, <2>3, <2>4, <2>5, <2>6, <2>7 DEF MigrationAct, M!Step
<1> QED
  BY <1>3, <1>4

\* Every way of an instance through its migrations keeps all of this.
LEMMA MigrationKeeps ==
    ASSUME MigrationInv,
           UNCHANGED migrationVars \/ \E i \in Instances : MigrationAct(i)
    PROVE  MigrationInv'
<1>1. CASE UNCHANGED migrationVars
  BY <1>1 DEF migrationVars, MigrationInv, M!TypeOK, M!Excluded, M!VersionTellsTruth, FilePlace
<1>2. ASSUME NEW i \in Instances, MigrationAct(i)
      PROVE  MigrationInv'
  BY <1>2, MigrationTypes, MigrationExcludes, MigrationTellsTruth, MigrationPlaces DEF MigrationInv
<1> QED
  BY <1>1, <1>2

------------------------------------------------------------------------------
(* Topics.                                                                  *)

\* What EnsureTopics has found or is still going to create.
Found(i) ==
    /\ ensuring[i] = "create" => Declared \subseteq topics \union toCreate[i]
    /\ ensuring[i] = "ok" => Declared \subseteq topics \/ i \in unsure

TopicInv == T!TypeOK /\ \A i \in Instances : Found(i)

TopicAct(i) == T!Call(i) \/ T!Step(i) \/ T!CreatedOrNot(i) \/ T!Fail(i) \/ T!Die(i)

LEMMA TopicTypes ==
    ASSUME TopicInv, NEW i \in Instances, TopicAct(i)
    PROVE  T!TypeOK' /\ topics \subseteq topics'
<1> USE DEF T!TypeOK, T!Goto
<1>1. T!TypeOK
  BY DEF TopicInv
<1>2. CASE T!Call(i) \/ T!Dial(i) \/ T!DialFail(i)
  BY <1>1, <1>2 DEF T!Call, T!Dial, T!DialFail
<1>3. CASE T!List(i)
  BY <1>1, <1>3 DEF T!List
<1>4. CASE T!Created(i)
  BY <1>1, <1>4 DEF T!Created
<1>5. CASE T!CreatedOrNot(i)
  BY <1>1, <1>5 DEF T!CreatedOrNot
<1>6. CASE T!Refused(i)
  BY <1>1, <1>6 DEF T!Refused
<1>7. CASE T!Die(i)
  BY <1>1, <1>7 DEF T!Die
<1> QED
  BY <1>2, <1>3, <1>4, <1>5, <1>6, <1>7 DEF TopicAct, T!Step, T!Fail

\* What an instance does to its own call of EnsureTopics touches nobody else's.
LEMMA OwnTopics ==
    ASSUME TopicInv, NEW i \in Instances, TopicAct(i), NEW j \in Instances \ {i}
    PROVE  /\ ensuring'[j] = ensuring[j] /\ toCreate'[j] = toCreate[j]
           /\ j \in unsure' <=> j \in unsure
<1> USE DEF T!TypeOK, T!Goto
<1>1. T!TypeOK
  BY DEF TopicInv
<1>2. CASE T!Call(i) \/ T!Dial(i) \/ T!DialFail(i)
  BY <1>1, <1>2 DEF T!Call, T!Dial, T!DialFail
<1>3. CASE T!List(i)
  BY <1>1, <1>3 DEF T!List
<1>4. CASE T!Created(i) \/ T!CreatedOrNot(i) \/ T!Refused(i)
  BY <1>1, <1>4 DEF T!Created, T!CreatedOrNot, T!Refused
<1>5. CASE T!Die(i)
  BY <1>1, <1>5 DEF T!Die
<1> QED
  BY <1>2, <1>3, <1>4, <1>5 DEF TopicAct, T!Step, T!Fail

LEMMA TopicsFound ==
    ASSUME TopicInv, NEW i \in Instances, TopicAct(i), NEW j \in Instances
    PROVE  Found(j)'
<1>1. T!TypeOK /\ Found(i) /\ Found(j) /\ topics \subseteq topics'
  BY TopicTypes DEF TopicInv
<1>2. CASE j # i
  BY <1>1, <1>2, OwnTopics DEF Found
<1>3. CASE j = i
  <2> USE DEF T!TypeOK, T!Goto
  <2>1. CASE T!Call(i)
    BY <1>1, <1>3, <2>1 DEF T!Call, Found
  <2>2. CASE T!Dial(i) \/ T!DialFail(i) \/ T!Refused(i) \/ T!Die(i)
    <3>1. ensuring'[i] \in {"list", "err", "idle"}
      BY <1>1, <2>2 DEF T!Dial, T!DialFail, T!Refused, T!Die
    <3> QED
      BY <1>3, <3>1 DEF Found
  <2>3. CASE T!List(i)
    BY <1>1, <1>3, <2>3 DEF T!List, Found
  <2>4. CASE T!Created(i)
    BY <1>1, <1>3, <2>4 DEF T!Created, Found
  <2>5. CASE T!CreatedOrNot(i)
    BY <1>1, <1>3, <2>5 DEF T!CreatedOrNot, Found
  <2> QED
    BY <2>1, <2>2, <2>3, <2>4, <2>5 DEF TopicAct, T!Step, T!Fail
<1> QED
  BY <1>2, <1>3

LEMMA TopicsKept ==
    ASSUME TopicInv,
           UNCHANGED topicVars \/ \E i \in Instances : TopicAct(i)
    PROVE  TopicInv'
<1>1. CASE UNCHANGED topicVars
  BY <1>1 DEF topicVars, TopicInv, T!TypeOK, Found
<1> QED
  BY <1>1, TopicTypes, TopicsFound DEF TopicInv

------------------------------------------------------------------------------
(* Processes.                                                               *)

Act(i) ==
    \/ Proceed(i)
    \/ CallFails(i) \/ ConnectFails(i) \/ Signal(i) \/ Kill(i)
    \/ Listen(i) \/ ListenError(i) \/ Accept(i) \/ Answer(i)
    \/ \E f \in Formats : Take(i, f) \/ Finish(i, f) \/ Quit(i, f)

LEMMA StepsAreActs == Next <=> \E i \in Instances : Act(i)
  BY DEF Next, Act

\* Every step of a process takes its migrations a step further, or leaves them.
LEMMA ActMigrates ==
    ASSUME NEW i \in Instances, Act(i)
    PROVE  UNCHANGED migrationVars \/ MigrationAct(i)
  BY DEF Act, Proceed, Start, Connect, MigrationStep, Migrated, TopicStep, Ensured, RegisterAvro,
         RegisterProto, GiveUp, OnListenError, OnSignal, ShutdownDone, ShutdownTimeout, Waited, Close,
         CallFails, ConnectFails, Signal, Kill, Listen, ListenError, Accept, Answer, Take, Finish,
         Quit, SetConsumer, Vanish, MigrationAct

LEMMA ActProvides ==
    ASSUME NEW i \in Instances, Act(i)
    PROVE  UNCHANGED topicVars \/ TopicAct(i)
  BY DEF Act, Proceed, Start, Connect, MigrationStep, Migrated, TopicStep, Ensured, RegisterAvro,
         RegisterProto, GiveUp, OnListenError, OnSignal, ShutdownDone, ShutdownTimeout, Waited, Close,
         CallFails, ConnectFails, Signal, Kill, Listen, ListenError, Accept, Answer, Take, Finish,
         Quit, SetConsumer, Vanish, TopicAct

Phases == {"down", "connect", "migrate", "ensure", "register avro", "register proto", "serve",
           "shutdown", "wait", "close"}

\* The part of TypeOK that is about the variables of Process.
OwnTypes ==
    /\ phase \in [Instances -> Phases]
    /\ result \in [Instances -> {"none", "nil", "error"}]
    /\ listener \in [Instances -> {"closed", "starting", "open", "failed"}]
    /\ told \in [Instances -> BOOLEAN]
    /\ consumer \in [Instances -> [Formats -> {"idle", "busy", "stopped"}]]
    /\ open \in [Instances -> 0 .. MaxOpen]
    /\ subjects \in SUBSET Formats
    /\ faults \in 0 .. MaxFaults

\* What is ready when a process has got so far.
Prepared(i) ==
    /\ phase[i] \in Phases \ {"down", "connect", "migrate"} => up[i] = "ok"
    /\ phase[i] \in Phases \ {"down", "connect", "migrate", "ensure"} => ensuring[i] = "ok"
    /\ phase[i] = "register proto" => "avro" \in subjects
    /\ Serving(i) => subjects = Formats

\* What has ended when a process ends.
Ending(i) ==
    /\ listener[i] # "closed" \/ told[i] => Serving(i)
    /\ phase[i] = "shutdown" => listener[i] = "closed"
    /\ phase[i] \in {"wait", "close"} =>
          /\ listener[i] \in {"closed", "failed"}
          /\ result[i] = "nil" => listener[i] = "closed" /\ open[i] = 0
    /\ phase[i] = "close" /\ (result[i] = "nil" \/ listener[i] = "failed") => consumer[i] = Stopped

IInv ==
    /\ OwnTypes /\ MigrationInv /\ TopicInv
    /\ \A i \in Instances : Prepared(i) /\ Ending(i)

LEMMA ProcessTypes ==
    ASSUME OwnTypes, NEW i \in Instances, Act(i)
    PROVE  OwnTypes'
<1> DEFINE States == {"idle", "busy", "stopped"}
<1> USE DEF OwnTypes, Goto, servingVars
<1>1. CASE Start(i) \/ Connect(i) \/ MigrationStep(i) \/ Migrated(i) \/ TopicStep(i) \/ Ensured(i)
  BY <1>1 DEF Start, Connect, MigrationStep, Migrated, TopicStep, Ensured, Phases
<1>2. CASE RegisterAvro(i)
  BY <1>2 DEF RegisterAvro, Formats, Phases
<1>3. CASE RegisterProto(i)
  <2>1. consumer' \in [Instances -> [Formats -> States]]
    <3>1. Idle \in [Formats -> States]
      BY DEF Idle
    <3> QED
      BY <1>3, <3>1 DEF RegisterProto
  <2>2. subjects' \in SUBSET Formats
    BY <1>3 DEF RegisterProto, Formats
  <2>3. phase' \in [Instances -> Phases]
    BY <1>3 DEF RegisterProto, Phases
  <2> QED
    BY <1>3, <2>1, <2>2, <2>3 DEF RegisterProto
<1>4. Fault => faults' \in 0 .. MaxFaults
  BY DEF Fault
<1>5. ASSUME Vanish(i)
      PROVE  /\ phase' \in [Instances -> Phases]
             /\ listener' \in [Instances -> {"closed", "starting", "open", "failed"}]
             /\ told' \in [Instances -> BOOLEAN]
             /\ consumer' \in [Instances -> [Formats -> States]]
             /\ open' \in [Instances -> 0 .. MaxOpen]
  <2>1. consumer' \in [Instances -> [Formats -> States]]
    <3>1. Stopped \in [Formats -> States]
      BY DEF Stopped
    <3> QED
      BY <1>5, <3>1 DEF Vanish
  <2>2. open' \in [Instances -> 0 .. MaxOpen]
    BY <1>5 DEF Vanish
  <2>3. phase' \in [Instances -> Phases]
    BY <1>5 DEF Vanish, Phases
  <2> QED
    BY <1>5, <2>1, <2>2, <2>3 DEF Vanish
<1>6. CASE GiveUp(i)
  BY <1>5, <1>6 DEF GiveUp
<1>7. CASE Close(i)
  BY <1>5, <1>7 DEF Close
<1>8. CASE ConnectFails(i)
  BY <1>4, <1>5, <1>8 DEF ConnectFails
<1>9. CASE Kill(i)
  BY <1>4, <1>5, <1>9 DEF Kill
<1>10. CASE OnListenError(i)
  BY <1>10 DEF OnListenError, Phases
<1>11. CASE OnSignal(i)
  BY <1>11 DEF OnSignal, Phases
<1>12. CASE ShutdownDone(i) \/ ShutdownTimeout(i) \/ Waited(i)
  BY <1>12 DEF ShutdownDone, ShutdownTimeout, Waited, Phases
<1>13. CASE CallFails(i)
  BY <1>4, <1>13 DEF CallFails
<1>14. CASE Signal(i)
  BY <1>4, <1>14 DEF Signal
<1>15. CASE ListenError(i) \/ Listen(i)
  BY <1>4, <1>15 DEF ListenError, Listen
<1>16. CASE Accept(i) \/ Answer(i)
  <2>1. open' \in [Instances -> 0 .. MaxOpen]
    BY <1>16 DEF Accept, Answer
  <2> QED
    BY <1>16, <2>1 DEF Accept, Answer
<1>17. ASSUME NEW f \in Formats, Take(i, f) \/ Finish(i, f) \/ Quit(i, f)
       PROVE  OwnTypes'
  <2>1. PICK to \in States : consumer' = [consumer EXCEPT ![i][f] = to]
    BY <1>17 DEF Take, Finish, Quit, SetConsumer
  <2>2. consumer' \in [Instances -> [Formats -> States]]
    BY <2>1
  <2> QED
    BY <1>17, <2>2 DEF Take, Finish, Quit, SetConsumer
<1> QED
  BY <1>1, <1>2, <1>3, <1>6, <1>7, <1>8, <1>9, <1>10, <1>11, <1>12, <1>13, <1>14, <1>15, <1>16,
     <1>17 DEF Act, Proceed

\* A process has its own memory.
LEMMA OwnMemory ==
    ASSUME OwnTypes, NEW i \in Instances, Act(i), NEW j \in Instances \ {i}
    PROVE  /\ phase'[j] = phase[j] /\ result'[j] = result[j] /\ listener'[j] = listener[j]
           /\ told'[j] = told[j] /\ consumer'[j] = consumer[j] /\ open'[j] = open[j]
<1> USE DEF OwnTypes, Goto, servingVars
<1>1. CASE Start(i) \/ Connect(i) \/ MigrationStep(i) \/ Migrated(i) \/ TopicStep(i) \/ Ensured(i)
  BY <1>1 DEF Start, Connect, MigrationStep, Migrated, TopicStep, Ensured
<1>2. CASE RegisterAvro(i) \/ RegisterProto(i)
  BY <1>2 DEF RegisterAvro, RegisterProto
<1>3. CASE GiveUp(i) \/ Close(i) \/ ConnectFails(i) \/ Kill(i)
  BY <1>3 DEF GiveUp, Close, ConnectFails, Kill, Vanish
<1>4. CASE OnListenError(i) \/ OnSignal(i) \/ ShutdownDone(i) \/ ShutdownTimeout(i) \/ Waited(i)
  BY <1>4 DEF OnListenError, OnSignal, ShutdownDone, ShutdownTimeout, Waited
<1>5. CASE CallFails(i) \/ Signal(i) \/ Listen(i) \/ ListenError(i) \/ Accept(i) \/ Answer(i)
  BY <1>5 DEF CallFails, Signal, Listen, ListenError, Accept, Answer
<1>6. ASSUME NEW f \in Formats, Take(i, f) \/ Finish(i, f) \/ Quit(i, f)
      PROVE  UNCHANGED <<phase, result, listener, told, open>> /\ consumer'[j] = consumer[j]
  BY <1>6 DEF Take, Finish, Quit, SetConsumer
<1> QED
  BY <1>1, <1>2, <1>3, <1>4, <1>5, <1>6 DEF Act, Proceed

\* What an instance has got through stays so until its process ends.
LEMMA OkStays ==
    ASSUME OwnTypes, MigrationInv, TopicInv, NEW i \in Instances, Act(i),
           NEW j \in Instances, phase'[j] # "down"
    PROVE  /\ up[j] = "ok" => up'[j] = "ok"
           /\ ensuring[j] = "ok" => ensuring'[j] = "ok"
<1>1. CASE j # i
  BY <1>1, ActMigrates, ActProvides, OwnCall, OwnTopics DEF migrationVars, topicVars
<1>2. CASE j = i
  <2>1. ~Vanish(i)
    BY <1>2 DEF Vanish, Goto, OwnTypes
  <2>2. up[i] = "ok" => up' = up
    BY <2>1 DEF Act, Proceed, Start, Connect, MigrationStep, Migrated, TopicStep, Ensured, RegisterAvro,
           RegisterProto, GiveUp, OnListenError, OnSignal, ShutdownDone, ShutdownTimeout, Waited,
           Close, CallFails, ConnectFails, Signal, Kill, Listen, ListenError, Accept, Answer, Take,
           Finish, Quit, SetConsumer, migrationVars, M!Call, M!Step, M!Lock, M!Look, M!NoChange,
           M!Refuse, M!Begin, M!Apply, M!Clean, M!CleanLast, M!SetClean, M!Fail
  <2>3. ensuring[i] = "ok" => ensuring' = ensuring
    BY <2>1 DEF Act, Proceed, Start, Connect, MigrationStep, Migrated, TopicStep, Ensured, RegisterAvro,
           RegisterProto, GiveUp, OnListenError, OnSignal, ShutdownDone, ShutdownTimeout, Waited,
           Close, CallFails, ConnectFails, Signal, Kill, Listen, ListenError, Accept, Answer, Take,
           Finish, Quit, SetConsumer, topicVars, T!Call, T!Step, T!Dial, T!List, T!Created,
           T!CreatedOrNot, T!Fail, T!DialFail, T!Refused
  <2> QED
    BY <1>2, <2>2, <2>3
<1> QED
  BY <1>1, <1>2

LEMMA StaysPrepared ==
    ASSUME OwnTypes, MigrationInv, TopicInv, NEW i \in Instances, Act(i),
           NEW j \in Instances, Prepared(j)
    PROVE  Prepared(j)'
<1>1. subjects \subseteq subjects' /\ subjects' \subseteq Formats
  <2>1. subjects' \in {subjects, subjects \union {"avro"}, subjects \union {"proto"}}
    BY DEF Act, Proceed, Start, Connect, MigrationStep, Migrated, TopicStep, Ensured, RegisterAvro,
           RegisterProto, GiveUp, OnListenError, OnSignal, ShutdownDone, ShutdownTimeout, Waited,
           Close, CallFails, ConnectFails, Signal, Kill, Listen, ListenError, Accept, Answer, Take,
           Finish, Quit, SetConsumer
  <2> QED
    BY <2>1 DEF OwnTypes, Formats
<1>2. phase[j] \in Phases /\ phase'[j] \in Phases
  BY ProcessTypes DEF OwnTypes
<1>3. CASE phase'[j] = phase[j]
  BY <1>1, <1>2, <1>3, OkStays DEF Prepared, Serving, Phases
<1>4. CASE phase'[j] # phase[j]
  <2>1. j = i
    BY <1>4, OwnMemory
  <2> USE DEF Goto, OwnTypes
  <2>2. CASE phase'[j] \in {"down", "connect", "migrate"}
    BY <2>2 DEF Prepared, Serving
  <2>3. CASE Migrated(i)
    <3>1. phase'[i] = "ensure" /\ up'[i] = "ok"
      BY <2>3 DEF Migrated, migrationVars
    <3> QED
      BY <2>1, <3>1 DEF Prepared, Serving
  <2>4. CASE Ensured(i)
    <3>1. /\ phase[i] = "ensure" /\ phase'[i] = "register avro"
          /\ up' = up /\ ensuring'[i] = "ok"
      BY <2>4 DEF Ensured, migrationVars, topicVars
    <3> QED
      BY <1>2, <2>1, <3>1 DEF Prepared, Serving
  <2>5. CASE RegisterAvro(i)
    <3>1. /\ phase[i] = "register avro" /\ phase'[i] = "register proto"
          /\ up' = up /\ ensuring' = ensuring /\ "avro" \in subjects'
      BY <2>5 DEF RegisterAvro, migrationVars, topicVars
    <3> QED
      BY <1>2, <2>1, <3>1 DEF Prepared, Serving
  <2>6. CASE RegisterProto(i)
    <3>1. /\ phase[i] = "register proto" /\ phase'[i] = "serve"
          /\ up' = up /\ ensuring' = ensuring /\ "proto" \in subjects'
      BY <2>6 DEF RegisterProto, migrationVars, topicVars
    <3>2. subjects' = Formats
      BY <1>1, <2>1, <3>1 DEF Prepared, Formats
    <3> QED
      BY <1>2, <2>1, <3>1, <3>2 DEF Prepared
  <2>7. CASE OnListenError(i) \/ OnSignal(i) \/ ShutdownDone(i) \/ ShutdownTimeout(i) \/ Waited(i)
    <3>1. /\ Serving(i) /\ phase'[i] \in {"shutdown", "wait", "close"}
          /\ up' = up /\ ensuring' = ensuring /\ subjects' = subjects
      BY <2>7 DEF OnListenError, OnSignal, ShutdownDone, ShutdownTimeout, Waited, Serving,
                  migrationVars, topicVars
    <3> QED
      BY <1>2, <2>1, <3>1 DEF Prepared, Serving
  <2>8. ~ UNCHANGED phase
    BY <1>4
  <2> QED
    BY <2>1, <2>2, <2>3, <2>4, <2>5, <2>6, <2>7, <2>8
       DEF Act, Proceed, Start, Connect, MigrationStep, TopicStep, GiveUp, Close, Vanish, CallFails,
           ConnectFails, Signal, Kill, Listen, ListenError, Accept, Answer, Take, Finish, Quit,
           SetConsumer
<1> QED
  BY <1>3, <1>4

LEMMA EndsInOrder ==
    ASSUME OwnTypes, NEW i \in Instances, Act(i), NEW j \in Instances, Ending(j)
    PROVE  Ending(j)'
<1>1. CASE j # i
  BY <1>1, OwnMemory DEF Ending, Serving
<1>2. CASE j = i
  <2> USE DEF Goto, OwnTypes, servingVars, Serving, Ending
  <2>1. CASE Start(i) \/ Connect(i) \/ MigrationStep(i) \/ Migrated(i) \/ TopicStep(i) \/ Ensured(i)
             \/ RegisterAvro(i)
    BY <1>2, <2>1 DEF Start, Connect, MigrationStep, Migrated, TopicStep, Ensured, RegisterAvro
  <2>2. CASE RegisterProto(i)
    BY <1>2, <2>2 DEF RegisterProto
  <2>3. CASE GiveUp(i) \/ Close(i) \/ ConnectFails(i) \/ Kill(i)
    BY <1>2, <2>3 DEF GiveUp, Close, ConnectFails, Kill, Vanish
  <2>4. CASE OnListenError(i)
    BY <1>2, <2>4 DEF OnListenError
  <2>5. CASE OnSignal(i)
    BY <1>2, <2>5 DEF OnSignal
  <2>6. CASE ShutdownDone(i) \/ ShutdownTimeout(i) \/ Waited(i)
    BY <1>2, <2>6 DEF ShutdownDone, ShutdownTimeout, Waited
  <2>7. CASE CallFails(i) \/ Signal(i)
    BY <1>2, <2>7 DEF CallFails, Signal
  <2>8. CASE Listen(i) \/ ListenError(i)
    BY <1>2, <2>8 DEF Listen, ListenError
  <2>9. CASE Accept(i) \/ Answer(i)
    BY <1>2, <2>9 DEF Accept, Answer
  <2>10. ASSUME NEW f \in Formats, Take(i, f) \/ Finish(i, f) \/ Quit(i, f)
         PROVE  Ending(j)'
    <3>1. consumer[i] # Stopped
      BY <2>10 DEF Take, Finish, Quit, SetConsumer, Stopped
    <3> QED
      BY <1>2, <2>10, <3>1 DEF Take, Finish, Quit, SetConsumer
  <2> QED
    BY <2>1, <2>2, <2>3, <2>4, <2>5, <2>6, <2>7, <2>8, <2>9, <2>10 DEF Act, Proceed
<1> QED
  BY <1>1, <1>2

------------------------------------------------------------------------------
(* Theorems.                                                                *)

LEMMA InitKeeps == Init => IInv
<1> SUFFICES ASSUME Init
             PROVE  IInv
  OBVIOUS
<1>1. OwnTypes
  BY DEF Init, OwnTypes, Phases, Stopped
<1>2. MigrationInv
  <2>1. M!TypeOK
    <3>1. ran \in Seq(1 .. Files)
      BY DEF Init, M!Init
    <3>2. version \in 0 .. Files
      BY DEF Init, M!Init
    <3>4. dirty \in BOOLEAN /\ holder \in Instances \union {Nobody}
      <4>1. dirty = FALSE /\ holder = Nobody
        BY DEF Init, M!Init
      <4> QED
        BY <4>1
    <3>3. /\ up \in [Instances -> {"idle", "lock", "look", "begin", "apply", "clean", "ok", "err"}]
          /\ file \in [Instances -> 0 .. Files]
      BY DEF Init, M!Init
    <3> QED
      BY <3>1, <3>2, <3>3, <3>4 DEF M!TypeOK
  <2>2. M!VersionTellsTruth
    BY DEF Init, M!Init, M!VersionTellsTruth
  <2>3. M!Excluded /\ \A i \in Instances : FilePlace(i)
    BY DEF Init, M!Init, M!Excluded, FilePlace
  <2> QED
    BY <2>1, <2>2, <2>3 DEF MigrationInv
<1>3. TopicInv
  BY DEF Init, T!Init, TopicInv, T!TypeOK, Found
<1>4. ASSUME NEW i \in Instances
      PROVE  Prepared(i) /\ Ending(i)
  BY <1>4 DEF Init, Prepared, Ending, Serving, Stopped
<1> QED
  BY <1>1, <1>2, <1>3, <1>4 DEF IInv

LEMMA NextKeeps == IInv /\ [Next]_vars => IInv'
<1> SUFFICES ASSUME IInv, [Next]_vars
             PROVE  IInv'
  OBVIOUS
<1>1. ASSUME NEW i \in Instances, Act(i)
      PROVE  IInv'
  <2>1. OwnTypes'
    BY <1>1, ProcessTypes DEF IInv
  <2>2. MigrationInv'
    BY <1>1, ActMigrates, MigrationKeeps DEF IInv
  <2>3. TopicInv'
    BY <1>1, ActProvides, TopicsKept DEF IInv
  <2>4. ASSUME NEW j \in Instances
        PROVE  Prepared(j)' /\ Ending(j)'
    BY <1>1, StaysPrepared, EndsInOrder DEF IInv
  <2> QED
    BY <2>1, <2>2, <2>3, <2>4 DEF IInv
<1>2. CASE UNCHANGED vars
  <2>1. OwnTypes' /\ MigrationInv' /\ TopicInv'
    BY <1>2, MigrationKeeps, TopicsKept DEF IInv, vars, servingVars, OwnTypes
  <2>2. ASSUME NEW j \in Instances
        PROVE  Prepared(j)' /\ Ending(j)'
    BY <1>2 DEF IInv, vars, servingVars, migrationVars, topicVars, Prepared, Ending, Serving
  <2> QED
    BY <2>1, <2>2 DEF IInv
<1> QED
  BY <1>1, <1>2, StepsAreActs

THEOREM Invariant == Spec => []IInv
  BY InitKeeps, NextKeeps, PTL DEF Spec

(* Processes, migrations and topics keep their types, and what is up, told  *)
(* to stop or failed belongs to a process that has got through its startup. *)
THEOREM TypesHold == Spec => []TypeOK
<1>1. IInv => TypeOK
  BY DEF IInv, OwnTypes, Phases, MigrationInv, TopicInv, Ending, TypeOK
<1> QED
  BY <1>1, Invariant, PTL

(* RunMigrations: whatever instances start, fail and die at whatever point, *)
(* every file runs at most once, in its order, and the version says so.     *)
THEOREM VersionTold == Spec => []VersionTellsTruth
<1>1. IInv => VersionTellsTruth
  BY DEF IInv, MigrationInv, VersionTellsTruth
<1> QED
  BY <1>1, Invariant, PTL

(* run: a process that serves has a complete, clean schema, its topics and  *)
(* both subjects, however many others start, fail and migrate meanwhile.    *)
THEOREM ServesPrepared == Spec => []ServingIsPrepared
<1>1. IInv => ServingIsPrepared
  <2> SUFFICES ASSUME IInv, NEW i \in Instances, Serving(i)
               PROVE  /\ ~dirty /\ Len(ran) = Files
                      /\ Declared \subseteq topics \/ i \in unsure
                      /\ subjects = Formats
    BY DEF ServingIsPrepared
  <2>1. up[i] = "ok" /\ ensuring[i] = "ok" /\ subjects = Formats
    BY DEF IInv, Prepared, Serving, Phases
  <2>2. ~dirty /\ version = Files
    BY <2>1 DEF IInv, MigrationInv, FilePlace
  <2>3. Len(ran) = Files
    BY <2>2 DEF IInv, MigrationInv, M!VersionTellsTruth
  <2> QED
    BY <2>1, <2>2, <2>3 DEF IInv, TopicInv, Found
<1> QED
  BY <1>1, Invariant, PTL

(* run: when readers and writers are closed and run returns nil, or when    *)
(* the listener has failed, both consumers have stopped; and with nil every *)
(* request has been answered.                                               *)
THEOREM ClosesDrained == Spec => []DrainedBeforeClose
<1>1. IInv => DrainedBeforeClose
  BY DEF IInv, Ending, DrainedBeforeClose
<1> QED
  BY <1>1, Invariant, PTL

=============================================================================
