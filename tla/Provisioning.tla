----------------------------- MODULE Provisioning -----------------------------
(***************************************************************************)
(* EnsureTopics of internal/kafka/admin.go: at startup every instance of   *)
(* the service creates the topics that its configuration declares and the  *)
(* cluster does not have yet.                                              *)
(*                                                                         *)
(* Kafka is external: CreateTopics executes for each topic on its own. The *)
(* reply is nil only if all of them exist; it says "already exists" if     *)
(* some did before, even if another was refused; and with EOF the          *)
(* connection is closed, the request executed or not.                      *)
(***************************************************************************)
CONSTANTS
    Instances, \* processes of the service
    Declared   \* the topics of the configuration

VARIABLES
    topics,   \* the topics of the cluster
    ensuring, \* ensuring[i]: where i's call of EnsureTopics is
    toCreate, \* toCreate[i]: the topics that i has not found
    unsure    \* instances that went on after an error they ignored

vars == <<topics, ensuring, toCreate, unsure>>

Init ==
    /\ topics = {}
    /\ ensuring = [i \in Instances |-> "idle"]
    /\ toCreate = [i \in Instances |-> {}]
    /\ unsure = {}

Goto(i, s) == ensuring' = [ensuring EXCEPT ![i] = s]

\* With nothing declared there is nothing to do; else the broker is dialled.
Call(i) ==
    /\ ensuring[i] = "idle"
    /\ Goto(i, IF Declared = {} THEN "ok" ELSE "dial")
    /\ UNCHANGED <<topics, toCreate, unsure>>

\* The broker and its controller answer.
Dial(i) ==
    /\ ensuring[i] = "dial"
    /\ Goto(i, "list")
    /\ UNCHANGED <<topics, toCreate, unsure>>

\* Only missing topics are created, or all if the list cannot be had.
List(i) ==
    /\ ensuring[i] = "list"
    /\ \E existing \in {topics, {}} :
          /\ toCreate' = [toCreate EXCEPT ![i] = Declared \ existing]
          /\ Goto(i, IF Declared \subseteq existing THEN "ok" ELSE "create")
    /\ UNCHANGED <<topics, unsure>>

\* CreateTopics succeeds.
Created(i) ==
    /\ ensuring[i] = "create"
    /\ topics' = topics \union toCreate[i]
    /\ Goto(i, "ok")
    /\ UNCHANGED <<toCreate, unsure>>

\* CreateTopics returns an error that isIgnorableError takes for a success: a topic
\* exists already, be it that another instance was faster, or io.EOF.
CreatedOrNot(i) ==
    /\ ensuring[i] = "create"
    /\ \E some \in SUBSET toCreate[i] : topics' = topics \union some
    /\ unsure' = unsure \union {i}
    /\ Goto(i, "ok")
    /\ UNCHANGED toCreate

\* Every error is ignored.
RefusedMutant(i) ==
    /\ ensuring[i] = "create"
    /\ \E some \in SUBSET toCreate[i] : topics' = topics \union some
    /\ Goto(i, "ok")
    /\ UNCHANGED <<toCreate, unsure>>

\* Any other error, whatever has been created.
Refused(i) ==
    /\ ensuring[i] = "create"
    /\ \E some \in SUBSET toCreate[i] : topics' = topics \union some
    /\ Goto(i, "err")
    /\ UNCHANGED <<toCreate, unsure>>

\* The broker or its controller cannot be reached.
DialFail(i) ==
    /\ ensuring[i] = "dial"
    /\ Goto(i, "err")
    /\ UNCHANGED <<topics, toCreate, unsure>>

\* i is gone. A request that it had sent is executed, or not.
Die(i) ==
    /\ \/ UNCHANGED topics
       \/ /\ ensuring[i] = "create"
          /\ \E some \in SUBSET toCreate[i] : topics' = topics \union some
    /\ Goto(i, "idle")
    /\ toCreate' = [toCreate EXCEPT ![i] = {}]
    /\ unsure' = unsure \ {i}

Step(i) == Dial(i) \/ List(i) \/ Created(i)
Fail(i) == DialFail(i) \/ Refused(i)

------------------------------------------------------------------------------
TypeOK ==
    /\ topics \in SUBSET Declared
    /\ ensuring \in [Instances -> {"idle", "dial", "list", "create", "ok", "err"}]
    /\ toCreate \in [Instances -> SUBSET Declared]
    /\ unsure \in SUBSET Instances

(* Whoever has got through EnsureTopics without an error that it ignored    *)
(* finds all its topics, also when others were creating the same ones.      *)
EnsuredIsThere == \A i \in Instances \ unsure : ensuring[i] = "ok" => Declared \subseteq topics
===============================================================================
