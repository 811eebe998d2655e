--------------------------- MODULE UserServiceProofs ---------------------------
(***************************************************************************)
(* Proofs about UserService and its Producer, for any number of requests,  *)
(* users, names and emails, any calls and any table to start with.         *)
(***************************************************************************)
EXTENDS UserService, FiniteSetTheorems, SequenceTheorems, TLAPS

Writes == {"create", "update", "delete"}
Stages == {"new", "read", "write", "upsert", "count", "page", "publish"} \union Definite \union Cut
Snapshots == [id : UserIds, name : Names, email : Emails] \union {NoSnapshot}
Listings == [total : Nat, from : Nat, page : SUBSET UserIds, to : Nat]

------------------------------------------------------------------------------
(* Where a request is, and what it is about.                                *)

\* What the place of a request says of its call.
CallFits(r) ==
    /\ stage[r] = "new" => call[r] = NoCall /\ listing[r] = NoListing
    /\ stage[r] # "new" => call[r] \in Calls
    /\ stage[r] \in {"new", "read", "count", "page"} => user[r] = NoSnapshot
    /\ stage[r] = "read" => call[r].op \in {"get", "update", "delete"}
    /\ stage[r] \in {"count", "page"} => call[r].op = "list"
    /\ stage[r] \in {"write", "publish"} \/ r \in doubt => call[r].op \in Writes
    /\ stage[r] = "upsert" => call[r].op = "update"
    /\ r \in doubt => stage[r] = "error"

\* The user that a request works on is the one that it asked for, or a new one.
UserFits(r) ==
    /\ stage[r] \in {"write", "upsert", "publish"} \/ r \in doubt => Id(r) \in UserIds
    /\ stage[r] = "ok" => Id(r) \in UserIds \/ call[r].op = "list"
    /\ Id(r) \in UserIds /\ call[r].op # "create" => Id(r) = call[r].user

\* Its publication is made after its write; what is still under way has been sent by it.
PublicationFits(r) ==
    /\ writing[r] # "idle" => /\ stage[r] \in {"publish", "ok", "gone"}
                              /\ userOf[r] = Id(r) /\ Id(r) \in UserIds
                              /\ call[r].op \in Writes
    /\ stage[r] = "publish" => writing[r] # "idle"
    /\ writing[r] \in P!Formats => stage[r] = "publish"
    /\ \A f \in P!Formats : <<f, r>> \in flying => writing[r] # "idle"

\* What r was answered before stays answered.
HistoryFits(r) ==
    /\ \A q \in before[r] : stage[q] \in Definite
    /\ stage[r] = "new" => before[r] = {}

Control == \A r \in Requests : CallFits(r) /\ UserFits(r) /\ PublicationFits(r) /\ HistoryFits(r)

\* Transactions in doubt are about rows of their own, and a delete is about a live one.
DoubtFits ==
    \A r \in doubt :
        /\ call[r].op = "delete" => Live(Id(r))
        /\ \A q \in doubt \ {r} : Id(q) # Id(r)

Basics == TypeOK /\ Control /\ DoubtFits

\* r's write may still commit.
Pending(r) == stage[r] \in {"write", "upsert"} \/ r \in doubt

------------------------------------------------------------------------------
(* What the safety properties need to be inductive.                         *)

\* Transactions in doubt could commit in any order and clash with no live row.
DoubtApart ==
    \A r \in doubt :
        /\ ~Clash(r)
        /\ \A q \in doubt \ {r} :
              Written(r).state = "live" /\ Written(q).state = "live"
              => Written(r).email # Written(q).email

EmailsInv == Distinct(row) /\ DoubtApart

\* A user once found is live, or a request to delete it has committed.
GoneByDelete ==
    \A r \in Requests : call[r].op # "create" /\ Id(r) \in UserIds =>
        Live(Id(r)) \/ \E q \in Requests : Deletes(q, Id(r)) /\ Stored(q)

Earned(r) == Stored(r) \/ \E q \in Requests : Deletes(r, Id(r)) /\ Deletes(q, Id(r)) /\ Stored(q)

EarnedInv == GoneByDelete /\ \A r \in Requests : writing[r] # "idle" => Earned(r)

\* What is in a topic has been published under that key.
TopicFits ==
    \A f \in P!Formats, u \in UserIds : \A e \in ToSet(topic[f][u]) :
        writing[e] # "idle" /\ userOf[e] = u

\* An acknowledged write is in its topic.
AckedIn ==
    \A f \in P!Formats, e \in Requests : <<f, e>> \in acked =>
        writing[e] # "idle" /\ e \in ToSet(topic[f][userOf[e]])

\* Nothing is written to the proto topic before the avro topic has acknowledged.
AvroFirst ==
    \A e \in Requests :
        writing[e] \in {"proto", "nil"} \/ <<"proto", e>> \in flying \/ P!InTopic("proto", e)
        => <<"avro", e>> \in acked

TopicInv == TopicFits /\ AckedIn /\ AvroFirst

\* An update overlapped the DELETE d.
Revived(d) ==
    \E p \in Requests : call[p].op = "update" /\ call[p].user = call[d].user /\ Overlap(p, d)

\* No other request works on the user that a create has not yet stored.
CreatesAlone ==
    \A c \in Requests : call[c].op = "create" /\ Pending(c) =>
        row[Id(c)] = NoRow /\ \A q \in Requests \ {c} : Id(q) # Id(c)

\* A deleted user is live again, or found by a request sent later, only when revived.
GoneInv ==
    \A d \in Requests : stage[d] \in {"publish", "ok"} /\ call[d].op = "delete" =>
        /\ Live(call[d].user) => Revived(d)
        /\ \A r \in Requests :
              stage[d] = "ok" /\ d \in before[r]
              /\ (Id(r) = call[d].user \/ call[d].user \in listing[r].page) => Revived(d)

\* What a lone update has read of the fields that it omits is still so.
LoneIsFresh ==
    \A r \in Requests :
        Pending(r) /\ call[r].op = "update" /\ Alone(r) /\ Live(Id(r)) =>
            /\ call[r].name = Omitted => user[r].name = row[Id(r)].name
            /\ call[r].email = Omitted => user[r].email = row[Id(r)].email

\* Since a list has counted, each commit has changed the number of live users by at most 1.
CountDrifts ==
    \A r \in Requests : stage[r] = "page" =>
        LET drift == Len(stored) - listing[r].from
            n == Cardinality(LiveUsers) IN
        /\ drift >= 0
        /\ listing[r].total - drift <= n
        /\ n <= listing[r].total + drift

USE ServiceAssumption

\* A call is one of the five kinds, with the fields that its kind has.
LEMMA CallShape ==
    ASSUME NEW c \in Calls
    PROVE  /\ c.op \in {"create", "update", "get", "delete", "list"}
           /\ c.op = "create" => c.name \in Names /\ c.email \in Emails /\ c.user = NoUser
           /\ c.op \in {"update", "get", "delete"} => c.user \in UserIds
           /\ c.op \in {"update", "get", "delete"} =>
                 c.name \in Names \union {Omitted} /\ c.email \in Emails \union {Omitted}
           /\ c.op = "list" => c.user = NoUser /\ c.offset \in Int /\ c.limit \in Int
  BY DEF AllCalls

LEMMA LiveRow ==
    ASSUME row \in [UserIds -> Rows], NEW u \in UserIds, Live(u)
    PROVE  row[u].name \in Names /\ row[u].email \in Emails
  BY DEF Rows, NoRow, Live

\* A found user, patched.
LEMMA PatchedType ==
    ASSUME row \in [UserIds -> Rows], NEW r \in Requests, call[r] \in Calls,
           call[r].op \in {"get", "update", "delete"}, Live(call[r].user)
    PROVE  Patched(r) \in [id : UserIds, name : Names, email : Emails]
           /\ Patched(r).id = call[r].user
<1>1. /\ call[r].user \in UserIds
      /\ call[r].name \in Names \union {Omitted} /\ call[r].email \in Emails \union {Omitted}
  BY CallShape
<1>2. row[call[r].user].name \in Names /\ row[call[r].user].email \in Emails
  BY <1>1, LiveRow
<1> QED
  BY <1>1, <1>2 DEF Patched

\* What a request's statement leaves behind is a row.
LEMMA WrittenType ==
    ASSUME Basics, NEW r \in Requests, Pending(r), r \in doubt \/ Hits(r)
    PROVE  /\ Id(r) \in UserIds /\ Written(r) \in Rows
           /\ call[r].op \in Writes /\ user[r] \in [id : UserIds, name : Names, email : Emails]
           /\ call[r].op = "delete" => Live(Id(r)) /\ Written(r).state = "deleted"
           /\ call[r].op # "delete" => Written(r).state = "live"
<1>1. /\ CallFits(r) /\ UserFits(r) /\ row \in [UserIds -> Rows]
      /\ user[r] \in Snapshots
  BY DEF Basics, Control, TypeOK, Snapshots
<1>2. Id(r) \in UserIds /\ call[r].op \in Writes
  BY <1>1 DEF Pending, CallFits, UserFits, Writes
<1>3. user[r] \in [id : UserIds, name : Names, email : Emails]
  BY <1>1, <1>2 DEF Snapshots, NoSnapshot, Id
<1>4. call[r].op = "delete" => Live(Id(r))
  BY <1>1, <1>2 DEF Basics, DoubtFits, Hits, CallFits
<1>5. CASE call[r].op = "delete"
  <2>1. row[Id(r)] \in [state : {"live", "deleted"}, name : Names, email : Emails]
    BY <1>1, <1>2, <1>4, <1>5 DEF Rows, NoRow, Live
  <2> QED
    BY <1>2, <1>3, <1>4, <1>5, <2>1 DEF Written, Rows
<1>6. CASE call[r].op # "delete"
  BY <1>2, <1>3, <1>6 DEF Written, Rows
<1> QED
  BY <1>5, <1>6

\* The steps of the requests, without those of a publication.
Act(r) ==
    \/ \E c \in Calls :
          \/ CreateUser(r, c) \/ GetUser(r, c) \/ ListUsers(r, c)
          \/ UpdateUser(r, c) \/ DeleteUser(r, c)
    \/ Find(r) \/ NotFound(r) \/ Count(r) \/ Page(r)
    \/ Statement(r) \/ DbFail(r) \/ LoseCommit(r) \/ Settle(r)
    \/ PublishWrite(r) \/ Respond(r) \/ CutPublish(r)

\* What a step does to the table.
RowStep ==
    \/ UNCHANGED <<row, stored>>
    \/ \E r \in Requests :
          /\ Pending(r)
          /\ r \in doubt \/ (Goes(r) /\ Hits(r) /\ ~Clash(r))
          /\ row' = [row EXCEPT ![Id(r)] = Written(r)]
          /\ stored' = Append(stored, r)
          /\ doubt' = doubt \ {r} /\ stage'[r] \notin {"write", "upsert"}

\* What a step does to a publication and to the topics.
ProducerStep ==
    \/ UNCHANGED producerVars
    \/ \E r \in Requests :
          \/ P!Publish(r, Id(r)) /\ stage[r] \in {"write", "upsert"}
          \/ P!Write(r) /\ stage[r] = "publish"
          \/ \E f \in P!Formats : P!Arrive(f, r)

LEMMA TableSteps ==
    ASSUME Basics, Next
    PROVE  RowStep
<1> USE DEF requestVars, tableVars, Goto
<1>1. ASSUME NEW r \in Requests, Act(r)
      PROVE  RowStep
  <2>0. stage \in [Requests -> Stages] /\ CallFits(r)
    BY DEF Basics, TypeOK, Control, Stages
  <2>1. CASE Store(r)
    BY <2>0, <2>1 DEF Store, RowStep, Goes, Pending, CallFits
  <2>2. CASE Settle(r)
    BY <2>0, <2>2 DEF Settle, RowStep, Pending, CallFits
  <2>3. CASE \E c \in Calls : CreateUser(r, c) \/ GetUser(r, c) \/ ListUsers(r, c)
                             \/ UpdateUser(r, c) \/ DeleteUser(r, c)
    BY <2>3 DEF CreateUser, GetUser, ListUsers, UpdateUser, DeleteUser, Receive, RowStep
  <2>4. CASE Find(r) \/ NotFound(r) \/ Count(r) \/ Page(r) \/ DbFail(r) \/ LoseCommit(r)
    BY <2>4 DEF Find, NotFound, Count, Page, DbFail, LoseCommit, RowStep
  <2>5. CASE Refuse(r) \/ Fallback(r) \/ DeleteNothing(r)
    BY <2>5 DEF Refuse, Fallback, DeleteNothing, RowStep
  <2>6. CASE PublishWrite(r) \/ Respond(r) \/ CutPublish(r)
    BY <2>6 DEF PublishWrite, Respond, CutPublish, RowStep
  <2> QED
    BY <1>1, <2>1, <2>2, <2>3, <2>4, <2>5, <2>6 DEF Act, Statement
<1>2. ASSUME NEW f \in P!Formats, NEW r \in Requests, Arrive(f, r)
      PROVE  RowStep
  BY <1>2 DEF Arrive, RowStep
<1> QED
  BY <1>1, <1>2 DEF Next, Act

LEMMA PublicationSteps ==
    ASSUME Next
    PROVE  ProducerStep
<1>1. ASSUME NEW r \in Requests, Act(r)
      PROVE  ProducerStep
  <2>1. CASE Store(r) \/ DeleteNothing(r)
    BY <2>1 DEF Store, DeleteNothing, ProducerStep, Goes
  <2>2. CASE PublishWrite(r) \/ Respond(r) \/ CutPublish(r)
    BY <2>2 DEF PublishWrite, Respond, CutPublish, ProducerStep, P!Write
  <2>3. CASE \E c \in Calls : CreateUser(r, c) \/ GetUser(r, c) \/ ListUsers(r, c)
                             \/ UpdateUser(r, c) \/ DeleteUser(r, c)
    BY <2>3 DEF CreateUser, GetUser, ListUsers, UpdateUser, DeleteUser, Receive, ProducerStep
  <2>4. CASE Find(r) \/ NotFound(r) \/ Count(r) \/ Page(r) \/ DbFail(r) \/ LoseCommit(r)
    BY <2>4 DEF Find, NotFound, Count, Page, DbFail, LoseCommit, ProducerStep
  <2>5. CASE Refuse(r) \/ Fallback(r) \/ Settle(r)
    BY <2>5 DEF Refuse, Fallback, Settle, ProducerStep
  <2> QED
    BY <1>1, <2>1, <2>2, <2>3, <2>4, <2>5 DEF Act, Statement
<1>2. ASSUME NEW f \in P!Formats, NEW r \in Requests, Arrive(f, r)
      PROVE  ProducerStep
  BY <1>2 DEF Arrive, ProducerStep
<1> QED
  BY <1>1, <1>2 DEF Next, Act

\* A request is received once; what it asks for, what was answered before it, and the user
\* that it has found do not change any more; an answer stands.
LEMMA Frozen ==
    ASSUME Basics, Next, NEW q \in Requests
    PROVE  /\ stage[q] # "new" => /\ call'[q] = call[q] /\ before'[q] = before[q]
                                  /\ stage'[q] # "new"
           /\ stage[q] \in Definite \union Cut =>
                 stage'[q] = stage[q] /\ listing'[q] = listing[q]
           /\ Id(q) # NoUser => user'[q] = user[q]
           /\ Id(q)' # NoUser => stage'[q] # "new"
           /\ stage'[q] = "new" => /\ call'[q] = call[q] /\ before'[q] = before[q]
                                   /\ user'[q] = user[q] /\ listing'[q] = listing[q]
           /\ stage[q] = "new" /\ stage'[q] # "new" =>
                 /\ stage'[q] \notin Definite
                 /\ before'[q] = {p \in Requests : stage[p] \in Definite}
<1> DEFINE Goal ==
        /\ stage[q] # "new" => /\ call'[q] = call[q] /\ before'[q] = before[q]
                               /\ stage'[q] # "new"
        /\ stage[q] \in Definite \union Cut => stage'[q] = stage[q] /\ listing'[q] = listing[q]
        /\ Id(q) # NoUser => user'[q] = user[q]
        /\ user'[q].id # NoUser => stage'[q] # "new"
        /\ stage'[q] = "new" => /\ call'[q] = call[q] /\ before'[q] = before[q]
                                /\ user'[q] = user[q] /\ listing'[q] = listing[q]
        /\ stage[q] = "new" /\ stage'[q] # "new" =>
              /\ stage'[q] \notin Definite
              /\ before'[q] = {p \in Requests : stage[p] \in Definite}
<1> USE DEF requestVars, tableVars, Goto, Definite, Cut, Id
<1>0. /\ stage \in [Requests -> Stages] /\ call \in [Requests -> Calls \union {NoCall}]
      /\ user \in [Requests -> Snapshots] /\ listing \in [Requests -> Listings]
      /\ before \in [Requests -> SUBSET Requests]
  BY DEF Basics, TypeOK, Stages, Snapshots, Listings
<1>1. \A r \in Requests : CallFits(r)
  BY DEF Basics, Control
<1>2. \A r \in Requests : stage[r] \in {"new", "read", "count", "page"} => user[r].id = NoUser
  BY <1>0, <1>1 DEF CallFits, NoSnapshot
<1>3. ASSUME NEW r \in Requests, Act(r)
      PROVE  Goal
  <2>1. CASE Store(r) \/ DeleteNothing(r) \/ Refuse(r) \/ Fallback(r)
    BY <1>0, <1>2, <2>1 DEF Store, DeleteNothing, Refuse, Fallback, Goes
  <2>2. CASE PublishWrite(r) \/ Respond(r) \/ CutPublish(r) \/ Settle(r)
    BY <1>0, <1>2, <2>2 DEF PublishWrite, Respond, CutPublish, Settle
  <2>3. CASE \E c \in Calls : CreateUser(r, c)
    BY <1>0, <1>2, <2>3 DEF CreateUser, Receive
  <2>4. CASE \E c \in Calls : GetUser(r, c) \/ ListUsers(r, c) \/ UpdateUser(r, c) \/ DeleteUser(r, c)
    BY <1>0, <1>2, <2>4 DEF GetUser, ListUsers, UpdateUser, DeleteUser, Receive
  <2>5. CASE Find(r) \/ NotFound(r)
    BY <1>0, <1>2, <2>5 DEF Find, NotFound
  <2>6. CASE Count(r) \/ Page(r)
    BY <1>0, <1>2, <2>6 DEF Count, Page
  <2>7. CASE DbFail(r) \/ LoseCommit(r)
    BY <1>0, <1>2, <2>7 DEF DbFail, LoseCommit, Goes
  <2> QED
    BY <1>3, <2>1, <2>2, <2>3, <2>4, <2>5, <2>6, <2>7 DEF Act, Statement
<1>4. ASSUME NEW f \in P!Formats, NEW r \in Requests, Arrive(f, r)
      PROVE  Goal
  BY <1>0, <1>2, <1>4 DEF Arrive
<1>5. Goal
  BY <1>3, <1>4 DEF Next, Act
<1> QED
  BY <1>5

\* The table.
LEMMA RowTypes ==
    ASSUME Basics, Next
    PROVE  row' \in [UserIds -> Rows] /\ stored' \in Seq(Requests)
<1>0. row \in [UserIds -> Rows] /\ stored \in Seq(Requests)
  BY DEF Basics, TypeOK
<1>1. CASE UNCHANGED <<row, stored>>
  BY <1>0, <1>1
<1>2. ASSUME NEW r \in Requests, Pending(r), r \in doubt \/ Hits(r),
             row' = [row EXCEPT ![Id(r)] = Written(r)], stored' = Append(stored, r)
      PROVE  row' \in [UserIds -> Rows] /\ stored' \in Seq(Requests)
  BY <1>0, <1>2, WrittenType
<1> QED
  BY <1>1, <1>2, TableSteps DEF RowStep

\* A step appends copies of one event to the topics, if any, under the key of that event.
TopicStep ==
    \/ UNCHANGED topic
    \/ \E f \in P!Formats, e \in Requests, s \in Seq(Requests) :
          /\ \A i \in DOMAIN s : s[i] = e
          /\ userOf[e] \in UserIds
          /\ writing[e] = f \/ <<f, e>> \in flying
          /\ topic' = [topic EXCEPT ![f][userOf[e]] = @ \o s]

LEMMA TopicSteps ==
    ASSUME Basics, Next
    PROVE  TopicStep
<1>0. /\ P!TypeOK /\ stage \in [Requests -> Stages]
      /\ \A r \in Requests : PublicationFits(r)
  BY DEF Basics, TypeOK, Control, Stages
<1>1. ASSUME NEW r \in Requests, P!WriteOk(r)
      PROVE  TopicStep
  <2>1. PICK n \in 1 .. MaxCopies :
           topic' = [topic EXCEPT ![writing[r]][userOf[r]] = @ \o [i \in 1 .. n |-> r]]
    BY <1>1 DEF P!WriteOk
  <2> DEFINE s == [i \in 1 .. n |-> r]
  <2>2. s \in Seq(Requests) /\ \A i \in DOMAIN s : s[i] = r
    OBVIOUS
  <2>3. writing[r] \in P!Formats /\ userOf[r] \in UserIds
    BY <1>0, <1>1 DEF P!WriteOk, P!Formats, PublicationFits
  <2> HIDE DEF s
  <2>4. topic' = [topic EXCEPT ![writing[r]][userOf[r]] = @ \o s]
    BY <2>1 DEF s
  <2> QED
    BY <2>2, <2>3, <2>4 DEF TopicStep
<1>2. ASSUME NEW f \in P!Formats, NEW r \in Requests, P!Land(f, r)
      PROVE  TopicStep
  <2>1. userOf[r] \in UserIds /\ <<f, r>> \in flying
    BY <1>0, <1>2 DEF P!Land, PublicationFits
  <2>2. topic' = [topic EXCEPT ![f][userOf[r]] = @ \o <<r>>]
    <3>1. topic[f][userOf[r]] \in Seq(Requests)
      BY <1>0, <2>1 DEF P!TypeOK
    <3>2. Append(topic[f][userOf[r]], r) = topic[f][userOf[r]] \o <<r>>
      BY <3>1, AppendIsConcat
    <3> QED
      BY <1>2, <3>2 DEF P!Land
  <2>3. <<r>> \in Seq(Requests) /\ \A i \in DOMAIN <<r>> : <<r>>[i] = r
    OBVIOUS
  <2> QED
    BY <2>1, <2>2, <2>3 DEF TopicStep
<1>3. CASE UNCHANGED producerVars
  BY <1>3 DEF producerVars, TopicStep
<1>4. ASSUME NEW r \in Requests, P!Publish(r, Id(r)) \/ P!WriteFail(r)
      PROVE  TopicStep
  BY <1>4 DEF P!Publish, P!WriteFail, TopicStep
<1>5. ASSUME NEW f \in P!Formats, NEW r \in Requests, P!Lose(f, r)
      PROVE  TopicStep
  BY <1>5 DEF P!Lose, TopicStep
<1> QED
  BY <1>1, <1>2, <1>3, <1>4, <1>5, PublicationSteps DEF ProducerStep, P!Write, P!Arrive

\* The publications and the topics.
LEMMA ProducerTypes ==
    ASSUME Basics, Next
    PROVE  P!TypeOK'
<1> USE DEF P!Formats
<1>0. /\ P!TypeOK
      /\ \A r \in Requests : stage[r] \in {"write", "upsert"} => Id(r) \in UserIds
  BY DEF Basics, TypeOK
<1>1. topic' \in [P!Formats -> [UserIds -> Seq(Requests)]]
  <2>1. ASSUME NEW f \in P!Formats, NEW e \in Requests, NEW s \in Seq(Requests),
               userOf[e] \in UserIds, topic' = [topic EXCEPT ![f][userOf[e]] = @ \o s]
        PROVE  topic' \in [P!Formats -> [UserIds -> Seq(Requests)]]
    <3>1. topic[f][userOf[e]] \o s \in Seq(Requests)
      BY <1>0, <2>1 DEF P!TypeOK
    <3>2. [topic[f] EXCEPT ![userOf[e]] = @ \o s] \in [UserIds -> Seq(Requests)]
      BY <1>0, <2>1, <3>1 DEF P!TypeOK
    <3>3. topic' = [topic EXCEPT ![f] = [topic[f] EXCEPT ![userOf[e]] = @ \o s]]
      BY <1>0, <2>1 DEF P!TypeOK
    <3> QED
      BY <1>0, <3>2, <3>3 DEF P!TypeOK
  <2> QED
    BY <1>0, <2>1, TopicSteps DEF TopicStep, P!TypeOK
<1>2. CASE UNCHANGED producerVars
  BY <1>0, <1>2 DEF producerVars, P!TypeOK
<1>3. ASSUME NEW r \in Requests, P!Publish(r, Id(r)), stage[r] \in {"write", "upsert"}
      PROVE  P!TypeOK'
  BY <1>0, <1>3 DEF P!Publish, P!TypeOK
<1>4. ASSUME NEW r \in Requests, P!WriteFail(r)
      PROVE  P!TypeOK'
  BY <1>0, <1>4 DEF P!WriteFail, P!TypeOK
<1>5. ASSUME NEW r \in Requests, P!WriteOk(r)
      PROVE  P!TypeOK'
  BY <1>0, <1>1, <1>5 DEF P!WriteOk, P!After, P!TypeOK
<1>6. ASSUME NEW f \in P!Formats, NEW r \in Requests, P!Arrive(f, r)
      PROVE  P!TypeOK'
  BY <1>0, <1>1, <1>6 DEF P!Arrive, P!Land, P!Lose, P!TypeOK
<1> QED
  BY <1>2, <1>3, <1>4, <1>5, <1>6, PublicationSteps DEF ProducerStep, P!Write

LEMMA LiveCount ==
    Cardinality(LiveUsers) \in Nat /\ IsFiniteSet(LiveUsers)
<1>1. LiveUsers \subseteq UserIds
  BY DEF LiveUsers
<1> QED
  BY <1>1, FS_Subset, FS_CardinalityType

LEMMA CountedListing ==
    ASSUME NEW l \in Listings, NEW n \in Nat, NEW k \in Nat
    PROVE  [l EXCEPT !.total = n, !.from = k] \in Listings
  BY DEF Listings

LEMMA PagedListing ==
    ASSUME NEW l \in Listings, NEW us \in SUBSET UserIds, NEW k \in Nat
    PROVE  [l EXCEPT !.page = us, !.to = k] \in Listings
  BY DEF Listings

RequestTypesOK ==
    /\ stage \in [Requests -> Stages] /\ call \in [Requests -> Calls \union {NoCall}]
    /\ user \in [Requests -> Snapshots] /\ listing \in [Requests -> Listings]
    /\ doubt \in SUBSET Requests /\ before \in [Requests -> SUBSET Requests]

\* The requests.
LEMMA RequestTypes ==
    ASSUME Basics, Next
    PROVE  RequestTypesOK'
<1> USE DEF requestVars, tableVars, Goto, RequestTypesOK
<1>0. RequestTypesOK /\ stored \in Seq(Requests) /\ row \in [UserIds -> Rows]
  BY DEF Basics, TypeOK, Stages, Snapshots, Listings
<1>1. \A r \in Requests : CallFits(r)
  BY DEF Basics, Control
<1>2. ASSUME NEW r \in Requests, Act(r)
      PROVE  RequestTypesOK'
  <2>1. CASE Store(r) \/ DeleteNothing(r) \/ Refuse(r) \/ Fallback(r)
    BY <1>0, <2>1 DEF Store, DeleteNothing, Refuse, Fallback, Stages, Definite
  <2>2. CASE PublishWrite(r) \/ Respond(r) \/ CutPublish(r) \/ Settle(r)
    BY <1>0, <2>2 DEF PublishWrite, Respond, CutPublish, Settle, Stages, Definite, Cut
  <2>3. ASSUME NEW c \in Calls, CreateUser(r, c)
        PROVE  RequestTypesOK'
    <3>1. c.name \in Names /\ c.email \in Emails
      BY <2>3, CallShape DEF CreateUser
    <3>2. user' \in [Requests -> Snapshots]
      BY <1>0, <2>3, <3>1 DEF CreateUser, Snapshots
    <3> QED
      BY <1>0, <2>3, <3>2 DEF CreateUser, Receive, Stages
  <2>4. CASE \E c \in Calls : GetUser(r, c) \/ ListUsers(r, c) \/ UpdateUser(r, c) \/ DeleteUser(r, c)
    BY <1>0, <2>4 DEF GetUser, ListUsers, UpdateUser, DeleteUser, Receive, Stages
  <2>5. CASE Find(r)
    <3>1. Patched(r) \in Snapshots
      BY <1>0, <1>1, <2>5, PatchedType DEF Find, CallFits, Snapshots
    <3> QED
      BY <1>0, <2>5, <3>1 DEF Find, Stages, Definite
  <2>6. CASE NotFound(r)
    BY <1>0, <2>6 DEF NotFound, Stages, Definite
  <2>7. CASE Count(r)
    <3>1. Len(stored) \in Nat
      BY <1>0
    <3>2. [listing[r] EXCEPT !.total = Cardinality(LiveUsers), !.from = Len(stored)] \in Listings
      BY <1>0, <3>1, LiveCount, CountedListing
    <3>3. listing' = [listing EXCEPT ![r].total = Cardinality(LiveUsers),
                                     ![r].from = Len(stored)]
      BY <2>7 DEF Count
    <3>4. listing' \in [Requests -> Listings]
      <4>1. DOMAIN listing' = Requests /\ \A q \in Requests \ {r} : listing'[q] = listing[q]
        BY <1>0, <3>3
      <4>2. listing'[r] = [listing[r] EXCEPT !.total = Cardinality(LiveUsers), !.from = Len(stored)]
        BY <1>0, <3>3
      <4> QED
        BY <1>0, <3>2, <3>3, <4>1, <4>2
    <3> QED
      BY <1>0, <2>7, <3>4 DEF Count, Stages
  <2>8. CASE Page(r)
    <3>1. Len(stored) \in Nat
      BY <1>0
    <3>2. PICK us \in SUBSET LiveUsers :
             listing' = [listing EXCEPT ![r].page = us, ![r].to = Len(stored)]
      BY <2>8 DEF Page
    <3>3. [listing[r] EXCEPT !.page = us, !.to = Len(stored)] \in Listings
      BY <1>0, <3>1, PagedListing DEF LiveUsers
    <3>4. listing'[r] = [listing[r] EXCEPT !.page = us, !.to = Len(stored)]
      BY <1>0, <3>2
    <3>5. listing' \in [Requests -> Listings]
      <4>1. DOMAIN listing' = Requests /\ \A q \in Requests \ {r} : listing'[q] = listing[q]
        BY <1>0, <3>2
      <4> QED
        BY <1>0, <3>2, <3>3, <3>4, <4>1
    <3> QED
      BY <1>0, <2>8, <3>5 DEF Page, Stages, Definite
  <2>9. CASE DbFail(r) \/ LoseCommit(r)
    BY <1>0, <2>9 DEF DbFail, LoseCommit, Stages, Cut
  <2> QED
    BY <1>2, <2>1, <2>2, <2>3, <2>4, <2>5, <2>6, <2>7, <2>8, <2>9 DEF Act, Statement
<1>3. ASSUME NEW f \in P!Formats, NEW r \in Requests, Arrive(f, r)
      PROVE  RequestTypesOK'
  BY <1>0, <1>3 DEF Arrive
<1> QED
  BY <1>2, <1>3 DEF Next, Act

\* Where a request is says what it is about.
LEMMA CallsFit ==
    ASSUME Basics, Next, NEW q \in Requests
    PROVE  CallFits(q)'
<1> USE DEF requestVars, tableVars, Goto, CallFits, Writes
<1>0. RequestTypesOK /\ CallFits(q)
  BY DEF Basics, TypeOK, RequestTypesOK, Stages, Snapshots, Listings, Control
<1> USE DEF RequestTypesOK
<1>2. ASSUME NEW r \in Requests, Act(r)
      PROVE  CallFits(q)'
  <2>0. CallFits(r)
    BY DEF Basics, Control
  <2>1. CASE Store(r) \/ DeleteNothing(r) \/ Refuse(r) \/ Fallback(r)
    BY <1>0, <2>0, <2>1 DEF Store, DeleteNothing, Refuse, Fallback, Goes
  <2>2. CASE PublishWrite(r) \/ Respond(r) \/ CutPublish(r) \/ Settle(r)
    BY <1>0, <2>0, <2>2 DEF PublishWrite, Respond, CutPublish, Settle
  <2>3. CASE \E c \in Calls : CreateUser(r, c)
    BY <1>0, <2>0, <2>3 DEF CreateUser, Receive
  <2>4. CASE \E c \in Calls : GetUser(r, c) \/ ListUsers(r, c) \/ UpdateUser(r, c) \/ DeleteUser(r, c)
    BY <1>0, <2>0, <2>4 DEF GetUser, ListUsers, UpdateUser, DeleteUser, Receive
  <2>5. CASE Find(r) \/ NotFound(r)
    BY <1>0, <2>0, <2>5 DEF Find, NotFound
  <2>6. CASE Count(r) \/ Page(r)
    BY <1>0, <2>0, <2>6 DEF Count, Page
  <2>7. CASE DbFail(r) \/ LoseCommit(r)
    BY <1>0, <2>0, <2>7 DEF DbFail, LoseCommit, Goes
  <2> QED
    BY <1>2, <2>1, <2>2, <2>3, <2>4, <2>5, <2>6, <2>7 DEF Act, Statement
<1>3. ASSUME NEW f \in P!Formats, NEW r \in Requests, Arrive(f, r)
      PROVE  CallFits(q)'
  BY <1>0, <1>3 DEF Arrive
<1> QED
  BY <1>2, <1>3 DEF Next, Act

LEMMA UsersFit ==
    ASSUME Basics, Next, NEW q \in Requests
    PROVE  UserFits(q)'
<1> USE DEF requestVars, tableVars, Goto, UserFits, Id
<1>0. RequestTypesOK /\ UserFits(q) /\ CallFits(q)
  BY DEF Basics, TypeOK, RequestTypesOK, Stages, Snapshots, Listings, Control
<1> USE DEF RequestTypesOK
<1>2. ASSUME NEW r \in Requests, Act(r)
      PROVE  UserFits(q)'
  <2>0. CallFits(r) /\ UserFits(r)
    BY DEF Basics, Control
  <2>1. CASE Store(r) \/ DeleteNothing(r) \/ Refuse(r) \/ Fallback(r)
    BY <1>0, <2>0, <2>1 DEF Store, DeleteNothing, Refuse, Fallback, Goes
  <2>2. CASE PublishWrite(r) \/ Respond(r) \/ CutPublish(r) \/ Settle(r)
    BY <1>0, <2>0, <2>2 DEF PublishWrite, Respond, CutPublish, Settle
  <2>3. CASE \E c \in Calls : CreateUser(r, c)
    BY <1>0, <2>0, <2>3 DEF CreateUser, Receive, CallFits
  <2>4. CASE \E c \in Calls : GetUser(r, c) \/ ListUsers(r, c) \/ UpdateUser(r, c) \/ DeleteUser(r, c)
    BY <1>0, <2>0, <2>4 DEF GetUser, ListUsers, UpdateUser, DeleteUser, Receive, CallFits, NoSnapshot
  <2>5. CASE Find(r)
    <3>1. Patched(r).id \in UserIds /\ Patched(r).id = call[r].user
      BY <2>0, <2>5, <1>0, PatchedType DEF Find, CallFits, Basics, TypeOK
    <3> QED
      BY <1>0, <2>0, <2>5, <3>1 DEF Find
  <2>6. CASE NotFound(r)
    BY <1>0, <2>0, <2>6 DEF NotFound
  <2>7. CASE Count(r) \/ Page(r)
    BY <1>0, <2>0, <2>7 DEF Count, Page, CallFits
  <2>8. CASE DbFail(r) \/ LoseCommit(r)
    BY <1>0, <2>0, <2>8 DEF DbFail, LoseCommit, Goes
  <2> QED
    BY <1>2, <2>1, <2>2, <2>3, <2>4, <2>5, <2>6, <2>7, <2>8 DEF Act, Statement
<1>3. ASSUME NEW f \in P!Formats, NEW r \in Requests, Arrive(f, r)
      PROVE  UserFits(q)'
  BY <1>0, <1>3 DEF Arrive
<1> QED
  BY <1>2, <1>3 DEF Next, Act

LEMMA PublicationsFit ==
    ASSUME Basics, Next, NEW q \in Requests
    PROVE  PublicationFits(q)'
<1> USE DEF requestVars, tableVars, producerVars, Goto, PublicationFits, P!Formats
<1>0. /\ RequestTypesOK /\ P!TypeOK
      /\ UserFits(q) /\ CallFits(q) /\ PublicationFits(q)
  BY DEF Basics, TypeOK, RequestTypesOK, Stages, Snapshots, Listings, Control
<1>1. /\ stage \in [Requests -> Stages] /\ user \in [Requests -> Snapshots]
      /\ call \in [Requests -> Calls \union {NoCall}]
      /\ writing \in [Requests -> P!Formats \union {"idle", "nil", "error"}]
      /\ userOf \in [Requests -> UserIds \union {NoUser}]
  BY <1>0 DEF RequestTypesOK, P!TypeOK
<1>2. Id(q) \in UserIds => user'[q] = user[q]
  BY Frozen
<1>3. stage[q] # "new" => call'[q] = call[q]
  BY Frozen
<1>4. ASSUME NEW r \in Requests, Act(r)
      PROVE  PublicationFits(q)'
  <2>0. CallFits(r) /\ UserFits(r) /\ PublicationFits(r)
    BY DEF Basics, Control
  <2>1. CASE Store(r) \/ DeleteNothing(r)
    BY <1>0, <1>1, <2>0, <2>1
    DEF Store, DeleteNothing, Goes, P!Publish, CallFits, UserFits, Id, Writes
  <2>2. CASE Refuse(r) \/ Fallback(r)
    BY <1>0, <1>1, <2>0, <2>2 DEF Refuse, Fallback, Goes, Id
  <2>3. CASE Respond(r) \/ Settle(r)
    BY <1>0, <1>1, <2>0, <2>3 DEF Respond, Settle, Id
  <2>4. CASE PublishWrite(r)
    BY <1>0, <1>1, <2>0, <2>4
    DEF PublishWrite, P!Write, P!WriteOk, P!WriteFail, P!After, Id
  <2>5. CASE CutPublish(r)
    BY <1>0, <1>1, <2>0, <2>5 DEF CutPublish, P!WriteFail, Id
  <2>6. CASE \E c \in Calls : CreateUser(r, c)
    BY <1>0, <1>1, <2>0, <2>6 DEF CreateUser, Receive, Id
  <2>7. CASE \E c \in Calls : GetUser(r, c) \/ ListUsers(r, c) \/ UpdateUser(r, c) \/ DeleteUser(r, c)
    BY <1>0, <1>1, <2>0, <2>7 DEF GetUser, ListUsers, UpdateUser, DeleteUser, Receive, Id
  <2>8. CASE Find(r) \/ NotFound(r)
    BY <1>0, <1>1, <2>0, <2>8 DEF Find, NotFound, Id
  <2>9. CASE Count(r) \/ Page(r)
    BY <1>0, <1>1, <2>0, <2>9 DEF Count, Page, Id
  <2>10. CASE DbFail(r) \/ LoseCommit(r)
    BY <1>0, <1>1, <2>0, <2>10 DEF DbFail, LoseCommit, Goes, Id
  <2> QED
    BY <1>4, <2>1, <2>2, <2>3, <2>4, <2>5, <2>6, <2>7, <2>8, <2>9, <2>10 DEF Act, Statement
<1>5. ASSUME NEW f \in P!Formats, NEW r \in Requests, Arrive(f, r)
      PROVE  PublicationFits(q)'
  BY <1>0, <1>5 DEF Arrive, P!Arrive, P!Land, P!Lose, Id
<1> QED
  BY <1>4, <1>5 DEF Next, Act

LEMMA HistoriesFit ==
    ASSUME Basics, Next, NEW q \in Requests
    PROVE  HistoryFits(q)'
<1>0. HistoryFits(q) /\ before \in [Requests -> SUBSET Requests]
  BY DEF Basics, Control, TypeOK
<1>1. before' \in [Requests -> SUBSET Requests]
  BY RequestTypes DEF RequestTypesOK
<1>2. \A p \in Requests : stage[p] \in Definite => stage'[p] \in Definite
  BY Frozen
<1>3. CASE stage[q] # "new"
  BY <1>0, <1>1, <1>2, <1>3, Frozen DEF HistoryFits
<1>4. CASE stage[q] = "new" /\ stage'[q] # "new"
  BY <1>1, <1>2, <1>4, Frozen DEF HistoryFits
<1>5. CASE stage[q] = "new" /\ stage'[q] = "new"
  <2>1. stage \in [Requests -> Stages]
    BY DEF Basics, TypeOK, Stages
  <2>2. before'[q] = before[q]
    BY <1>0, <1>5, <2>1, Frozen
  <2> QED
    BY <1>0, <1>2, <1>5, <2>2 DEF HistoryFits
<1> QED
  BY <1>3, <1>4, <1>5

\* Only a lost COMMIT puts a transaction in doubt.
LEMMA Doubts ==
    ASSUME Next
    PROVE  doubt' \subseteq doubt \/ \E r \in Requests : LoseCommit(r) /\ doubt' = doubt \union {r}
<1>1. ASSUME NEW r \in Requests, Act(r)
      PROVE  doubt' \subseteq doubt \/ (LoseCommit(r) /\ doubt' = doubt \union {r})
  <2>1. ASSUME Store(r) \/ DeleteNothing(r) \/ Refuse(r) \/ Fallback(r) \/ Settle(r)
        PROVE  doubt' \subseteq doubt
    BY <2>1 DEF Store, DeleteNothing, Refuse, Fallback, Settle, tableVars
  <2>2. ASSUME PublishWrite(r) \/ Respond(r) \/ CutPublish(r)
        PROVE  doubt' \subseteq doubt
    BY <2>2 DEF PublishWrite, Respond, CutPublish, tableVars
  <2>3. ASSUME \E c \in Calls : CreateUser(r, c) \/ GetUser(r, c) \/ ListUsers(r, c)
                      \/ UpdateUser(r, c) \/ DeleteUser(r, c)
        PROVE  doubt' \subseteq doubt
    BY <2>3 DEF CreateUser, GetUser, ListUsers, UpdateUser, DeleteUser, Receive, tableVars
  <2>4. ASSUME Find(r) \/ NotFound(r) \/ DbFail(r)
        PROVE  doubt' \subseteq doubt
    BY <2>4 DEF Find, NotFound, DbFail, tableVars
  <2>5. ASSUME Count(r) \/ Page(r)
        PROVE  doubt' \subseteq doubt
    BY <2>5 DEF Count, Page, tableVars
  <2>6. ASSUME LoseCommit(r)
        PROVE  LoseCommit(r) /\ doubt' = doubt \union {r}
    BY <2>6 DEF LoseCommit
  <2> QED
    BY <1>1, <2>1, <2>2, <2>3, <2>4, <2>5, <2>6 DEF Act, Statement
<1>2. ASSUME NEW f \in P!Formats, NEW r \in Requests, Arrive(f, r)
      PROVE  doubt' = doubt
  BY <1>2 DEF Arrive, tableVars
<1> QED
  BY <1>1, <1>2 DEF Next, Act

\* A statement waits for the transactions in doubt that touch its row.
LEMMA CommitsApart ==
    ASSUME Basics, NEW r \in Requests, NEW q \in doubt, q # r, Goes(r) \/ r \in doubt
    PROVE  Id(q) # Id(r)
<1>1. CASE Goes(r)
  BY <1>1 DEF Goes, Waits
<1>2. CASE r \in doubt
  BY <1>2 DEF Basics, DoubtFits
<1> QED
  BY <1>1, <1>2

LEMMA DoubtsFit ==
    ASSUME Basics, Next
    PROVE  DoubtFits'
<1>0. /\ doubt \in SUBSET Requests /\ row \in [UserIds -> Rows] /\ DoubtFits
      /\ \A r \in Requests : CallFits(r) /\ UserFits(r)
  BY DEF Basics, Control, TypeOK
<1>1. doubt' \subseteq doubt
      \/ \E r \in Requests : LoseCommit(r) /\ doubt' = doubt \union {r}
  BY Doubts
<1>2. ASSUME NEW q \in doubt
      PROVE  /\ user'[q] = user[q] /\ call'[q] = call[q]
             /\ call[q].op = "delete" /\ q \in doubt' => Live(Id(q))'
  <2>1. q \in Requests /\ stage[q] = "error" /\ Id(q) \in UserIds
    BY <1>0, <1>2 DEF CallFits, UserFits
  <2>2. user'[q] = user[q] /\ call'[q] = call[q]
    BY <2>1, Frozen
  <2>3. CASE UNCHANGED <<row, stored>>
    BY <1>0, <2>1, <2>2, <2>3 DEF DoubtFits, Live, Id
  <2>4. ASSUME NEW r \in Requests, Pending(r), r \in doubt \/ Goes(r),
               row' = [row EXCEPT ![Id(r)] = Written(r)], r \notin doubt', q \in doubt',
               call[q].op = "delete"
        PROVE  Live(Id(q))'
    BY <1>0, <2>1, <2>2, <2>4, CommitsApart DEF DoubtFits, Live, Id
  <2> QED
    BY <1>0, <2>1, <2>2, <2>3, <2>4, TableSteps DEF RowStep
<1>3. CASE doubt' \subseteq doubt
  BY <1>0, <1>2, <1>3 DEF DoubtFits, Id
<1>4. ASSUME NEW r \in Requests, LoseCommit(r), doubt' = doubt \union {r}
      PROVE  DoubtFits'
  <2>1. Goes(r) /\ Hits(r) /\ row' = row /\ user' = user /\ call' = call
    BY <1>4 DEF LoseCommit, tableVars, requestVars
  <2>2. call[r].op = "delete" => Live(Id(r))
    BY <1>0, <2>1 DEF Hits, Goes, CallFits
  <2>3. \A q \in doubt \ {r} : Id(q) # Id(r)
    BY <2>1, CommitsApart, <1>0
  <2> QED
    BY <1>0, <1>4, <2>1, <2>2, <2>3 DEF DoubtFits, Live, Id
<1> QED
  BY <1>1, <1>3, <1>4

LEMMA BasicsInit ==
    ASSUME Init
    PROVE  Basics
<1> USE DEF Init, P!Init, P!Formats
<1>1. /\ row \in [UserIds -> Rows] /\ stored \in Seq(Requests) /\ P!TypeOK /\ doubt = {}
      /\ RequestTypesOK
  <2>1. P!TypeOK
    BY DEF P!TypeOK
  <2>2. /\ listing \in [Requests -> Listings] /\ user \in [Requests -> Snapshots]
    BY DEF NoListing, Listings, Snapshots
  <2> QED
    BY <2>1, <2>2 DEF RequestTypesOK, Stages
<1>2. ASSUME NEW r \in Requests
      PROVE  CallFits(r) /\ UserFits(r) /\ PublicationFits(r) /\ HistoryFits(r)
  BY <1>1 DEF CallFits, UserFits, PublicationFits, HistoryFits, Id, NoSnapshot
<1>3. TypeOK
  BY <1>1 DEF TypeOK, RequestTypesOK, Stages, Snapshots, Listings
<1> QED
  BY <1>1, <1>2, <1>3 DEF Basics, Control, DoubtFits

LEMMA BasicsStep ==
    ASSUME Basics, [Next]_vars
    PROVE  Basics'
<1>1. CASE Next
  <2>1. Control'
    BY <1>1, CallsFit, UsersFit, PublicationsFit, HistoriesFit DEF Control
  <2>2. TypeOK'
    <3>1. \A r \in Requests : UserFits(r)'
      BY <2>1 DEF Control
    <3> QED
      BY <1>1, <3>1, RowTypes, ProducerTypes, RequestTypes
      DEF TypeOK, RequestTypesOK, Stages, Snapshots, Listings, UserFits, Id
  <2> QED
    BY <1>1, <2>1, <2>2, DoubtsFit DEF Basics
<1>2. CASE UNCHANGED vars
  BY <1>2 DEF vars, tableVars, requestVars, producerVars, Basics, TypeOK, P!TypeOK, Control,
     CallFits, UserFits, PublicationFits, HistoryFits, DoubtFits, Live, Id
<1> QED
  BY <1>1, <1>2

LEMMA BasicsAlways ==
    Spec => []Basics
  BY BasicsInit, BasicsStep, PTL DEF Spec

(* Every variable of the table, the requests and the publications keeps its *)
(* type: what Create, Update and Delete write are rows, a request that is   *)
(* about to write or publish has a user, and exactly the events that have   *)
(* been published have a key.                                               *)
THEOREM TypeCorrect ==
    Spec => []TypeOK
<1>1. Basics => TypeOK
  BY DEF Basics
<1> QED
  BY <1>1, BasicsAlways, PTL

------------------------------------------------------------------------------
(* The unique index.                                                        *)

LEMMA EmailsStep ==
    ASSUME Basics, EmailsInv, Next
    PROVE  EmailsInv'
<1>0. /\ doubt \in SUBSET Requests /\ row \in [UserIds -> Rows]
      /\ \A r \in Requests : CallFits(r) /\ UserFits(r)
  BY DEF Basics, Control, TypeOK
<1>1. ASSUME NEW q \in doubt
      PROVE  /\ q \in Requests /\ Id(q) \in UserIds
             /\ Id(q)' = Id(q) /\ call'[q] = call[q] /\ user'[q] = user[q]
  BY <1>0, <1>1, Frozen DEF CallFits, UserFits, Id
<1>2. CASE UNCHANGED row /\ doubt' \subseteq doubt
  BY <1>0, <1>1, <1>2 DEF EmailsInv, Distinct, DoubtApart, Clash, Written, Live, Id
<1>3. ASSUME NEW r \in Requests, LoseCommit(r), doubt' = doubt \union {r}
      PROVE  EmailsInv'
  <2>1. /\ Goes(r) /\ Hits(r) /\ ~Clash(r)
        /\ row' = row /\ user' = user /\ call' = call
    BY <1>3 DEF LoseCommit, tableVars, requestVars
  <2>2. \A q \in doubt \ {r} :
           Written(r).state = "live" => Written(r).email # Written(q).email
    BY <2>1 DEF Goes, Waits
  <2> QED
    BY <1>0, <1>3, <2>1, <2>2 DEF EmailsInv, Distinct, DoubtApart, Clash, Written, Live, Id
<1>4. ASSUME NEW r \in Requests, Pending(r), r \in doubt \/ (Goes(r) /\ Hits(r) /\ ~Clash(r)),
             row' = [row EXCEPT ![Id(r)] = Written(r)], r \notin doubt', doubt' \subseteq doubt
      PROVE  EmailsInv'
  <2>1. ~Clash(r) /\ Id(r) \in UserIds /\ Written(r) \in Rows
    BY <1>4, WrittenType DEF EmailsInv, DoubtApart
  <2>2. Distinct(row)'
    BY <1>0, <1>4, <2>1 DEF EmailsInv, Distinct, Clash, Live
  <2>3. ASSUME NEW q \in doubt'
        PROVE  q \in doubt /\ Id(q) # Id(r) /\ Written(q)' = Written(q)
    BY <1>0, <1>1, <1>4, <2>3, CommitsApart DEF Written
  <2>4. ASSUME NEW q \in doubt', Written(q).state = "live", Written(r).state = "live"
        PROVE  Written(q).email # Written(r).email
    <3>1. q \in doubt /\ q # r
      BY <1>4, <2>3, <2>4
    <3> QED
      BY <1>4, <2>4, <3>1 DEF Goes, Waits, EmailsInv, DoubtApart
  <2>5. ASSUME NEW q \in doubt'
        PROVE  ~Clash(q)'
    BY <1>0, <1>1, <1>4, <2>1, <2>3, <2>4, <2>5 DEF EmailsInv, DoubtApart, Clash, Live
  <2> QED
    BY <1>4, <2>2, <2>3, <2>5 DEF EmailsInv, DoubtApart
<1> QED
  BY <1>2, <1>3, <1>4, TableSteps, Doubts DEF RowStep

(* No two live users share an email, for any number of requests at work and *)
(* transactions in doubt: a statement whose COMMIT failed may still commit, *)
(* later and in any order, and will then clash with no row that has come    *)
(* alive in the meantime.                                                   *)
THEOREM LiveEmailsUnique ==
    Spec => []EmailsUnique
<1>1. Init => EmailsInv
  BY DEF Init, EmailsInv, DoubtApart, Distinct
<1>2. EmailsInv /\ Basics /\ [Next]_vars => EmailsInv'
  <2>1. ASSUME EmailsInv, UNCHANGED vars
        PROVE  EmailsInv'
    BY <2>1 DEF vars, tableVars, requestVars, EmailsInv, Distinct, DoubtApart, Clash, Written,
       Live, Id
  <2> QED
    BY <2>1, EmailsStep
<1>3. EmailsInv => EmailsUnique
  BY DEF EmailsInv, EmailsUnique
<1> QED
  BY <1>1, <1>2, <1>3, BasicsAlways, PTL DEF Spec

------------------------------------------------------------------------------
(* Events and what they tell of.                                            *)

LEMMA StoredStays ==
    ASSUME Basics, Next, NEW q \in Requests, Stored(q)
    PROVE  Stored(q)'
<1>1. stored \in Seq(Requests)
  BY DEF Basics, TypeOK
<1> QED
  BY <1>1, TableSteps DEF RowStep, Stored, ToSet

\* A user comes to a request when Create makes a new one or GetByID finds a live one.
LEMMA NewlyFound ==
    ASSUME Basics, Next, NEW r \in Requests, Id(r) \notin UserIds, Id(r)' \in UserIds
    PROVE  /\ \A q \in Requests \ {r} : user'[q] = user[q]
           /\ \/ Find(r) /\ Id(r)' = call[r].user /\ Live(Id(r)')
              \/ /\ call'[r].op = "create" /\ row[Id(r)'] = NoRow
                 /\ \A q \in Requests : Id(q) # Id(r)'
<1> DEFINE Goal ==
        /\ \A q \in Requests \ {r} : user'[q] = user[q]
        /\ \/ Find(r) /\ user'[r].id = call[r].user /\ row[user'[r].id].state = "live"
           \/ /\ call'[r].op = "create" /\ row[user'[r].id] = NoRow
              /\ \A q \in Requests : Id(q) # user'[r].id
<1> USE DEF requestVars, Id
<1>0. RequestTypesOK /\ \A q \in Requests : CallFits(q)
  BY DEF Basics, TypeOK, RequestTypesOK, Stages, Snapshots, Listings, Control
<1> USE DEF RequestTypesOK
<1>1. ASSUME NEW q \in Requests, Act(q)
      PROVE  Goal
  <2>1. CASE user' = user
    BY <2>1
  <2>2. CASE \E c \in Calls : CreateUser(q, c)
    <3>1. PICK c \in Calls : CreateUser(q, c)
      BY <2>2
    <3>2. q = r /\ \A p \in Requests \ {r} : user'[p] = user[p]
      BY <1>0, <3>1 DEF CreateUser
    <3>3. call'[r].op = "create"
      BY <1>0, <3>1, <3>2 DEF CreateUser, Receive
    <3>4. row[user'[r].id] = NoRow /\ \A p \in Requests : Id(p) # user'[r].id
      BY <1>0, <3>1, <3>2 DEF CreateUser
    <3> QED
      BY <3>2, <3>3, <3>4
  <2>3. CASE Find(q)
    <3>1. q = r /\ user'[r] = Patched(r) /\ \A p \in Requests \ {r} : user'[p] = user[p]
      BY <1>0, <2>3 DEF Find
    <3>2. Patched(r).id = call[r].user
      BY DEF Patched
    <3>3. Live(call[r].user)
      BY <2>3, <3>1 DEF Find
    <3> QED
      BY <2>3, <3>1, <3>2, <3>3 DEF Live
  <2>4. CASE \E c \in Calls : GetUser(q, c) \/ ListUsers(q, c) \/ UpdateUser(q, c) \/ DeleteUser(q, c)
    BY <2>1, <2>4 DEF GetUser, ListUsers, UpdateUser, DeleteUser
  <2>5. CASE NotFound(q) \/ Count(q) \/ Page(q) \/ DbFail(q) \/ LoseCommit(q) \/ Settle(q)
    BY <2>1, <2>5 DEF NotFound, Count, Page, DbFail, LoseCommit, Settle
  <2>6. CASE Statement(q)
    BY <2>1, <2>6 DEF Statement, Store, Refuse, Fallback, DeleteNothing
  <2>7. CASE PublishWrite(q) \/ Respond(q) \/ CutPublish(q)
    BY <2>1, <2>7 DEF PublishWrite, Respond, CutPublish
  <2> QED
    BY <1>1, <2>2, <2>3, <2>4, <2>5, <2>6, <2>7 DEF Act
<1>2. ASSUME NEW f \in P!Formats, NEW q \in Requests, Arrive(f, q)
      PROVE  Goal
  BY <1>2 DEF Arrive
<1>3. Goal
  BY <1>1, <1>2 DEF Next, Act
<1> QED
  BY <1>3 DEF Live

LEMMA DeletesStays ==
    ASSUME Basics, Next, NEW q \in Requests, NEW u \in UserIds, Deletes(q, u)
    PROVE  Deletes(q, u)'
<1>1. CallFits(q)
  BY DEF Basics, Control
<1>2. stage[q] # "new"
  BY <1>1 DEF CallFits, NoCall, Deletes
<1> QED
  BY <1>2, Frozen DEF Deletes

\* A deletion that has committed stays committed.
LEMMA DeletionStays ==
    ASSUME Basics, Next, NEW u \in UserIds, \E q \in Requests : Deletes(q, u) /\ Stored(q)
    PROVE  \E q \in Requests : Deletes(q, u)' /\ Stored(q)'
  BY DeletesStays, StoredStays

\* The row of a user that a request works on is only taken away by a deletion.
LEMMA GoneByDeleteStep ==
    ASSUME Basics, GoneByDelete, Next
    PROVE  GoneByDelete'
<1> DEFINE Deleted(u) == \E q \in Requests : Deletes(q, u)' /\ Stored(q)'
<1> SUFFICES ASSUME NEW r \in Requests, NEW u \in UserIds, u = Id(r)', call'[r].op # "create"
             PROVE  row'[u].state = "live" \/ Deleted(u)
  BY DEF GoneByDelete, Deletes, Live
<1>0. /\ row \in [UserIds -> Rows] /\ stored \in Seq(Requests)
      /\ \A p \in Requests : CallFits(p) /\ UserFits(p)
  BY DEF Basics, Control, TypeOK
<1>1. Live(u) \/ \E q \in Requests : Deletes(q, u) /\ Stored(q)
  <2>1. CASE Id(r) \in UserIds
    <3>1. stage[r] # "new"
      BY <1>0, <2>1 DEF CallFits, Id, NoSnapshot
    <3> QED
      BY <2>1, <3>1, Frozen DEF GoneByDelete, Id
  <2>2. CASE Id(r) \notin UserIds
    BY <2>2, NewlyFound
  <2> QED
    BY <2>1, <2>2
<1>2. CASE UNCHANGED <<row, stored>>
  BY <1>1, <1>2, DeletionStays DEF Live
<1>3. ASSUME NEW p \in Requests, Pending(p), p \in doubt \/ (Goes(p) /\ Hits(p) /\ ~Clash(p)),
             row' = [row EXCEPT ![Id(p)] = Written(p)], stored' = Append(stored, p)
      PROVE  row'[u].state = "live" \/ Deleted(u)
  <2>1. CASE Id(p) # u
    BY <1>0, <1>1, <1>3, <2>1, DeletionStays DEF Live
  <2>2. CASE Id(p) = u
    <3>1. CASE call[p].op = "delete"
      <4>1. Deletes(p, u)
        BY <1>0, <2>2, <3>1 DEF UserFits, Deletes
      <4>2. Stored(p)'
        BY <1>0, <1>3 DEF Stored, ToSet
      <4> QED
        BY <4>1, <4>2, DeletesStays
    <3>2. CASE call[p].op # "delete"
      BY <1>0, <1>3, <2>2, <3>2, WrittenType
    <3> QED
      BY <3>1, <3>2
  <2> QED
    BY <2>1, <2>2
<1> QED
  BY <1>2, <1>3, TableSteps DEF RowStep, Live, Deletes

\* An event is published by a write that has committed, or by a delete that has found no row.
LEMMA NewlyPublished ==
    ASSUME Basics, Next, NEW r \in Requests, writing[r] = "idle", writing'[r] # "idle"
    PROVE  Store(r) \/ DeleteNothing(r)
<1> USE DEF producerVars
<1>0. P!TypeOK
  BY DEF Basics, TypeOK
<1>1. ASSUME NEW q \in Requests, Act(q)
      PROVE  Store(r) \/ DeleteNothing(r)
  <2>1. CASE writing' = writing
    BY <2>1
  <2>2. CASE Store(q) \/ DeleteNothing(q)
    <3>1. P!Publish(q, Id(q))
      BY <2>2 DEF Store, DeleteNothing
    <3>2. q = r
      BY <1>0, <3>1 DEF P!Publish, P!TypeOK
    <3> QED
      BY <2>2, <3>2
  <2>3. CASE PublishWrite(q) \/ CutPublish(q)
    <3>1. writing' = writing \/ P!WriteOk(q) \/ P!WriteFail(q)
      BY <2>3 DEF PublishWrite, CutPublish, P!Write
    <3> QED
      BY <1>0, <3>1 DEF P!WriteOk, P!WriteFail, P!TypeOK, P!Formats
  <2>4. CASE \E c \in Calls : CreateUser(q, c) \/ GetUser(q, c) \/ ListUsers(q, c)
                             \/ UpdateUser(q, c) \/ DeleteUser(q, c)
    BY <2>1, <2>4 DEF CreateUser, GetUser, ListUsers, UpdateUser, DeleteUser, Receive
  <2>5. CASE Find(q) \/ NotFound(q) \/ DbFail(q) \/ LoseCommit(q) \/ Settle(q) \/ Respond(q)
    BY <2>1, <2>5 DEF Find, NotFound, DbFail, LoseCommit, Settle, Respond
  <2>6. CASE Count(q) \/ Page(q) \/ Refuse(q) \/ Fallback(q)
    BY <2>1, <2>6 DEF Count, Page, Refuse, Fallback
  <2> QED
    BY <1>1, <2>2, <2>3, <2>4, <2>5, <2>6 DEF Act, Statement
<1>2. ASSUME NEW f \in P!Formats, NEW q \in Requests, Arrive(f, q)
      PROVE  writing' = writing
  BY <1>2 DEF Arrive, P!Arrive, P!Land, P!Lose
<1> QED
  BY <1>1, <1>2 DEF Next, Act

LEMMA EarnedStep ==
    ASSUME Basics, EarnedInv, Next
    PROVE  EarnedInv'
<1>0. \A r \in Requests : CallFits(r) /\ UserFits(r) /\ PublicationFits(r)
  BY DEF Basics, Control
<1>1. ASSUME NEW r \in Requests, writing[r] # "idle"
      PROVE  Earned(r)'
  <2>1. Id(r) \in UserIds /\ Id(r)' = Id(r)
    BY <1>0, <1>1, Frozen DEF PublicationFits, Id
  <2>2. Earned(r)
    BY <1>1 DEF EarnedInv
  <2>3. CASE Stored(r)
    BY <2>3, StoredStays DEF Earned
  <2>4. CASE \E q \in Requests : Deletes(r, Id(r)) /\ Deletes(q, Id(r)) /\ Stored(q)
    BY <2>1, <2>4, DeletesStays, StoredStays DEF Earned, Deletes
  <2> QED
    BY <2>2, <2>3, <2>4 DEF Earned
<1>2. ASSUME NEW r \in Requests, writing[r] = "idle", writing'[r] # "idle"
      PROVE  Earned(r)'
  <2>1. CASE Store(r)
    <3>1. stored' = Append(stored, r) /\ stored \in Seq(Requests)
      BY <2>1 DEF Store, Basics, TypeOK
    <3> QED
      BY <3>1 DEF Earned, Stored, ToSet
  <2>2. CASE DeleteNothing(r)
    <3>1. /\ ~Live(Id(r)) /\ call[r].op = "delete" /\ Id(r) \in UserIds
          /\ Id(r)' = Id(r) /\ call'[r] = call[r] /\ stored' = stored
      BY <1>0, <2>2
      DEF DeleteNothing, Goes, Hits, UserFits, tableVars, Id
    <3>2. Deletes(r, Id(r))
      BY <1>0, <3>1 DEF UserFits, Deletes
    <3>3. PICK q \in Requests : Deletes(q, Id(r)) /\ Stored(q)
      BY <3>1 DEF EarnedInv, GoneByDelete
    <3>4. Deletes(r, Id(r))' /\ Deletes(q, Id(r))' /\ Stored(q)'
      BY <3>1, <3>2, <3>3, DeletesStays, StoredStays DEF Deletes
    <3> QED
      BY <3>4 DEF Earned
  <2> QED
    BY <1>2, <2>1, <2>2, NewlyPublished
<1> QED
  BY <1>1, <1>2, GoneByDeleteStep DEF EarnedInv

------------------------------------------------------------------------------
(* What is in the topics, and what has been acknowledged.                   *)

\* A publication, once made, keeps its key.
LEMMA KeyStays ==
    ASSUME Basics, Next, NEW e \in Requests, writing[e] # "idle"
    PROVE  writing'[e] # "idle" /\ userOf'[e] = userOf[e] /\ userOf[e] \in UserIds
<1>0. P!TypeOK /\ PublicationFits(e) /\ PublicationFits(e)'
  BY PublicationsFit DEF Basics, TypeOK, Control
<1>1. userOf[e] = Id(e) /\ Id(e) \in UserIds /\ Id(e)' = Id(e)
  BY <1>0, Frozen DEF PublicationFits, Id
<1>2. writing'[e] # "idle"
  <2>1. CASE UNCHANGED producerVars
    BY <2>1 DEF producerVars
  <2>2. ASSUME NEW r \in Requests, P!Publish(r, Id(r))
        PROVE  writing'[e] # "idle"
    BY <1>0, <2>2 DEF P!Publish, P!TypeOK
  <2>3. ASSUME NEW r \in Requests, P!WriteOk(r) \/ P!WriteFail(r)
        PROVE  writing'[e] # "idle"
    BY <1>0, <2>3 DEF P!WriteOk, P!WriteFail, P!After, P!TypeOK
  <2>4. ASSUME NEW r \in Requests, NEW f \in P!Formats, P!Arrive(f, r)
        PROVE  writing'[e] # "idle"
    BY <2>4 DEF P!Arrive, P!Land, P!Lose
  <2> QED
    BY <2>1, <2>2, <2>3, <2>4, PublicationSteps DEF ProducerStep, P!Write
<1> QED
  BY <1>0, <1>1, <1>2 DEF PublicationFits, Id

\* The log of a user only grows, by events that are being written or may still arrive.
LEMMA TopicGrows ==
    ASSUME Basics, Next, NEW f \in P!Formats, NEW u \in UserIds
    PROVE  /\ topic[f][u] \in Seq(Requests) /\ topic'[f][u] \in Seq(Requests)
           /\ Len(topic[f][u]) <= Len(topic'[f][u])
           /\ \A i \in 1 .. Len(topic[f][u]) : topic'[f][u][i] = topic[f][u][i]
           /\ \A i \in 1 .. Len(topic'[f][u]) : i > Len(topic[f][u]) =>
                 LET e == topic'[f][u][i] IN
                 /\ e \in Requests /\ userOf[e] = u
                 /\ writing[e] = f \/ <<f, e>> \in flying
<1>0. topic \in [P!Formats -> [UserIds -> Seq(Requests)]]
  BY DEF Basics, TypeOK, P!TypeOK
<1>1. topic'[f][u] \in Seq(Requests)
  BY ProducerTypes DEF P!TypeOK
<1>2. CASE topic'[f][u] = topic[f][u]
  BY <1>0, <1>2
<1>3. ASSUME NEW e \in Requests, NEW s \in Seq(Requests), \A i \in DOMAIN s : s[i] = e,
             userOf[e] = u, writing[e] = f \/ <<f, e>> \in flying,
             topic'[f][u] = topic[f][u] \o s
      PROVE  /\ Len(topic[f][u]) <= Len(topic'[f][u])
             /\ \A i \in 1 .. Len(topic[f][u]) : topic'[f][u][i] = topic[f][u][i]
             /\ \A i \in 1 .. Len(topic'[f][u]) :
                   i > Len(topic[f][u]) => topic'[f][u][i] = e
  BY <1>0, <1>3
<1>4. ASSUME NEW g \in P!Formats, NEW e \in Requests, NEW s \in Seq(Requests),
             userOf[e] \in UserIds, topic' = [topic EXCEPT ![g][userOf[e]] = @ \o s]
      PROVE  \/ topic'[f][u] = topic[f][u]
             \/ g = f /\ userOf[e] = u /\ topic'[f][u] = topic[f][u] \o s
  BY <1>0, <1>4
<1>5. topic'[f][u] = topic[f][u]
      \/ \E e \in Requests, s \in Seq(Requests) :
            /\ \A i \in DOMAIN s : s[i] = e
            /\ userOf[e] = u
            /\ writing[e] = f \/ <<f, e>> \in flying
            /\ topic'[f][u] = topic[f][u] \o s
  <2>1. CASE UNCHANGED topic
    BY <2>1
  <2>2. ASSUME NEW g \in P!Formats, NEW e \in Requests, NEW s \in Seq(Requests),
               \A i \in DOMAIN s : s[i] = e, userOf[e] \in UserIds,
               writing[e] = g \/ <<g, e>> \in flying,
               topic' = [topic EXCEPT ![g][userOf[e]] = @ \o s]
        PROVE  <1>5!1 \/ <1>5!2
    <3>1. \/ topic'[f][u] = topic[f][u]
          \/ g = f /\ userOf[e] = u /\ topic'[f][u] = topic[f][u] \o s
      BY <1>4, <2>2
    <3> QED
      BY <2>2, <3>1
  <2> QED
    BY <2>1, <2>2, TopicSteps DEF TopicStep
<1>6. CASE topic'[f][u] # topic[f][u]
  <2>1. PICK e \in Requests, s \in Seq(Requests) :
            /\ \A i \in DOMAIN s : s[i] = e
            /\ userOf[e] = u
            /\ writing[e] = f \/ <<f, e>> \in flying
            /\ topic'[f][u] = topic[f][u] \o s
    BY <1>5, <1>6
  <2> QED
    BY <1>0, <1>1, <1>3, <2>1
<1> QED
  BY <1>0, <1>1, <1>2, <1>6

LEMMA InTopicStays ==
    ASSUME Basics, Next, NEW f \in P!Formats, NEW u \in UserIds, NEW e \in Requests,
           e \in ToSet(topic[f][u])
    PROVE  e \in ToSet(topic'[f][u])
<1>1. topic[f][u] \in Seq(Requests) /\ topic'[f][u] \in Seq(Requests)
  BY TopicGrows
<1>2. PICK i \in 1 .. Len(topic[f][u]) : topic[f][u][i] = e
  BY <1>1 DEF ToSet
<1>3. i \in 1 .. Len(topic'[f][u]) /\ topic'[f][u][i] = e
  BY <1>1, <1>2, TopicGrows
<1> QED
  BY <1>1, <1>3 DEF ToSet

LEMMA TopicFitsStep ==
    ASSUME Basics, TopicFits, Next
    PROVE  TopicFits'
<1> SUFFICES ASSUME NEW f \in P!Formats, NEW u \in UserIds, NEW i \in 1 .. Len(topic'[f][u])
             PROVE  writing'[topic'[f][u][i]] # "idle" /\ userOf'[topic'[f][u][i]] = u
  BY TopicGrows DEF TopicFits, ToSet
<1> DEFINE e == topic'[f][u][i]
<1>1. e \in Requests /\ i \in Nat /\ Len(topic[f][u]) \in Nat
  BY TopicGrows
<1>2. writing[e] # "idle" /\ userOf[e] = u
  <2>1. CASE i <= Len(topic[f][u])
    <3>1. i \in 1 .. Len(topic[f][u]) /\ e = topic[f][u][i]
      BY <1>1, <2>1, TopicGrows
    <3>2. e \in ToSet(topic[f][u])
      BY <3>1, TopicGrows DEF ToSet
    <3> QED
      BY <3>2 DEF TopicFits
  <2>2. CASE i > Len(topic[f][u])
    <3>1. PublicationFits(e)
      BY <1>1 DEF Basics, Control
    <3> QED
      BY <2>2, <3>1, TopicGrows DEF PublicationFits, P!Formats
  <2> QED
    BY <1>1, <2>1, <2>2
<1> QED
  BY <1>1, <1>2, KeyStays

\* A write is acknowledged once it is in the topic.
LEMMA NewlyAcked ==
    ASSUME Basics, Next, NEW f \in P!Formats, NEW e \in Requests,
           <<f, e>> \notin acked, <<f, e>> \in acked'
    PROVE  P!WriteOk(e) /\ writing[e] = f
<1>1. CASE UNCHANGED acked
  BY <1>1
<1>2. ASSUME NEW r \in Requests, P!WriteOk(r)
      PROVE  r = e /\ writing[e] = f
  BY <1>2 DEF P!WriteOk
<1>3. UNCHANGED acked \/ \E r \in Requests : P!WriteOk(r)
  BY PublicationSteps DEF ProducerStep, producerVars, P!Publish, P!Write, P!WriteFail,
     P!Arrive, P!Land, P!Lose
<1> QED
  BY <1>1, <1>2, <1>3

LEMMA AckStays ==
    ASSUME Basics, Next
    PROVE  acked \subseteq acked'
  BY PublicationSteps DEF ProducerStep, producerVars, P!Publish, P!Write, P!WriteOk, P!WriteFail,
     P!Arrive, P!Land, P!Lose

LEMMA AckedInStep ==
    ASSUME Basics, AckedIn, Next
    PROVE  AckedIn'
<1> SUFFICES ASSUME NEW f \in P!Formats, NEW e \in Requests, <<f, e>> \in acked'
             PROVE  writing'[e] # "idle" /\ e \in ToSet(topic'[f][userOf'[e]])
  BY DEF AckedIn
<1>0. PublicationFits(e) /\ P!TypeOK
  BY DEF Basics, Control, TypeOK
<1>1. CASE <<f, e>> \in acked
  BY <1>1, KeyStays, InTopicStays DEF AckedIn
<1>2. CASE <<f, e>> \notin acked
  <2>1. P!WriteOk(e) /\ writing[e] = f /\ writing[e] # "idle"
    BY <1>2, NewlyAcked DEF P!Formats
  <2>2. PICK n \in 1 .. MaxCopies :
           topic' = [topic EXCEPT ![f][userOf[e]] = @ \o [i \in 1 .. n |-> e]]
    BY <2>1 DEF P!WriteOk
  <2>3. writing'[e] # "idle" /\ userOf'[e] = userOf[e] /\ userOf[e] \in UserIds
    BY <2>1, KeyStays
  <2> DEFINE s == topic[f][userOf[e]]
             c == [i \in 1 .. n |-> e]
  <2>4. s \in Seq(Requests) /\ c \in Seq(Requests) /\ Len(c) = n /\ c[1] = e
    BY <1>0, <2>3 DEF P!TypeOK
  <2>5. topic'[f][userOf[e]] = s \o c
    BY <1>0, <2>2, <2>3 DEF P!TypeOK
  <2> HIDE DEF s, c
  <2>6. e \in ToSet(s \o c)
    <3>1. (s \o c)[Len(s) + 1] = e /\ Len(s) + 1 \in DOMAIN (s \o c)
      BY <2>4
    <3> QED
      BY <3>1 DEF ToSet
  <2> QED
    BY <2>3, <2>5, <2>6
<1> QED
  BY <1>1, <1>2

LEMMA AvroFirstStep ==
    ASSUME Basics, AvroFirst, Next
    PROVE  AvroFirst'
<1> SUFFICES ASSUME NEW e \in Requests,
                    writing'[e] \in {"proto", "nil"} \/ <<"proto", e>> \in flying'
                    \/ P!InTopic("proto", e)'
             PROVE  <<"avro", e>> \in acked'
  BY DEF AvroFirst
<1>0. P!TypeOK /\ PublicationFits(e)
  BY DEF Basics, TypeOK, Control
<1>1. CASE <<"avro", e>> \in acked
  BY <1>1, AckStays
<1>2. CASE writing[e] = "avro" /\ P!WriteOk(e)
  BY <1>2 DEF P!WriteOk
<1>3. ASSUME <<"avro", e>> \notin acked, ~(writing[e] = "avro" /\ P!WriteOk(e))
      PROVE  FALSE
  <2>1. writing[e] \notin {"proto", "nil"} /\ <<"proto", e>> \notin flying /\ ~P!InTopic("proto", e)
    BY <1>3 DEF AvroFirst
  <2>2. writing'[e] \notin {"proto", "nil"} /\ <<"proto", e>> \notin flying'
    <3>1. CASE UNCHANGED producerVars
      BY <2>1, <3>1 DEF producerVars
    <3>2. ASSUME NEW r \in Requests, P!Publish(r, Id(r))
          PROVE  <2>2!1 /\ <2>2!2
      BY <1>0, <2>1, <3>2 DEF P!Publish, P!TypeOK
    <3>3. ASSUME NEW r \in Requests, P!WriteOk(r)
          PROVE  <2>2!1 /\ <2>2!2
      <4>1. r # e
        BY <1>3, <2>1, <3>3 DEF P!WriteOk, P!Formats
      <4> QED
        BY <1>0, <2>1, <3>3, <4>1 DEF P!WriteOk, P!TypeOK
    <3>4. ASSUME NEW r \in Requests, P!WriteFail(r)
          PROVE  <2>2!1 /\ <2>2!2
      BY <1>0, <2>1, <3>4 DEF P!WriteFail, P!TypeOK
    <3>5. ASSUME NEW r \in Requests, NEW f \in P!Formats, P!Arrive(f, r)
          PROVE  <2>2!1 /\ <2>2!2
      BY <2>1, <3>5 DEF P!Arrive, P!Land, P!Lose
    <3> QED
      BY <3>1, <3>2, <3>3, <3>4, <3>5, PublicationSteps DEF ProducerStep, P!Write
  <2>3. ASSUME NEW u \in UserIds, e \in ToSet(topic'["proto"][u])
        PROVE  FALSE
    <3>1. PICK i \in 1 .. Len(topic'["proto"][u]) : topic'["proto"][u][i] = e
      BY <2>3, TopicGrows DEF ToSet, P!Formats
    <3>2. CASE i <= Len(topic["proto"][u])
      <4>1. i \in DOMAIN topic["proto"][u] /\ topic["proto"][u][i] = e
        BY <3>1, <3>2, TopicGrows DEF P!Formats
      <4>2. e \in ToSet(topic["proto"][u])
        BY <4>1 DEF ToSet
      <4> QED
        BY <2>1, <4>2 DEF P!InTopic, P!ToSet, ToSet
    <3>3. CASE i > Len(topic["proto"][u])
      BY <2>1, <3>1, <3>3, TopicGrows DEF P!Formats
    <3>4. i \in Nat /\ Len(topic["proto"][u]) \in Nat
      BY TopicGrows DEF P!Formats
    <3> QED
      BY <3>2, <3>3, <3>4
  <2> QED
    BY <2>2, <2>3 DEF P!InTopic, P!ToSet, ToSet
<1> QED
  BY <1>1, <1>2, <1>3

LEMMA TopicsAlways ==
    Spec => []TopicInv
<1>1. Init => TopicInv
  <2> SUFFICES ASSUME Init PROVE TopicInv
    OBVIOUS
  <2>1. \A f \in P!Formats, u \in UserIds : ToSet(topic[f][u]) = {}
    BY DEF Init, P!Init, ToSet
  <2>2. writing = [e \in Requests |-> "idle"] /\ flying = {} /\ acked = {}
    BY DEF Init, P!Init
  <2>3. TopicFits
    BY <2>1 DEF TopicFits
  <2>4. AckedIn
    BY <2>2 DEF AckedIn
  <2>5. \A e \in Requests : ~P!InTopic("proto", e)
    BY <2>1 DEF P!InTopic, P!ToSet, ToSet, P!Formats
  <2>6. AvroFirst
    BY <2>2, <2>5 DEF AvroFirst
  <2> QED
    BY <2>3, <2>4, <2>6 DEF TopicInv
<1>2. TopicInv /\ Basics /\ [Next]_vars => TopicInv'
  <2>1. ASSUME TopicInv, UNCHANGED vars
        PROVE  TopicInv'
    BY <2>1 DEF vars, producerVars, TopicInv, TopicFits, AckedIn, AvroFirst, P!InTopic
  <2> QED
    BY <2>1, TopicFitsStep, AckedInStep, AvroFirstStep DEF TopicInv
<1> QED
  BY <1>1, <1>2, BasicsAlways, PTL DEF Spec

(* Every event that is in the proto topic, or on its way there, is in the   *)
(* avro topic: PublishUserEvent writes to proto only when avro has          *)
(* acknowledged, and what is acknowledged is in the log. This holds for     *)
(* any number of copies, failed writes and late arrivals.                   *)
THEOREM ProtoFollowsAvro ==
    Spec => []TopicsAgree
<1>1. Basics /\ TopicInv => TopicsAgree
  <2> SUFFICES ASSUME Basics, TopicInv, NEW e \in Requests,
                      P!InTopic("proto", e) \/ <<"proto", e>> \in flying
               PROVE  P!InTopic("avro", e)
    BY DEF TopicsAgree, P!TopicsAgree
  <2>1. <<"avro", e>> \in acked
    BY DEF TopicInv, AvroFirst
  <2>2. writing[e] # "idle" /\ e \in ToSet(topic["avro"][userOf[e]])
    BY <2>1 DEF TopicInv, AckedIn, P!Formats
  <2>3. userOf[e] \in UserIds
    BY <2>2 DEF Basics, TypeOK, P!TypeOK
  <2> QED
    BY <2>2, <2>3 DEF P!InTopic, P!ToSet, ToSet
<1> QED
  BY <1>1, BasicsAlways, TopicsAlways, PTL

LEMMA EarnedAlways ==
    Spec => []EarnedInv
<1>1. Init => EarnedInv
  BY DEF Init, P!Init, EarnedInv, GoneByDelete, Id, NoSnapshot
<1>2. EarnedInv /\ Basics /\ [Next]_vars => EarnedInv'
  <2>1. ASSUME EarnedInv, UNCHANGED vars
        PROVE  EarnedInv'
    BY <2>1 DEF vars, tableVars, requestVars, producerVars, EarnedInv, GoneByDelete, Earned,
       Stored, Deletes, Live, Id
  <2> QED
    BY <2>1, EarnedStep
<1> QED
  BY <1>1, <1>2, BasicsAlways, PTL DEF Spec

(* Every event in a topic, or on its way, tells of a change that has        *)
(* committed, made by a request that was not answered with an error; a      *)
(* DELETED event may tell of a deletion that another request was faster to  *)
(* commit. A lost COMMIT publishes nothing.                                 *)
THEOREM EventsTellOfCommits ==
    Spec => []EventsEarned
<1>1. Basics /\ TopicInv /\ EarnedInv => EventsEarned
  <2> SUFFICES ASSUME Basics, TopicInv, EarnedInv, NEW r \in Requests, Published(r)
               PROVE  stage[r] \in {"publish", "ok", "gone"} /\ Earned(r)
    BY DEF EventsEarned, Earned
  <2>1. PublicationFits(r)
    BY DEF Basics, Control
  <2>2. writing[r] # "idle"
    <3>1. ASSUME NEW f \in P!Formats, P!InTopic(f, r)
          PROVE  writing[r] # "idle"
      BY <3>1 DEF P!InTopic, P!ToSet, ToSet, TopicInv, TopicFits
    <3>2. ASSUME NEW f \in P!Formats, <<f, r>> \in flying
          PROVE  writing[r] # "idle"
      BY <2>1, <3>2 DEF PublicationFits
    <3> QED
      BY <3>1, <3>2 DEF Published
  <2> QED
    BY <2>1, <2>2 DEF EarnedInv, PublicationFits
<1> QED
  BY <1>1, BasicsAlways, TopicsAlways, EarnedAlways, PTL

LEMMA AnsweredFirstStep ==
    ASSUME Basics, TopicInv, AnsweredFirst, Next
    PROVE  AnsweredFirst'
<1> SUFFICES ASSUME NEW f \in P!Formats, NEW u \in UserIds, NEW b \in Requests,
                    NEW i \in DOMAIN topic'[f][u], topic'[f][u][i] = b,
                    NEW a \in before'[b], <<f, a>> \in acked', userOf'[a] = u
             PROVE  \E j \in 1 .. i : topic'[f][u][j] = a
  BY DEF AnsweredFirst
<1>0. /\ i \in 1 .. Len(topic'[f][u]) /\ i \in Nat
      /\ Len(topic[f][u]) \in Nat /\ Len(topic'[f][u]) \in Nat
      /\ Len(topic[f][u]) <= Len(topic'[f][u])
  BY TopicGrows
<1>1. writing[b] # "idle" /\ (i \in DOMAIN topic[f][u] => topic[f][u][i] = b)
  <2>1. CASE i <= Len(topic[f][u])
    <3>1. i \in DOMAIN topic[f][u] /\ topic[f][u][i] = b
      BY <1>0, <2>1, TopicGrows
    <3>2. b \in ToSet(topic[f][u])
      BY <3>1 DEF ToSet
    <3> QED
      BY <3>1, <3>2 DEF TopicInv, TopicFits
  <2>2. CASE i > Len(topic[f][u])
    <3>1. writing[b] = f \/ <<f, b>> \in flying
      BY <1>0, <2>2, TopicGrows
    <3>2. PublicationFits(b)
      BY DEF Basics, Control
    <3>3. i \notin DOMAIN topic[f][u]
      BY <1>0, <2>2, TopicGrows
    <3> QED
      BY <3>1, <3>2, <3>3 DEF PublicationFits, P!Formats
  <2> QED
    BY <1>0, <2>1, <2>2
<1>2. a \in Requests /\ a \in before[b] /\ stage[a] \in Definite
  <2>1. PublicationFits(b) /\ HistoryFits(b) /\ before \in [Requests -> SUBSET Requests]
    BY DEF Basics, Control, TypeOK
  <2>2. before'[b] = before[b]
    BY <1>1, <2>1, Frozen DEF PublicationFits
  <2> QED
    BY <2>1, <2>2 DEF HistoryFits
<1>3. <<f, a>> \in acked
  <2>1. PublicationFits(a)
    BY <1>2 DEF Basics, Control
  <2>2. writing[a] # f
    BY <1>2, <2>1 DEF PublicationFits, Definite
  <2> QED
    BY <1>2, <2>2, NewlyAcked
<1>4. userOf[a] = u /\ a \in ToSet(topic[f][u])
  <2>1. writing[a] # "idle" /\ a \in ToSet(topic[f][userOf[a]])
    BY <1>2, <1>3 DEF TopicInv, AckedIn
  <2> QED
    BY <1>2, <2>1, KeyStays
<1>5. \E j \in 1 .. i : j \in 1 .. Len(topic[f][u]) /\ topic[f][u][j] = a
  <2>1. CASE i \in DOMAIN topic[f][u]
    <3>1. PICK j \in 1 .. i : topic[f][u][j] = a
      BY <1>1, <1>2, <1>3, <1>4, <2>1 DEF AnsweredFirst
    <3>2. j \in 1 .. Len(topic[f][u])
      BY <1>0, <2>1, <3>1, TopicGrows
    <3> QED
      BY <3>1, <3>2
  <2>2. CASE i \notin DOMAIN topic[f][u]
    <3>1. i > Len(topic[f][u])
      BY <1>0, <2>2, TopicGrows
    <3>2. PICK j \in 1 .. Len(topic[f][u]) : topic[f][u][j] = a
      BY <1>4, TopicGrows DEF ToSet
    <3> QED
      BY <1>0, <3>1, <3>2
  <2> QED
    BY <2>1, <2>2
<1> QED
  BY <1>5, TopicGrows

(* Events of successive requests for one user are in order: once a request  *)
(* was answered and the write of its event acknowledged, no copy of the     *)
(* event of a request sent later comes before it, whatever the Writer       *)
(* retries, and however many requests publish at the same time.             *)
THEOREM AnswersOrderEvents ==
    Spec => []AnsweredFirst
<1>1. Init => AnsweredFirst
  BY DEF Init, P!Init, AnsweredFirst
<1>2. AnsweredFirst /\ Basics /\ TopicInv /\ [Next]_vars => AnsweredFirst'
  <2>1. ASSUME AnsweredFirst, UNCHANGED vars
        PROVE  AnsweredFirst'
    BY <2>1 DEF vars, requestVars, producerVars, AnsweredFirst
  <2> QED
    BY <2>1, AnsweredFirstStep
<1> QED
  BY <1>1, <1>2, BasicsAlways, TopicsAlways, PTL DEF Spec

------------------------------------------------------------------------------
(* Deleted users stay away.                                                 *)

\* A write is pending from the time its request has found or made its user.
LEMMA PendingBefore ==
    ASSUME Basics, Next, NEW r \in Requests, Id(r) \in UserIds, Pending(r)'
    PROVE  Pending(r)
<1>0. /\ CallFits(r) /\ CallFits(r)' /\ PublicationFits(r) /\ PublicationFits(r)'
      /\ stage \in [Requests -> Stages]
  BY CallsFit, PublicationsFit DEF Basics, Control, TypeOK, Stages
<1>1. stage[r] \notin {"new", "read", "count", "page"}
  BY <1>0 DEF CallFits, NoSnapshot, Id
<1>2. CASE stage[r] = "publish"
  <2>1. writing'[r] # "idle"
    BY <1>0, <1>2, KeyStays DEF PublicationFits
  <2> QED
    BY <1>0, <2>1 DEF CallFits, PublicationFits, Pending
<1>3. CASE stage[r] \in Definite \union Cut
  <2>1. stage'[r] = stage[r]
    BY <1>3, Frozen
  <2>2. r \in doubt' => r \in doubt \/ LoseCommit(r)
    BY Doubts
  <2>3. ~LoseCommit(r)
    BY <1>3 DEF LoseCommit, Goes, Definite, Cut
  <2> QED
    BY <1>3, <2>1, <2>2, <2>3 DEF Pending, Definite, Cut
<1> QED
  BY <1>0, <1>1, <1>2, <1>3 DEF Pending, Stages

\* While a new user is being stored no other request has found it.
LEMMA CreatesAloneStep ==
    ASSUME Basics, CreatesAlone, Next
    PROVE  CreatesAlone'
<1> SUFFICES ASSUME NEW c \in Requests, call'[c].op = "create", Pending(c)'
             PROVE  /\ row'[user'[c].id] = NoRow
                    /\ \A q \in Requests \ {c} : user'[q].id # user'[c].id
  BY DEF CreatesAlone, Id
<1>0. /\ \A q \in Requests : CallFits(q) /\ UserFits(q) /\ UserFits(q)'
      /\ row \in [UserIds -> Rows] /\ user \in [Requests -> Snapshots]
  BY UsersFit DEF Basics, Control, TypeOK, Snapshots
<1>1. user'[c].id \in UserIds
  BY <1>0 DEF UserFits, Pending, Id
<1>2. /\ row[user'[c].id] = NoRow
      /\ \A q \in Requests \ {c} : user[q].id # user'[c].id
  <2>1. CASE Id(c) \in UserIds
    <3>1. Pending(c) /\ stage[c] # "new" /\ user'[c] = user[c]
      BY <1>0, <2>1, PendingBefore, Frozen DEF CallFits, NoSnapshot, Id
    <3>2. call[c].op = "create"
      BY <3>1, Frozen
    <3> QED
      BY <3>1, <3>2 DEF CreatesAlone, Id
  <2>2. CASE Id(c) \notin UserIds
    <3>1. ~Find(c)
      <4>1. Find(c) => call[c].op # "create" /\ call'[c] = call[c]
        BY <1>0 DEF Find, CallFits
      <4> QED
        BY <4>1
    <3> QED
      BY <1>1, <2>2, <3>1, NewlyFound DEF Id
  <2> QED
    BY <2>1, <2>2
<1>3. row'[user'[c].id] = row[user'[c].id]
  <2>1. ASSUME NEW p \in Requests, Pending(p), p \in doubt \/ (Goes(p) /\ Hits(p) /\ ~Clash(p)),
               row' = [row EXCEPT ![Id(p)] = Written(p)],
               doubt' = doubt \ {p}, stage'[p] \notin {"write", "upsert"}
        PROVE  row'[user'[c].id] = row[user'[c].id]
    <3>1. p # c
      BY <2>1 DEF Pending
    <3> QED
      BY <1>0, <1>1, <1>2, <2>1, <3>1 DEF Id
  <2> QED
    BY <2>1, TableSteps DEF RowStep
<1>4. ASSUME NEW q \in Requests \ {c}
      PROVE  user'[q].id # user'[c].id
  <2>1. CASE Id(q) \in UserIds
    BY <1>2, <2>1, Frozen DEF Id
  <2>2. CASE Id(q) \notin UserIds /\ user'[q].id \in UserIds
    BY <1>1, <1>2, <2>2, NewlyFound DEF Id, Live, NoRow
  <2> QED
    BY <1>1, <2>1, <2>2
<1> QED
  BY <1>2, <1>3, <1>4

\* What a DELETE request does to its user is known when it publishes.
LEMMA DeletesPublish ==
    ASSUME Basics, Next, NEW d \in Requests, call'[d].op = "delete",
           stage'[d] \in {"publish", "ok"}
    PROVE  /\ call[d] = call'[d] /\ call[d].user \in UserIds
           /\ stage'[d] = "ok" => stage[d] \in {"publish", "ok"}
           /\ stage[d] \in {"publish", "ok"} => Id(d) = call[d].user
           /\ stage[d] \notin {"publish", "ok"} => row'[call[d].user].state # "live"
<1> DEFINE Publishes == Store(d) \/ DeleteNothing(d)
           Goal == call'[d].op = "delete" /\ stage'[d] \in {"publish", "ok"} =>
                      stage[d] \in {"publish", "ok"} \/ (stage'[d] = "publish" /\ Publishes)
<1>0. /\ RequestTypesOK /\ row \in [UserIds -> Rows]
      /\ \A q \in Requests : CallFits(q) /\ UserFits(q)
  BY DEF Basics, TypeOK, RequestTypesOK, Stages, Snapshots, Listings, Control
<1> USE DEF RequestTypesOK, requestVars, Goto
<1>1. ASSUME NEW r \in Requests, Act(r)
      PROVE  Goal
  <2>1. CASE stage'[d] = stage[d]
    BY <2>1
  <2>2. CASE Store(r) \/ DeleteNothing(r)
    BY <1>0, <2>1, <2>2 DEF Store, DeleteNothing
  <2>3. CASE Refuse(r) \/ Fallback(r) \/ DbFail(r) \/ LoseCommit(r) \/ NotFound(r) \/ CutPublish(r)
    BY <1>0, <2>3 DEF Refuse, Fallback, DbFail, LoseCommit, NotFound, CutPublish
  <2>4. CASE Settle(r) \/ PublishWrite(r)
    BY <2>1, <2>4 DEF Settle, PublishWrite
  <2>5. CASE \E c \in Calls : CreateUser(r, c) \/ GetUser(r, c) \/ ListUsers(r, c)
                             \/ UpdateUser(r, c) \/ DeleteUser(r, c)
    BY <1>0, <2>5 DEF CreateUser, GetUser, ListUsers, UpdateUser, DeleteUser
  <2>6. CASE Find(r)
    BY <1>0, <2>6 DEF Find
  <2>7. CASE Respond(r)
    BY <1>0, <2>7 DEF Respond
  <2>8. CASE Count(r)
    BY <1>0, <2>8 DEF Count
  <2>9. CASE Page(r)
    <3>1. call[r].op = "list" /\ call' = call /\ stage' = [stage EXCEPT ![r] = "ok"]
      BY <1>0, <2>9 DEF Page, CallFits
    <3> QED
      BY <1>0, <3>1
  <2> QED
    BY <1>1, <2>2, <2>3, <2>4, <2>5, <2>6, <2>7, <2>8, <2>9 DEF Act, Statement
<1>2. ASSUME NEW f \in P!Formats, NEW r \in Requests, Arrive(f, r)
      PROVE  Goal
  BY <1>2 DEF Arrive
<1>3. Goal
  BY <1>1, <1>2 DEF Next, Act
<1>4. stage[d] # "new" /\ call[d] = call'[d] /\ call[d] \in Calls
  <2>1. stage[d] # "new"
    BY <1>3 DEF Store, DeleteNothing, Goes
  <2> QED
    BY <1>0, <2>1, Frozen DEF CallFits
<1>5. call[d].user \in UserIds
  BY <1>4, CallShape
<1>6. stage[d] \in {"publish", "ok", "write", "upsert"} => Id(d) = call[d].user
  BY <1>0, <1>4 DEF UserFits
<1>7. Store(d) => row'[call[d].user].state # "live"
  <2> SUFFICES ASSUME Store(d) PROVE row'[call[d].user].state # "live"
    OBVIOUS
  <2>1. Goes(d) /\ Hits(d) /\ row' = [row EXCEPT ![Id(d)] = Written(d)] /\ Pending(d)
    BY DEF Store, Goes, Pending
  <2>2. Written(d).state = "deleted"
    BY <1>4, <2>1, WrittenType
  <2> QED
    BY <1>0, <1>5, <1>6, <2>1, <2>2 DEF Goes
<1>8. DeleteNothing(d) => row'[call[d].user].state # "live"
  BY <1>4, <1>6 DEF DeleteNothing, Goes, Hits, Live, tableVars
<1> QED
  BY <1>3, <1>4, <1>5, <1>6, <1>7, <1>8

\* Only live users are listed.
LEMMA NewlyListed ==
    ASSUME Basics, Next, NEW r \in Requests, NEW u \in listing'[r].page, u \notin listing[r].page
    PROVE  Live(u)
<1> DEFINE Goal == listing'[r].page \subseteq listing[r].page \union LiveUsers
<1>0. RequestTypesOK
  BY DEF Basics, TypeOK, RequestTypesOK, Stages, Snapshots, Listings
<1> USE DEF RequestTypesOK, requestVars
<1>1. ASSUME NEW q \in Requests, Act(q)
      PROVE  Goal
  <2>1. CASE listing' = listing
    BY <2>1
  <2>2. CASE Count(q)
    BY <1>0, <2>2 DEF Count, Listings
  <2>3. CASE Page(q)
    <3>1. PICK us \in SUBSET LiveUsers :
             listing' = [listing EXCEPT ![q].page = us, ![q].to = Len(stored)]
      BY <2>3 DEF Page
    <3>2. CASE q = r
      <4>1. listing'[r].page = us
        BY <1>0, <3>1, <3>2 DEF Listings
      <4> QED
        BY <3>1, <4>1
    <3>3. CASE q # r
      BY <1>0, <3>1, <3>3
    <3> QED
      BY <3>2, <3>3
  <2>4. CASE \E c \in Calls : CreateUser(q, c) \/ GetUser(q, c) \/ ListUsers(q, c)
                             \/ UpdateUser(q, c) \/ DeleteUser(q, c)
    BY <2>1, <2>4 DEF CreateUser, GetUser, ListUsers, UpdateUser, DeleteUser, Receive
  <2>5. CASE Find(q) \/ NotFound(q) \/ DbFail(q) \/ LoseCommit(q) \/ Settle(q)
    BY <2>1, <2>5 DEF Find, NotFound, DbFail, LoseCommit, Settle
  <2>6. CASE Statement(q)
    BY <2>1, <2>6 DEF Statement, Store, Refuse, Fallback, DeleteNothing
  <2>7. CASE PublishWrite(q) \/ Respond(q) \/ CutPublish(q)
    BY <2>1, <2>7 DEF PublishWrite, Respond, CutPublish
  <2> QED
    BY <1>1, <2>2, <2>3, <2>4, <2>5, <2>6, <2>7 DEF Act
<1>2. ASSUME NEW f \in P!Formats, NEW q \in Requests, Arrive(f, q)
      PROVE  Goal
  BY <1>2 DEF Arrive
<1>3. Goal
  BY <1>1, <1>2 DEF Next, Act
<1> QED
  BY <1>3 DEF LiveUsers

LEMMA RevivedStays ==
    ASSUME Basics, Next, NEW d \in Requests, stage[d] # "new", Revived(d)
    PROVE  Revived(d)'
<1>1. PICK p \in Requests :
         call[p].op = "update" /\ call[p].user = call[d].user /\ Overlap(p, d)
  BY DEF Revived
<1>2. stage[p] # "new"
  BY <1>1 DEF Overlap
<1>3. /\ call'[p] = call[p] /\ before'[p] = before[p] /\ stage'[p] # "new"
      /\ call'[d] = call[d] /\ before'[d] = before[d]
  BY <1>2, Frozen
<1> QED
  BY <1>1, <1>3 DEF Revived, Overlap

LEMMA GoneStep ==
    ASSUME Basics, CreatesAlone, GoneInv, Next
    PROVE  GoneInv'
<1> SUFFICES ASSUME NEW d \in Requests, stage'[d] \in {"publish", "ok"}, call'[d].op = "delete"
             PROVE  /\ row'[call'[d].user].state = "live" => Revived(d)'
                    /\ \A r \in Requests :
                          stage'[d] = "ok" /\ d \in before'[r]
                          /\ (user'[r].id = call'[d].user \/ call'[d].user \in listing'[r].page)
                          => Revived(d)'
  BY DEF GoneInv, Live, Id
<1> DEFINE u == call[d].user
<1>0. /\ call'[d] = call[d] /\ call[d].op = "delete" /\ u \in UserIds
      /\ \A q \in Requests : CallFits(q) /\ UserFits(q) /\ HistoryFits(q)
      /\ row \in [UserIds -> Rows] /\ before \in [Requests -> SUBSET Requests]
  BY DeletesPublish DEF Basics, Control, TypeOK
<1>1. CASE row'[u].state # "live" /\ stage[d] \notin {"publish", "ok"}
  BY <1>0, <1>1, DeletesPublish
<1>2. CASE stage[d] \in {"publish", "ok"} /\ Id(d) = u
  <2>0. /\ Revived(d) => Revived(d)'
        /\ Live(u) => Revived(d)
    BY <1>0, <1>2, RevivedStays DEF GoneInv
  <2>1. ASSUME NEW p \in Requests, Pending(p), p \in doubt \/ (Goes(p) /\ Hits(p) /\ ~Clash(p)),
               row' = [row EXCEPT ![Id(p)] = Written(p)], row'[u].state = "live", ~Live(u)
        PROVE  Revived(d)
    <3>1. Id(p) = u /\ Written(p).state = "live"
      BY <1>0, <2>1, WrittenType DEF Live
    <3>2. call[p].op # "delete" /\ call[p].op \in Writes
      BY <2>1, <3>1, WrittenType
    <3>3. call[p].op # "create"
      BY <1>0, <1>2, <2>1, <3>1 DEF CreatesAlone
    <3>4. call[p].op = "update" /\ call[p].user = u
      BY <1>0, <3>1, <3>2, <3>3 DEF Writes, UserFits
    <3>5. stage[p] \notin {"new"} \union Definite
      BY <1>0, <2>1 DEF Pending, CallFits, Definite
    <3>6. p \notin before[d]
      BY <1>0, <3>5 DEF HistoryFits
    <3>7. CASE d \notin before[p]
      BY <3>4, <3>5, <3>6, <3>7 DEF Revived, Overlap
    <3>8. CASE d \in before[p]
      <4>1. stage[d] = "ok"
        BY <1>0, <1>2, <3>8 DEF HistoryFits, Definite
      <4> QED
        BY <1>0, <3>1, <3>8, <4>1 DEF GoneInv
    <3> QED
      BY <3>7, <3>8
  <2>2. row'[u].state = "live" => Revived(d)'
    BY <2>0, <2>1, TableSteps DEF RowStep, Live
  <2>3. ASSUME NEW r \in Requests, stage'[d] = "ok", d \in before'[r],
               user'[r].id = u \/ u \in listing'[r].page
        PROVE  Live(u) \/ Id(r) = u \/ u \in listing[r].page
    <3>1. CASE Id(r) # u /\ user'[r].id = u
      <4>1. Id(r) \notin UserIds
        BY <1>0, <3>1, Frozen DEF Id
      <4> QED
        BY <1>0, <1>2, <3>1, <4>1, NewlyFound DEF Id
    <3>2. CASE u \notin listing[r].page /\ u \in listing'[r].page
      BY <3>2, NewlyListed
    <3> QED
      BY <2>3, <3>1, <3>2
  <2>4. ASSUME NEW r \in Requests, stage'[d] = "ok", d \in before'[r],
               Id(r) = u \/ u \in listing[r].page
        PROVE  Revived(d)
    <3>1. stage[r] # "new"
      BY <1>0, <2>4 DEF CallFits, NoSnapshot, NoListing, Id
    <3>2. d \in before[r]
      BY <2>4, <3>1, Frozen
    <3>3. stage[d] = "ok"
      BY <1>0, <1>2, <3>2 DEF HistoryFits, Definite
    <3> QED
      BY <1>0, <2>4, <3>2, <3>3 DEF GoneInv
  <2> QED
    BY <1>0, <2>0, <2>2, <2>3, <2>4
<1> QED
  BY <1>1, <1>2, DeletesPublish

(* Deleted users stay away: when a DELETE was answered, no request sent     *)
(* later finds or lists its user, unless a PUT overlapped the DELETE, whose *)
(* Save may have written the row back (a PUT that ended with an error may   *)
(* still be at work, and counts as one that overlaps).                      *)
THEOREM DeletedUsersStayAway ==
    Spec => []GoneStaysGone
<1>1. Init => CreatesAlone /\ GoneInv
  <2> SUFFICES ASSUME Init PROVE CreatesAlone /\ GoneInv
    OBVIOUS
  <2>1. \A r \in Requests : stage[r] = "new" /\ r \notin doubt
    BY DEF Init
  <2> QED
    BY <2>1 DEF CreatesAlone, GoneInv, Pending
<1>2. CreatesAlone /\ GoneInv /\ Basics /\ [Next]_vars => (CreatesAlone /\ GoneInv)'
  <2>1. ASSUME CreatesAlone, GoneInv, UNCHANGED vars
        PROVE  (CreatesAlone /\ GoneInv)'
    BY <2>1 DEF vars, tableVars, requestVars, CreatesAlone, GoneInv, Pending, Revived, Overlap,
       Live, Id
  <2> QED
    BY <2>1, CreatesAloneStep, GoneStep
<1>3. Basics /\ GoneInv => GoneStaysGone
  <2> SUFFICES ASSUME Basics, GoneInv, NEW d \in Requests, NEW r \in Requests,
                      stage[d] = "ok", call[d].op = "delete", d \in before[r],
                      Finds(r, call[d].user)
               PROVE  Revived(d)
    BY DEF GoneStaysGone, Revived
  <2>1. CallFits(d) /\ CallFits(r) /\ UserFits(r) /\ HistoryFits(r)
    BY DEF Basics, Control
  <2>2. call[d].user \in UserIds
    BY <2>1, CallShape DEF CallFits
  <2>3. CASE call[r].user = call[d].user /\ stage[r] \in {"ok", "write", "upsert", "publish"}
    <3>1. call[r] \in Calls /\ call[r].user \in UserIds
      BY <2>1, <2>2, <2>3 DEF CallFits
    <3>2. call[r].op \notin {"create", "list"}
      BY <3>1, CallShape
    <3>3. Id(r) = call[d].user
      BY <2>1, <2>3, <3>2 DEF UserFits
    <3> QED
      BY <3>3 DEF GoneInv
  <2>4. CASE call[d].user \in listing[r].page
    BY <2>4 DEF GoneInv
  <2> QED
    BY <2>3, <2>4 DEF Finds
<1> QED
  BY <1>1, <1>2, <1>3, BasicsAlways, PTL DEF Spec

------------------------------------------------------------------------------
(* Partial updates.                                                         *)

\* Who commits with a request that is alone is that request; nobody has touched its user.
LEMMA LoneIsFreshStep ==
    ASSUME Basics, LoneIsFresh, Next
    PROVE  LoneIsFresh'
<1> SUFFICES ASSUME NEW r \in Requests, Pending(r)', call'[r].op = "update", Alone(r)',
                    Live(Id(r))'
             PROVE  /\ call'[r].name = Omitted => user'[r].name = row'[user'[r].id].name
                    /\ call'[r].email = Omitted => user'[r].email = row'[user'[r].id].email
  BY DEF LoneIsFresh, Id
<1>0. /\ \A q \in Requests : CallFits(q) /\ UserFits(q) /\ HistoryFits(q) /\ UserFits(q)'
      /\ row \in [UserIds -> Rows] /\ before \in [Requests -> SUBSET Requests]
      /\ user \in [Requests -> Snapshots]
  BY UsersFit DEF Basics, Control, TypeOK, Snapshots
<1>1. CASE Id(r) \in UserIds
  <2>1. Pending(r) /\ stage[r] # "new"
    BY <1>0, <1>1, PendingBefore DEF CallFits, NoSnapshot, Id
  <2>2. call'[r] = call[r] /\ before'[r] = before[r] /\ user'[r] = user[r]
    BY <1>1, <2>1, Frozen
  <2>3. Alone(r)
    <3> SUFFICES ASSUME NEW q \in Requests \ {r}, stage[q] # "new", q \notin before[r]
                 PROVE  {call[q].user, Id(q)} \intersect {Id(r)} = {}
      BY DEF Alone
    <3>1. stage'[q] # "new" /\ call'[q] = call[q] /\ (Id(q) \in UserIds => user'[q] = user[q])
      BY Frozen
    <3>2. {call'[q].user, user'[q].id} \intersect {user'[r].id} = {}
      BY <2>2, <3>1 DEF Alone, Id
    <3> QED
      BY <1>1, <2>2, <3>1, <3>2 DEF Id
  <2>4. ASSUME NEW p \in Requests, Pending(p), doubt' = doubt \ {p},
               stage'[p] \notin {"write", "upsert"}
        PROVE  Id(p) # Id(r)
    <3>1. p # r
      BY <2>4 DEF Pending
    <3>2. stage[p] \notin {"new"} \union Definite
      BY <1>0, <2>4 DEF Pending, CallFits, Definite
    <3>3. p \notin before[r]
      BY <1>0, <3>2 DEF HistoryFits
    <3> QED
      BY <2>3, <3>1, <3>2, <3>3 DEF Alone
  <2>5. row'[Id(r)] = row[Id(r)]
    BY <1>0, <1>1, <2>4, TableSteps DEF RowStep
  <2>6. Live(Id(r))
    BY <2>2, <2>5 DEF Live, Id
  <2> QED
    BY <2>1, <2>2, <2>3, <2>5, <2>6 DEF LoneIsFresh, Id
<1>2. CASE Id(r) \notin UserIds
  <2>1. Id(r)' \in UserIds
    BY <1>0 DEF UserFits, Pending
  <2>2. Find(r)
    BY <1>2, <2>1, NewlyFound
  <2>3. row' = row /\ call' = call /\ user'[r] = Patched(r)
    BY <1>0, <2>2 DEF Find, tableVars
  <2> QED
    BY <2>3 DEF Patched
<1> QED
  BY <1>1, <1>2

(* A partial update that no other request for its user overlaps changes the *)
(* fields that it names and no others: between its read and the step that   *)
(* commits it, late commits included, nobody else writes the user's row.    *)
THEOREM LoneUpdateKeepsTheRest ==
    Spec => LoneUpdateKeepsOmitted
<1>1. Init => LoneIsFresh
  BY DEF Init, LoneIsFresh, Pending
<1>2. LoneIsFresh /\ Basics /\ [Next]_vars => LoneIsFresh'
  <2>1. ASSUME LoneIsFresh, UNCHANGED vars
        PROVE  LoneIsFresh'
    BY <2>1 DEF vars, tableVars, requestVars, LoneIsFresh, Pending, Alone, Live, Id
  <2> QED
    BY <2>1, LoneIsFreshStep
<1>3. LoneIsFresh /\ Basics /\ [Next]_vars => [\A r \in Requests : Alone(r) => KeepsOmitted(r)]_vars
  <2> SUFFICES ASSUME LoneIsFresh, Basics, Next, NEW r \in Requests, Alone(r),
                      stored' = Append(stored, r), call[r].op = "update", Live(Id(r))
               PROVE  /\ call[r].name = Omitted => row'[Id(r)].name = row[Id(r)].name
                      /\ call[r].email = Omitted => row'[Id(r)].email = row[Id(r)].email
    BY DEF KeepsOmitted
  <2>0. stored \in Seq(Requests) /\ row \in [UserIds -> Rows]
    BY DEF Basics, TypeOK
  <2>1. PICK p \in Requests :
           /\ Pending(p)
           /\ p \in doubt \/ (Goes(p) /\ Hits(p) /\ ~Clash(p))
           /\ row' = [row EXCEPT ![Id(p)] = Written(p)]
           /\ stored' = Append(stored, p)
    <3>1. stored' # stored
      BY <2>0
    <3> QED
      BY <3>1, TableSteps DEF RowStep
  <2>2. p = r
    <3>1. Append(stored, p)[Len(stored) + 1] = p /\ Append(stored, r)[Len(stored) + 1] = r
      BY <2>0
    <3> QED
      BY <2>1, <3>1
  <2>3. Id(r) \in UserIds
    BY <2>1, <2>2, WrittenType
  <2>4. row'[Id(r)] = [state |-> "live", name |-> user[r].name, email |-> user[r].email]
    BY <2>0, <2>1, <2>2, <2>3 DEF Written
  <2>5. /\ call[r].name = Omitted => user[r].name = row[Id(r)].name
        /\ call[r].email = Omitted => user[r].email = row[Id(r)].email
    BY <2>1, <2>2 DEF LoneIsFresh
  <2> QED
    BY <2>4, <2>5
<1> QED
  BY <1>1, <1>2, <1>3, BasicsAlways, PTL DEF Spec, LoneUpdateKeepsOmitted

------------------------------------------------------------------------------
(* Lists.                                                                   *)

LEMMA MinOfTwo ==
    ASSUME NEW a \in Int, NEW b \in Int
    PROVE  Min({a, b}) = IF a <= b THEN a ELSE b
  BY DEF Min

LEMMA MaxOfTwo ==
    ASSUME NEW a \in Int, NEW b \in Int
    PROVE  Max({a, b}) = IF a >= b THEN a ELSE b
  BY DEF Max

\* The more users there are, the longer the page.
LEMMA PagesGrow ==
    ASSUME NEW c \in Calls, c.op = "list", NEW n \in Int, NEW m \in Int, n <= m
    PROVE  PageSize(n, c) <= PageSize(m, c)
<1>1. c.offset \in Int /\ c.limit \in Int
  BY CallShape
<1>2. Offset(c) \in Int /\ Limit(c) \in Int
  BY <1>1, MinOfTwo DEF Offset, Limit
<1>3. /\ Min({n - Offset(c), Limit(c)}) \in Int /\ Min({m - Offset(c), Limit(c)}) \in Int
      /\ Min({n - Offset(c), Limit(c)}) <= Min({m - Offset(c), Limit(c)})
  <2> DEFINE a == n - Offset(c)
             b == m - Offset(c)
             l == Limit(c)
  <2>1. a \in Int /\ b \in Int /\ l \in Int /\ a <= b
    BY <1>2
  <2> HIDE DEF a, b, l
  <2>2. Min({a, l}) = (IF a <= l THEN a ELSE l) /\ Min({b, l}) = (IF b <= l THEN b ELSE l)
    BY <2>1, MinOfTwo
  <2>3. Min({a, l}) \in Int /\ Min({b, l}) \in Int /\ Min({a, l}) <= Min({b, l})
    BY <2>1, <2>2
  <2> QED
    BY <2>3 DEF a, b, l
<1>4. ASSUME NEW k \in Int
      PROVE  Max({0, k}) = IF 0 >= k THEN 0 ELSE k
  BY MaxOfTwo
<1> QED
  <2> DEFINE a == Min({n - Offset(c), Limit(c)})
             b == Min({m - Offset(c), Limit(c)})
  <2>1. a \in Int /\ b \in Int /\ a <= b
    BY <1>3
  <2>2. PageSize(n, c) = Max({0, a}) /\ PageSize(m, c) = Max({0, b})
    BY DEF PageSize
  <2> HIDE DEF a, b
  <2>3. Max({0, a}) <= Max({0, b})
    BY <1>4, <2>1
  <2> QED
    BY <2>2, <2>3

\* A commit changes the number of live users by one at most.
LEMMA CommitsCount ==
    ASSUME Basics, Next
    PROVE  LET k == Len(stored') - Len(stored)
               n == Cardinality(LiveUsers) IN
           /\ k >= 0 /\ Len(stored) \in Nat /\ Len(stored') \in Nat
           /\ n \in Nat /\ Cardinality(LiveUsers') \in Nat
           /\ n - k <= Cardinality(LiveUsers') /\ Cardinality(LiveUsers') <= n + k
<1> DEFINE k == Len(stored') - Len(stored)
           n == Cardinality(LiveUsers)
           Goal == /\ k >= 0 /\ Len(stored) \in Nat /\ Len(stored') \in Nat
                   /\ n \in Nat /\ Cardinality(LiveUsers') \in Nat
                   /\ n - k <= Cardinality(LiveUsers') /\ Cardinality(LiveUsers') <= n + k
<1>0. stored \in Seq(Requests) /\ stored' \in Seq(Requests) /\ row \in [UserIds -> Rows]
  BY RowTypes DEF Basics, TypeOK
<1>1. CASE UNCHANGED <<row, stored>>
  <2>1. LiveUsers' = LiveUsers
    BY <1>1 DEF LiveUsers, Live
  <2> QED
    BY <1>0, <1>1, <2>1, LiveCount
<1>2. ASSUME NEW r \in Requests, Id(r) \in UserIds, row' = [row EXCEPT ![Id(r)] = Written(r)],
             stored' = Append(stored, r)
      PROVE  Goal
  <2>1. Len(stored') = Len(stored) + 1 /\ Len(stored) \in Nat
    BY <1>0, <1>2
  <2>2. \/ LiveUsers' = LiveUsers \union {Id(r)}
        \/ LiveUsers' = LiveUsers \ {Id(r)}
    BY <1>0, <1>2 DEF LiveUsers, Live
  <2> DEFINE L == LiveUsers
             M == LiveUsers'
  <2>3. IsFiniteSet(L) /\ Cardinality(L) \in Nat
    BY LiveCount
  <2> HIDE DEF L, M
  <2>4. CASE M = L \union {Id(r)}
    <3>1. Cardinality(M) = Cardinality(L) \/ Cardinality(M) = Cardinality(L) + 1
      BY <2>3, <2>4, FS_AddElement
    <3> QED
      BY <2>1, <2>3, <3>1 DEF L, M
  <2>5. CASE M = L \ {Id(r)}
    <3>1. Cardinality(M) = Cardinality(L)
          \/ (Cardinality(M) = Cardinality(L) - 1 /\ Id(r) \in L)
      BY <2>3, <2>5, FS_RemoveElement
    <3>2. Id(r) \in L => Cardinality(L) # 0
      BY <2>3, FS_EmptySet
    <3> QED
      BY <2>1, <2>3, <3>1, <3>2 DEF L, M
  <2> QED
    BY <2>2, <2>4, <2>5 DEF L, M
<1> QED
  BY <1>1, <1>2, TableSteps, WrittenType DEF RowStep

\* A list counts, and then reads a page.
LEMMA ListSteps ==
    ASSUME Basics, Next, NEW r \in Requests
    PROVE  /\ stage'[r] = "page" => \/ stage[r] = "page" /\ listing'[r] = listing[r]
                                    \/ Count(r)
           /\ stage'[r] = "ok" /\ call'[r].op = "list" =>
                 \/ stage[r] = "ok" /\ listing'[r] = listing[r] /\ call'[r] = call[r]
                 \/ Page(r) /\ stage[r] = "page" /\ call[r] \in Calls /\ call[r].op = "list"
<1> DEFINE Goal ==
        /\ stage'[r] = "page" => \/ stage[r] = "page" /\ listing'[r] = listing[r]
                                 \/ Count(r)
        /\ stage'[r] = "ok" /\ call'[r].op = "list" => stage[r] = "ok" \/ Page(r)
<1>0. /\ RequestTypesOK /\ \A q \in Requests : CallFits(q) /\ UserFits(q)
      /\ PublicationFits(r)
  BY DEF Basics, TypeOK, RequestTypesOK, Stages, Snapshots, Listings, Control
<1> USE DEF RequestTypesOK, requestVars, Goto
<1>1. ASSUME NEW q \in Requests, Act(q)
      PROVE  Goal
  <2>1. CASE stage'[r] = stage[r] /\ listing'[r] = listing[r]
    BY <2>1
  <2>2. CASE Count(q)
    BY <1>0, <2>1, <2>2 DEF Count
  <2>3. CASE Page(q)
    BY <1>0, <2>1, <2>3 DEF Page
  <2>4. CASE \E c \in Calls : CreateUser(q, c) \/ GetUser(q, c) \/ ListUsers(q, c)
                             \/ UpdateUser(q, c) \/ DeleteUser(q, c)
    BY <1>0, <2>4 DEF CreateUser, GetUser, ListUsers, UpdateUser, DeleteUser, Receive
  <2>5. CASE Find(q)
    <3>1. call' = call /\ listing' = listing /\ call[q].op # "list"
          /\ stage' = [stage EXCEPT ![q] = IF call[q].op = "get" THEN "ok" ELSE "write"]
      BY <1>0, <2>5 DEF Find, CallFits
    <3> QED
      BY <1>0, <3>1
  <2>6. CASE NotFound(q) \/ DbFail(q) \/ LoseCommit(q) \/ Settle(q)
    BY <1>0, <2>6 DEF NotFound, DbFail, LoseCommit, Settle
  <2>7. CASE Statement(q)
    BY <1>0, <2>7 DEF Statement, Store, Refuse, Fallback, DeleteNothing
  <2>8. CASE PublishWrite(q) \/ CutPublish(q)
    BY <1>0, <2>8 DEF PublishWrite, CutPublish
  <2>9. CASE Respond(q)
    <3>1. call' = call /\ listing' = listing /\ call[q].op # "list"
          /\ stage' = [stage EXCEPT ![q] = "ok"]
      BY <1>0, <2>9 DEF Respond, CallFits, Writes
    <3> QED
      BY <1>0, <3>1
  <2> QED
    BY <1>1, <2>2, <2>3, <2>4, <2>5, <2>6, <2>7, <2>8, <2>9 DEF Act
<1>2. ASSUME NEW f \in P!Formats, NEW q \in Requests, Arrive(f, q)
      PROVE  Goal
  BY <1>2 DEF Arrive
<1>3. Goal
  BY <1>1, <1>2 DEF Next, Act
<1>4. stage[r] = "ok" => call'[r] = call[r] /\ listing'[r] = listing[r]
  BY Frozen DEF Definite
<1>5. Page(r) => stage[r] = "page" /\ call[r] \in Calls /\ call[r].op = "list"
  BY <1>0 DEF Page, CallFits
<1> QED
  BY <1>3, <1>4, <1>5

LEMMA CountDriftsStep ==
    ASSUME Basics, CountDrifts, Next
    PROVE  CountDrifts'
<1> SUFFICES ASSUME NEW r \in Requests, stage'[r] = "page"
             PROVE  LET drift == Len(stored') - listing'[r].from
                        n == Cardinality(LiveUsers') IN
                    /\ drift >= 0
                    /\ listing'[r].total - drift <= n
                    /\ n <= listing'[r].total + drift
  BY DEF CountDrifts
<1>0. listing[r].total \in Nat /\ listing[r].from \in Nat /\ listing \in [Requests -> Listings]
  BY DEF Basics, TypeOK, Listings
<1>1. CASE stage[r] = "page" /\ listing'[r] = listing[r]
  <2> DEFINE m == Cardinality(LiveUsers)
             n == Cardinality(LiveUsers')
             j == Len(stored)
             k == Len(stored')
  <2>1. /\ k >= j /\ j \in Nat /\ k \in Nat /\ m \in Nat /\ n \in Nat
        /\ m - (k - j) <= n /\ n <= m + (k - j)
    BY CommitsCount
  <2>2. /\ j - listing[r].from >= 0
        /\ listing[r].total - (j - listing[r].from) <= m
        /\ m <= listing[r].total + (j - listing[r].from)
    BY <1>1 DEF CountDrifts
  <2> HIDE DEF m, n, j, k
  <2>3. /\ k - listing[r].from >= 0
        /\ listing[r].total - (k - listing[r].from) <= n
        /\ n <= listing[r].total + (k - listing[r].from)
    BY <1>0, <2>1, <2>2
  <2> QED
    BY <1>1, <2>3 DEF n, k
<1>2. CASE Count(r)
  <2>1. row' = row /\ stored' = stored /\ LiveUsers' = LiveUsers
    BY <1>2 DEF Count, tableVars, LiveUsers, Live
  <2>2. listing'[r].total = Cardinality(LiveUsers) /\ listing'[r].from = Len(stored)
    BY <1>0, <1>2 DEF Count, Listings
  <2>3. Len(stored) \in Nat
    BY DEF Basics, TypeOK
  <2> QED
    BY <2>1, <2>2, <2>3, LiveCount
<1> QED
  BY <1>1, <1>2, ListSteps

LEMMA ListAddsUpStep ==
    ASSUME Basics, CountDrifts, ListAddsUp, Next
    PROVE  ListAddsUp'
<1> SUFFICES ASSUME NEW r \in Requests, stage'[r] = "ok", call'[r].op = "list"
             PROVE  LET drift == listing'[r].to - listing'[r].from
                        size == Cardinality(listing'[r].page) IN
                    /\ PageSize(listing'[r].total - drift, call'[r]) <= size
                    /\ size <= PageSize(listing'[r].total + drift, call'[r])
  BY DEF ListAddsUp, PageSize, Offset, Limit
<1>1. CASE stage[r] = "ok" /\ listing'[r] = listing[r] /\ call'[r] = call[r]
  BY <1>1 DEF ListAddsUp
<1>2. CASE Page(r) /\ stage[r] = "page" /\ call[r] \in Calls /\ call[r].op = "list"
  <2>1. PICK us \in SUBSET LiveUsers :
           /\ Cardinality(us) = PageSize(Cardinality(LiveUsers), call[r])
           /\ listing' = [listing EXCEPT ![r].page = us, ![r].to = Len(stored)]
    BY <1>2 DEF Page
  <2>2. /\ listing[r].total \in Nat /\ listing[r].from \in Nat
        /\ listing \in [Requests -> Listings] /\ Len(stored) \in Nat
    BY DEF Basics, TypeOK, Listings
  <2>3. /\ listing'[r].page = us /\ listing'[r].to = Len(stored)
        /\ listing'[r].total = listing[r].total /\ listing'[r].from = listing[r].from
        /\ call'[r] = call[r]
    BY <1>2, <2>1, <2>2 DEF Page, Listings
  <2> DEFINE drift == Len(stored) - listing[r].from
             n == Cardinality(LiveUsers)
  <2>4. /\ listing[r].total - drift <= n /\ n <= listing[r].total + drift
    BY <1>2 DEF CountDrifts
  <2>5. drift \in Int /\ n \in Int
    BY <2>2, LiveCount
  <2>6. /\ PageSize(listing[r].total - drift, call[r]) <= PageSize(n, call[r])
        /\ PageSize(n, call[r]) <= PageSize(listing[r].total + drift, call[r])
    <3> HIDE DEF drift, n
    <3> QED
      BY <1>2, <2>2, <2>4, <2>5, PagesGrow
  <2> QED
    BY <2>1, <2>3, <2>6
<1> QED
  BY <1>1, <1>2, ListSteps

(* The total and the page of a list differ by no more than the writes that  *)
(* committed between its two statements, with any offset, limit, defaults   *)
(* and number of requests at work.                                          *)
THEOREM ListsAddUp ==
    Spec => []ListAddsUp
<1>1. Init => CountDrifts /\ ListAddsUp
  BY DEF Init, CountDrifts, ListAddsUp
<1>2. CountDrifts /\ ListAddsUp /\ Basics /\ [Next]_vars => (CountDrifts /\ ListAddsUp)'
  <2>1. ASSUME CountDrifts, ListAddsUp, UNCHANGED vars
        PROVE  (CountDrifts /\ ListAddsUp)'
    BY <2>1 DEF vars, tableVars, requestVars, CountDrifts, ListAddsUp, LiveUsers, Live, PageSize,
       Offset, Limit
  <2> QED
    BY <2>1, CountDriftsStep, ListAddsUpStep
<1> QED
  BY <1>1, <1>2, BasicsAlways, PTL DEF Spec

=============================================================================
