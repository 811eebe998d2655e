----------------------------- MODULE UserService -----------------------------
(***************************************************************************)
(* The requests of the REST API on the users table: internal/api/handler.go*)
(* calls internal/service/user_service.go, which reads and writes through  *)
(* internal/repository/user_repository.go in statements of their own, and  *)
(* publishes an event once the write has committed (no outbox).            *)
(*                                                                         *)
(* Requests run concurrently. One may be cut short anywhere, because its   *)
(* client is gone (ctx is cancelled) or the process dies; the model takes  *)
(* these per request, so a crash is several of them. Age is one more       *)
(* optional field like name and left out; requests refused with 400 change *)
(* nothing and are left out.                                               *)
(*                                                                         *)
(* gorm and Postgres are external and modelled by what the code relies on: *)
(*   - a statement is atomic and finds only live rows (deleted_at IS NULL);*)
(*   - Save of a row that is not found turns into INSERT ... ON CONFLICT   *)
(*     (id) DO UPDATE of all columns, deleted_at among them;               *)
(*   - the unique index on email covers the live rows; a statement waits   *)
(*     for an open transaction on its row or its email;                    *)
(*   - a COMMIT that returns an error may still take effect, later.        *)
(***************************************************************************)
EXTENDS Integers, Sequences, FiniteSets, SequencesExt

CONSTANTS
    Requests,  \* requests of the clients, each sent at most once
    UserIds,
    Names,
    Emails,
    NoUser,    \* no user id
    Omitted,   \* a field that a partial update does not name
    Calls,     \* what clients may ask for, a subset of AllCalls
    Seed,      \* the rows the table holds already
    DefaultLimit, MaxLimit, \* users on a page: when the request does not say, and at most
    MaxCopies, \* bound: copies that one write to Kafka leaves in its topic
    MaxFailed  \* bound: publications that fail

AllCalls ==
    [op : {"create"}, user : {NoUser}, name : Names, email : Emails]
    \union [op : {"update"}, user : UserIds, name : Names \union {Omitted},
            email : Emails \union {Omitted}]
    \union [op : {"get", "delete"}, user : UserIds, name : {Omitted}, email : {Omitted}]
    \union [op : {"list"}, user : {NoUser}, name : {Omitted}, email : {Omitted},
            offset : Int, limit : Int]

NoRow == [state |-> "absent", name |-> Omitted, email |-> Omitted]
Rows == [state : {"live", "deleted"}, name : Names, email : Emails] \union {NoRow}

\* No two live rows have the same email.
Distinct(rows) ==
    \A u, v \in UserIds :
        u # v /\ rows[u].state = "live" /\ rows[v].state = "live" => rows[u].email # rows[v].email

ASSUME ServiceAssumption ==
    /\ NoUser \notin UserIds /\ IsFiniteSet(UserIds)
    /\ Omitted \notin Names \union Emails
    /\ Calls \subseteq AllCalls
    /\ Seed \in [UserIds -> Rows] /\ Distinct(Seed)
    /\ DefaultLimit \in Nat /\ MaxLimit \in Nat
    /\ MaxCopies \in Nat \ {0} /\ MaxFailed \in Nat

VARIABLES
    row,     \* row[u]: u's row of the users table
    stage,   \* stage[r]: where request r is, or how it was answered
    call,    \* call[r]: what r asks for
    user,    \* user[r]: the *models.User that r works on
    listing, \* listing[r]: the total and the page of users that List has read, and
             \* (history) how many writes had committed at each of the two reads
    doubt,   \* requests whose COMMIT failed and is not yet decided
    before,  \* history: before[r], the requests answered when r was sent
    stored,  \* history: the requests whose write has committed, in that order
    \* the variables of Producer, one publication per request
    topic, writing, userOf, flying, acked

tableVars == <<row, doubt, stored>>
requestVars == <<stage, call, user, listing, before>>
producerVars == <<topic, writing, userOf, flying, acked>>
vars == <<tableVars, requestVars, producerVars>>

P == INSTANCE Producer WITH Events <- Requests

NoCall == [op |-> "none", user |-> NoUser, name |-> Omitted, email |-> Omitted]
NoSnapshot == [id |-> NoUser, name |-> Omitted, email |-> Omitted]
NoListing == [total |-> 0, from |-> 0, page |-> {}, to |-> 0]

\* Answers that tell the client what has become of its request.
Definite == {"ok", "notfound", "taken"}
\* A failed read or write ("error": a 500, or the request has ended without an
\* answer), and a request that ended while it was publishing its event.
Cut == {"error", "gone"}

Init ==
    /\ row = Seed
    /\ stage = [r \in Requests |-> "new"]
    /\ call = [r \in Requests |-> NoCall]
    /\ user = [r \in Requests |-> NoSnapshot]
    /\ listing = [r \in Requests |-> NoListing]
    /\ doubt = {}
    /\ before = [r \in Requests |-> {}]
    /\ stored = <<>>
    /\ P!Init

------------------------------------------------------------------------------
Live(u) == row[u].state = "live"
Goto(r, s) == stage' = [stage EXCEPT ![r] = s]
Id(r) == user[r].id

\* The row that the statement of r leaves behind.
Written(r) ==
    IF call[r].op = "delete" THEN [row[Id(r)] EXCEPT !.state = "deleted"]
    ELSE [state |-> "live", name |-> user[r].name, email |-> user[r].email]

\* Migration 000003 without its second statement: no index on live emails.
ClashMutant(r) == FALSE

\* The unique index on the emails of live rows refuses the statement.
Clash(r) ==
    /\ Written(r).state = "live"
    /\ \E u \in UserIds \ {Id(r)} : Live(u) /\ row[u].email = Written(r).email

\* The statement of r waits for a transaction in doubt.
Waits(r) ==
    \E q \in doubt :
        \/ Id(q) = Id(r)
        \/ /\ Written(r).state = "live"
           /\ Written(r).email \in {Written(q).email, row[Id(q)].email}

\* Save and Delete write to live rows; an INSERT always has a row to write.
Hits(r) == call[r].op = "create" \/ stage[r] = "upsert" \/ Live(Id(r))

Goes(r) == stage[r] \in {"write", "upsert"} /\ ~Waits(r)

------------------------------------------------------------------------------
(* Definitions called ...Mutant are what the operator after them would be   *)
(* with a plausible bug in it; the model never uses them.                   *)

Receive(r, c) ==
    /\ stage[r] = "new"
    /\ call' = [call EXCEPT ![r] = c]
    /\ before' = [before EXCEPT ![r] = {q \in Requests : stage[q] \in Definite}]
    /\ UNCHANGED <<tableVars, listing, producerVars>>

\* POST /users: the user is built right away, and BeforeCreate gives it a new id.
CreateUser(r, c) ==
    /\ c.op = "create"
    /\ Receive(r, c)
    /\ \E u \in UserIds :
          /\ row[u] = NoRow
          /\ \A q \in Requests : Id(q) # u
          /\ user' = [user EXCEPT ![r] = [id |-> u, name |-> c.name, email |-> c.email]]
    /\ Goto(r, "write")

\* GET /users/{id}: the others read the user first.
GetUser(r, c) ==
    /\ c.op = "get"
    /\ Receive(r, c)
    /\ Goto(r, "read")
    /\ UNCHANGED user

\* PUT /users/{id}
UpdateUser(r, c) ==
    /\ c.op = "update"
    /\ Receive(r, c)
    /\ Goto(r, "read")
    /\ UNCHANGED user

\* DELETE /users/{id}
DeleteUser(r, c) ==
    /\ c.op = "delete"
    /\ Receive(r, c)
    /\ Goto(r, "read")
    /\ UNCHANGED user

\* GET /users, with or without paging parameters
ListUsers(r, c) ==
    /\ c.op = "list"
    /\ Receive(r, c)
    /\ Goto(r, "count")
    /\ UNCHANGED user

\* What Update makes of a row: the fields that the request names replace it.
PatchedMutant(r) ==
    [id |-> call[r].user, name |-> call[r].name, email |-> row[call[r].user].email]

Patched(r) ==
    LET u == call[r].user
        c == call[r] IN
    [id |-> u,
     name |-> IF c.name = Omitted THEN row[u].name ELSE c.name,
     email |-> IF c.email = Omitted THEN row[u].email ELSE c.email]

\* GetByID does not filter on deleted_at (Unscoped).
FindMutant(r) ==
    /\ stage[r] = "read"
    /\ row[call[r].user] # NoRow
    /\ user' = [user EXCEPT ![r] = Patched(r)]
    /\ Goto(r, IF call[r].op = "get" THEN "ok" ELSE "write")
    /\ UNCHANGED <<tableVars, call, listing, before, producerVars>>

\* GetByID finds the user.
Find(r) ==
    /\ stage[r] = "read"
    /\ Live(call[r].user)
    /\ user' = [user EXCEPT ![r] = Patched(r)]
    /\ Goto(r, IF call[r].op = "get" THEN "ok" ELSE "write")
    /\ UNCHANGED <<tableVars, call, listing, before, producerVars>>

\* GetByID answers ErrNotFound.
NotFound(r) ==
    /\ stage[r] = "read"
    /\ ~Live(call[r].user)
    /\ Goto(r, "notfound")
    /\ UNCHANGED <<tableVars, call, user, listing, before, producerVars>>

\* The write commits, and PublishUserEvent is called.
Store(r) ==
    /\ Goes(r)
    /\ Hits(r)
    /\ ~Clash(r)
    /\ row' = [row EXCEPT ![Id(r)] = Written(r)]
    /\ stored' = Append(stored, r)
    /\ Goto(r, "publish")
    /\ P!Publish(r, Id(r))
    /\ UNCHANGED <<doubt, call, user, listing, before>>

\* The error of repo.Create or repo.Update is dropped.
RefuseMutant(r) ==
    /\ Goes(r)
    /\ Hits(r)
    /\ Clash(r)
    /\ Goto(r, "publish")
    /\ P!Publish(r, Id(r))
    /\ UNCHANGED <<tableVars, call, user, listing, before>>

\* The write is refused with ErrEmailTaken.
Refuse(r) ==
    /\ Goes(r)
    /\ Hits(r)
    /\ Clash(r)
    /\ Goto(r, "taken")
    /\ UNCHANGED <<tableVars, call, user, listing, before, producerVars>>

\* Save has found no row and tries an upsert.
Fallback(r) ==
    /\ Goes(r)
    /\ ~Hits(r)
    /\ call[r].op = "update"
    /\ Goto(r, "upsert")
    /\ UNCHANGED <<tableVars, call, user, listing, before, producerVars>>

\* Delete has found no row, which is not an error: the event is published.
DeleteNothing(r) ==
    /\ Goes(r)
    /\ ~Hits(r)
    /\ call[r].op = "delete"
    /\ Goto(r, "publish")
    /\ P!Publish(r, Id(r))
    /\ UNCHANGED <<tableVars, call, user, listing, before>>

\* A statement fails, or the request ends while it runs.
DbFail(r) ==
    /\ stage[r] \in {"read", "write", "upsert", "count", "page"}
    /\ Goto(r, "error")
    /\ UNCHANGED <<tableVars, call, user, listing, before, producerVars>>

\* The error of a COMMIT is dropped.
LoseCommitMutant(r) ==
    /\ Goes(r)
    /\ Hits(r)
    /\ ~Clash(r)
    /\ doubt' = doubt \union {r}
    /\ Goto(r, "publish")
    /\ P!Publish(r, Id(r))
    /\ UNCHANGED <<row, stored, call, user, listing, before>>

\* The same, with a COMMIT under way.
LoseCommit(r) ==
    /\ Goes(r)
    /\ Hits(r)
    /\ ~Clash(r)
    /\ doubt' = doubt \union {r}
    /\ Goto(r, "error")
    /\ UNCHANGED <<row, stored, call, user, listing, before, producerVars>>

\* Postgres rolls back or commits a transaction whose client does not know.
Settle(r) ==
    /\ r \in doubt
    /\ doubt' = doubt \ {r}
    /\ \/ UNCHANGED <<row, stored>>
       \/ /\ row' = [row EXCEPT ![Id(r)] = Written(r)]
          /\ stored' = Append(stored, r)
    /\ UNCHANGED <<requestVars, producerVars>>

------------------------------------------------------------------------------
(* List reads the total and the page in two statements. Pages are sorted by *)
(* created_at; clocks differ and rows may tie, so any live users may come.  *)
LiveUsers == {u \in UserIds : Live(u)}

Offset(c) == IF c.offset < 0 THEN 0 ELSE c.offset
Limit(c) == IF c.limit <= 0 THEN DefaultLimit ELSE Min({c.limit, MaxLimit})

\* How many of n users the page that c asks for has.
PageSize(n, c) == Max({0, Min({n - Offset(c), Limit(c)})})

\* Unscoped: soft-deleted users are counted, or listed, too.
CountMutant(r) ==
    /\ stage[r] = "count"
    /\ listing' = [listing EXCEPT ![r].total = Cardinality({u \in UserIds : row[u] # NoRow}),
                                  ![r].from = Len(stored)]
    /\ Goto(r, "page")
    /\ UNCHANGED <<tableVars, call, user, before, producerVars>>

Count(r) ==
    /\ stage[r] = "count"
    /\ listing' = [listing EXCEPT ![r].total = Cardinality(LiveUsers), ![r].from = Len(stored)]
    /\ Goto(r, "page")
    /\ UNCHANGED <<tableVars, call, user, before, producerVars>>

Page(r) ==
    /\ stage[r] = "page"
    /\ \E us \in SUBSET LiveUsers :
          /\ Cardinality(us) = PageSize(Cardinality(LiveUsers), call[r])
          /\ listing' = [listing EXCEPT ![r].page = us, ![r].to = Len(stored)]
    /\ Goto(r, "ok")
    /\ UNCHANGED <<tableVars, call, user, before, producerVars>>

------------------------------------------------------------------------------
\* PublishUserEvent writes to the next topic.
PublishWrite(r) ==
    /\ stage[r] = "publish"
    /\ P!Write(r)
    /\ UNCHANGED <<tableVars, requestVars>>

\* Its error is logged and the request answered as if there had been none.
Respond(r) ==
    /\ stage[r] = "publish"
    /\ writing[r] \in {"nil", "error"}
    /\ Goto(r, "ok")
    /\ UNCHANGED <<tableVars, call, user, listing, before, producerVars>>

\* The request ends while its event is being published.
CutPublish(r) ==
    /\ stage[r] = "publish"
    /\ P!WriteFail(r) \/ (writing[r] \in {"nil", "error"} /\ UNCHANGED producerVars)
    /\ Goto(r, "gone")
    /\ UNCHANGED <<tableVars, call, user, listing, before>>

\* A write to Kafka that was given up arrives, or is lost.
Arrive(f, r) ==
    /\ P!Arrive(f, r)
    /\ UNCHANGED <<tableVars, requestVars>>

------------------------------------------------------------------------------
Statement(r) == Store(r) \/ Refuse(r) \/ Fallback(r) \/ DeleteNothing(r)

Next ==
    \/ \E r \in Requests :
          \/ \E c \in Calls :
                \/ CreateUser(r, c) \/ GetUser(r, c) \/ ListUsers(r, c)
                \/ UpdateUser(r, c) \/ DeleteUser(r, c)
          \/ Find(r) \/ NotFound(r) \/ Count(r) \/ Page(r)
          \/ Statement(r) \/ DbFail(r) \/ LoseCommit(r) \/ Settle(r)
          \/ PublishWrite(r) \/ Respond(r) \/ CutPublish(r)
    \/ \E f \in P!Formats, r \in Requests : Arrive(f, r)

Spec == Init /\ [][Next]_vars

(* Postgres and Kafka answer, with an error if need be: statements time out *)
(* or their connection breaks, and the Writer gives up after some attempts. *)
(* A statement that waits for others gets its turn (SF).                    *)
Fairness ==
    \A r \in Requests :
        /\ WF_vars(Find(r) \/ NotFound(r))
        /\ WF_vars(Count(r) \/ Page(r))
        /\ SF_vars(Statement(r))
        /\ WF_vars(Settle(r))
        /\ WF_vars(PublishWrite(r))
        /\ WF_vars(Respond(r))

FairSpec == Spec /\ Fairness

------------------------------------------------------------------------------
TypeOK ==
    /\ row \in [UserIds -> Rows]
    /\ stage \in [Requests -> {"new", "read", "write", "upsert", "count", "page", "publish"}
                                 \union Definite \union Cut]
    /\ call \in [Requests -> Calls \union {NoCall}]
    /\ user \in [Requests -> [id : UserIds, name : Names, email : Emails]
                                 \union {NoSnapshot}]
    /\ listing \in [Requests -> [total : Nat, from : Nat, page : SUBSET UserIds, to : Nat]]
    /\ doubt \in SUBSET Requests
    /\ before \in [Requests -> SUBSET Requests]
    /\ stored \in Seq(Requests)
    /\ P!TypeOK
    /\ \A r \in Requests : stage[r] \in {"write", "upsert", "publish"} => Id(r) \in UserIds

Stored(r) == r \in ToSet(stored)
Published(r) == \E f \in P!Formats : P!InTopic(f, r) \/ <<f, r>> \in flying
Deletes(r, u) == call[r].op = "delete" /\ call[r].user = u

(* No two live users share an email: whatever is created, changed, deleted, *)
(* brought back by an upsert or committed late, at the same time.           *)
EmailsUnique == Distinct(row)

(* Every event tells of a change that has committed, made by a request that *)
(* was not answered with an error. A DELETED event may tell of the deletion *)
(* by another request that was faster.                                      *)
EventsEarned ==
    \A r \in Requests : Published(r) =>
        /\ stage[r] \in {"publish", "ok", "gone"}
        /\ Stored(r) \/ \E q \in Requests : Deletes(r, Id(r)) /\ Deletes(q, Id(r)) /\ Stored(q)

(* The avro topic has every event that the proto topic has.                 *)
TopicsAgree == P!TopicsAgree

(* Events of one user by successive requests are in order: when the answer  *)
(* to a was there before b was sent, and the write of a's event returned    *)
(* nil, no copy of b's event comes before the first copy of a's.            *)
AnsweredFirst ==
    \A f \in P!Formats, u \in UserIds, b \in Requests : \A i \in DOMAIN topic[f][u] :
        topic[f][u][i] = b =>
            \A a \in before[b] :
                <<f, a>> \in acked /\ userOf[a] = u => \E j \in 1 .. i : topic[f][u][j] = a

\* All other requests for the user of r were answered before r was sent.
Alone(r) ==
    \A q \in Requests \ {r} :
        stage[q] = "new" \/ q \in before[r] \/ ({call[q].user, Id(q)} \intersect {Id(r)} = {})

\* The step that commits the write of r leaves the fields alone that an update omits.
KeepsOmitted(r) ==
    LET u == Id(r) IN
    stored' = Append(stored, r) /\ call[r].op = "update" /\ Live(u) =>
        /\ call[r].name = Omitted => row'[u].name = row[u].name
        /\ call[r].email = Omitted => row'[u].email = row[u].email

(* A partial update that no other request for its user overlaps changes the *)
(* fields it names and no others.                                           *)
LoneUpdateKeepsOmitted == [][\A r \in Requests : Alone(r) => KeepsOmitted(r)]_vars

\* r and the answered request d overlap in time.
Overlap(r, d) == stage[r] # "new" /\ r \notin before[d] /\ d \notin before[r]

\* r has found u by its id, or among others.
Finds(r, u) ==
    \/ call[r].user = u /\ stage[r] \in {"ok", "write", "upsert", "publish"}
    \/ u \in listing[r].page

(* Deleted users stay away: a request sent after a DELETE was answered does *)
(* not find or list the user, unless an update overlapped the DELETE (it    *)
(* may have written the row back).                                          *)
GoneStaysGone ==
    \A d, r \in Requests :
        /\ stage[d] = "ok" /\ call[d].op = "delete"
        /\ d \in before[r] /\ Finds(r, call[d].user)
        => \E p \in Requests :
              call[p].op = "update" /\ call[p].user = call[d].user /\ Overlap(p, d)

(* A list adds up: each write that committed between its two statements     *)
(* explains a difference of one user between its total and its page, and    *)
(* nothing else does.                                                       *)
ListAddsUp ==
    \A r \in Requests : stage[r] = "ok" /\ call[r].op = "list" =>
        LET drift == listing[r].to - listing[r].from
            size == Cardinality(listing[r].page) IN
        /\ PageSize(listing[r].total - drift, call[r]) <= size
        /\ size <= PageSize(listing[r].total + drift, call[r])

(* Every request ends, and once its write has committed it is answered with *)
(* success, whatever becomes of its event ("the failure is logged, not      *)
(* returned", user_service.go:143-145).                                     *)
RequestsEnd ==
    \A r \in Requests :
        /\ stage[r] \in {"read", "write", "upsert", "count", "page"}
             ~> stage[r] \in Definite \union Cut
        /\ stage[r] = "publish" ~> stage[r] \in {"ok", "gone"}

(* user_service.go:33: "omitted (nil) fields are left unchanged". Two       *)
(* updates of one user that overlap write each other's fields back.         *)
OmittedFieldsKept == [][\A r \in Requests : KeepsOmitted(r)]_vars

(* handler.go:163: "Soft-delete a user", which the tests take to be gone    *)
(* (user_integration_test.go:283). Save brings the row back when it finds   *)
(* no live row.                                                             *)
DeletedStaysDeleted ==
    [][\A u \in UserIds : row[u].state = "deleted" => row'[u].state = "deleted"]_vars

(* README.md:42: "all events of one user land on one partition in order".   *)
(* Nothing keeps a request from publishing before one that committed first. *)
EventsInCommitOrder ==
    \A f \in P!Formats, u \in UserIds, i, j \in 1 .. Len(stored) :
        i < j /\ userOf[stored[i]] = u /\ userOf[stored[j]] = u
        /\ <<f, stored[i]>> \in acked =>
            \A n \in DOMAIN topic[f][u] :
                topic[f][u][n] = stored[j] => \E m \in 1 .. n : topic[f][u][m] = stored[i]
==============================================================================
