------------------------------ MODULE Migration ------------------------------
(***************************************************************************)
(* RunMigrations of internal/db/migrate.go: every instance of the service  *)
(* brings the schema up to date before it does anything else.              *)
(*                                                                         *)
(* The code creates a migrator and calls Up. golang-migrate and Postgres   *)
(* are external and modelled by what the code relies on:                   *)
(*   - Up works under an advisory lock of the database, which goes with    *)
(*     the connection that holds it; waiting for it has a timeout;         *)
(*   - the table schema_migrations holds one version and a dirty flag; a   *)
(*     file runs between "version dirty" and "version clean", each of the  *)
(*     three a transaction of its own;                                     *)
(*   - on a dirty database, Up refuses to do anything.                     *)
(***************************************************************************)
EXTENDS Naturals, Sequences

CONSTANTS
    Instances, \* processes of the service
    Files,     \* the number of files in migrations/
    Nobody     \* the holder of a lock that is free, no process

VARIABLES
    holder,  \* who holds the advisory lock
    version, \* schema_migrations.version (0: no row yet) ...
    dirty,   \* ... and schema_migrations.dirty
    ran,     \* the files that have been executed on the database, in that order
    up,      \* up[i]: where i's call of Up is
    file     \* file[i]: the file that it is at

databaseVars == <<version, dirty, ran>>
vars == <<holder, databaseVars, up, file>>

Init ==
    /\ holder = Nobody
    /\ version = 0 /\ dirty = FALSE
    /\ ran = <<>>
    /\ up = [i \in Instances |-> "idle"]
    /\ file = [i \in Instances |-> 0]

Goto(i, s) == up' = [up EXCEPT ![i] = s]
At(i, n) == file' = [file EXCEPT ![i] = n]

\* migrate.New and Up: the lock comes first.
Call(i) ==
    /\ up[i] = "idle"
    /\ Goto(i, "lock")
    /\ UNCHANGED <<holder, databaseVars, file>>

Lock(i) ==
    /\ up[i] = "lock"
    /\ holder = Nobody
    /\ holder' = i
    /\ Goto(i, "look")
    /\ UNCHANGED <<databaseVars, file>>

\* Up returns, with the lock given back.
Leave(i, res) ==
    /\ holder' = IF holder = i THEN Nobody ELSE holder
    /\ At(i, 0)
    /\ Goto(i, res)

(* Definitions called ...Mutant are plausible bugs that PROJECT.json sets   *)
(* against the properties; the model never uses them.                       *)

\* ErrNoChange is an error like any other.
NoChangeMutant(i) ==
    /\ up[i] = "look"
    /\ ~dirty
    /\ version = Files
    /\ Leave(i, "err")
    /\ UNCHANGED databaseVars

\* Nothing is to be done: ErrNoChange, which RunMigrations does not take for an error.
NoChange(i) ==
    /\ up[i] = "look"
    /\ ~dirty
    /\ version = Files
    /\ Leave(i, "ok")
    /\ UNCHANGED databaseVars

\* On ErrDirty the version is forced, and Up is called again.
RefuseMutant(i) ==
    /\ up[i] = "look"
    /\ dirty
    /\ dirty' = FALSE
    /\ UNCHANGED <<holder, version, ran, up, file>>

\* ErrDirty: a file of an earlier run did not get through.
Refuse(i) ==
    /\ up[i] = "look"
    /\ dirty
    /\ Leave(i, "err")
    /\ UNCHANGED databaseVars

\* The files after the version that is found are to run.
Look(i) ==
    /\ up[i] = "look"
    /\ ~dirty
    /\ version < Files
    /\ At(i, version + 1)
    /\ Goto(i, "begin")
    /\ UNCHANGED <<holder, databaseVars>>

\* The version is noted, dirty, before its file runs.
Begin(i) ==
    /\ up[i] = "begin"
    /\ version' = file[i]
    /\ dirty' = TRUE
    /\ Goto(i, "apply")
    /\ UNCHANGED <<holder, ran, file>>

Execute(i) == ran' = Append(ran, file[i])

Apply(i) ==
    /\ up[i] = "apply"
    /\ Execute(i)
    /\ Goto(i, "clean")
    /\ UNCHANGED <<holder, version, dirty, file>>

SetClean(i) ==
    /\ up[i] = "clean"
    /\ version' = file[i]
    /\ dirty' = FALSE
    /\ UNCHANGED ran

Clean(i) ==
    /\ SetClean(i)
    /\ file[i] < Files
    /\ At(i, file[i] + 1)
    /\ Goto(i, "begin")
    /\ UNCHANGED holder

\* After the last file Up returns.
CleanLast(i) ==
    /\ SetClean(i)
    /\ file[i] = Files
    /\ Leave(i, "ok")

\* The lock takes too long, or the database answers with an error.
Fail(i) ==
    /\ up[i] \in {"lock", "look", "begin", "apply", "clean"}
    /\ Leave(i, "err")
    /\ UNCHANGED databaseVars

\* i is gone, and Postgres closes its connection: the lock is free again. A file
\* that was under way has been executed, or not.
Die(i) ==
    /\ Leave(i, "idle")
    /\ \/ UNCHANGED ran
       \/ up[i] = "apply" /\ Execute(i)
    /\ UNCHANGED <<version, dirty>>

Step(i) == Lock(i) \/ Look(i) \/ NoChange(i) \/ Refuse(i) \/ Begin(i)
           \/ Apply(i) \/ Clean(i) \/ CleanLast(i)

------------------------------------------------------------------------------
TypeOK ==
    /\ holder \in Instances \union {Nobody}
    /\ version \in 0 .. Files
    /\ dirty \in BOOLEAN
    /\ ran \in Seq(1 .. Files)
    /\ up \in [Instances -> {"idle", "lock", "look", "begin", "apply", "clean", "ok", "err"}]
    /\ file \in [Instances -> 0 .. Files]

\* All instances that migrate hold the lock.
Excluded == \A i \in Instances : up[i] \in {"look", "begin", "apply", "clean"} => holder = i

(* The version tells the truth: whoever migrates, fails or dies, and at     *)
(* whatever point, every file has run at most once and after the ones       *)
(* before it, and a clean version is that of the last file that has run.    *)
VersionTellsTruth ==
    /\ \A n \in DOMAIN ran : ran[n] = n
    /\ dirty => version - Len(ran) \in {0, 1}
    /\ ~dirty => version = Len(ran)
=============================================================================
