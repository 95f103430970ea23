---------------------------- MODULE ServerProcess ----------------------------
(***************************************************************************)
(* The life of the API process, beside other replicas of it and the        *)
(* command that migrates the schema.  A replica opens the database,        *)
(* applies the migrations it was built with, starts its modules and their  *)
(* schedulers, serves, and on the way out gives up what it holds in the    *)
(* order of shutdownResources and of the deferred calls of run.  The       *)
(* migration library locks the database, and marks the version it works on *)
(* dirty until the file has run.                                           *)
(***************************************************************************)
EXTENDS Integers, FiniteSets

CONSTANTS
    Replicas,      \* processes of the API
    Latest,        \* the last migration a replica was built with, by replica
    MaxVersion,    \* the last migration of all
    MaxStarts,   \* bound: starts of replicas
    MaxOperations, \* bound: operations of the migrate command
    Operator       \* the migrate command

NoMigrator == "nobody"

ASSUME ServerAssumption ==
    /\ MaxVersion \in Nat \ {0}
    /\ Latest \in [Replicas -> 1 .. MaxVersion]
    /\ Operator \notin Replicas
    /\ NoMigrator \notin Replicas \cup {Operator}
    /\ MaxStarts \in Nat /\ MaxOperations \in Nat

VARIABLES
    version,   \* schema_migrations: the version ...
    dirty,     \* ... and whether its file is being run, or was left half-way
    built,     \* migrations whose file has run
    forced,    \* the version was set by hand
    migrator,  \* who holds the lock of the migrations
    replica,   \* the replicas
    starts,    \* starts of replicas so far
    operations \* operations of the migrate command so far

serverVars == <<version, dirty, built, forced, migrator, replica, starts,
                operations>>

------------------------------------------------------------------------------

Versions == 1 .. MaxVersion

ServerPhases == {"down", "open", "check", "apply", "run", "load", "serve",
                 "drain", "release", "unwind"}
Replica == [at : ServerPhases, db : {"closed", "open"}, scheduler : {"off", "on"},
            job : {"none", "running", "cut"}, requests : {"none", "some"},
            seen : 0 .. MaxVersion,       \* the version it went on with
            hurried : {"no", "yes"},      \* its migrations were skipped or stopped
            leaving : {"no", "signal", "error", "impatient"}]

DownReplica ==
    [at |-> "down", db |-> "closed", scheduler |-> "off",
     job |-> "none", requests |-> "none", seen |-> 0, hurried |-> "no", leaving |-> "no"]

At(p, phase) == replica[p].at = phase
EnterPhase(p, phase) == replica' = [replica EXCEPT ![p].at = phase]
SchemaUnchanged == UNCHANGED <<version, dirty, built, forced>>

\* run returns an error: what was deferred so far runs.
RunFails(p) ==
    replica' = [replica EXCEPT ![p].at = "unwind", ![p].leaving = "error"]

------------------------------------------------------------------------------
(* Start *)

OpenDatabase(p) ==
    /\ At(p, "down")
    /\ starts < MaxStarts
    /\ starts' = starts + 1
    /\ replica' = [replica EXCEPT ![p] =
         [DownReplica EXCEPT !.at = "open", !.db = "open"]]
    /\ SchemaUnchanged
    /\ UNCHANGED <<migrator, operations>>

\* Migrations are switched off by DB_MIGRATIONS_ENABLED.
SkipMigrations(p) ==
    /\ At(p, "open")
    /\ replica' = [replica EXCEPT ![p].at = "load", ![p].seen = version, ![p].hurried = "yes"]
    /\ SchemaUnchanged
    /\ UNCHANGED <<migrator, starts, operations>>

LockMigrations(p) ==
    /\ At(p, "open")
    /\ migrator = NoMigrator
    /\ migrator' = p
    /\ EnterPhase(p, "check")
    /\ SchemaUnchanged
    /\ UNCHANGED <<starts, operations>>

\* Up goes on from a version it has files for; of any other it reports that
\* the file to read is missing.
Known(p) == version \in 0 .. Latest[p]

\* Mutant: the missing file is tolerated whatever the version is.
ToleratedAny(p) == dirty = FALSE /\ version # 0

\* tolerateMissingCurrentDownMigrationError
Tolerated(p) == dirty = FALSE /\ version = Latest[p]

Released(p) == migrator' = NoMigrator

GoesOn(p) ==
    replica' = [replica EXCEPT ![p].at = "load", ![p].seen = version]

\* A dirty version is an error, and so is an unknown one, or one whose down
\* file is missing, unless it is tolerated; at the latest version there is
\* nothing to do.
CheckVersion(p) ==
    /\ At(p, "check")
    /\ \/ /\ dirty = FALSE
          /\ version \in 0 .. Latest[p] - 1
          /\ EnterPhase(p, "apply")
          /\ UNCHANGED migrator
       \/ /\ dirty = FALSE
          /\ version = Latest[p]
          /\ GoesOn(p)
          /\ Released(p)
       \/ /\ ~Known(p) \/ dirty \/ version = Latest[p]
          /\ IF Tolerated(p) THEN GoesOn(p) ELSE RunFails(p)
          /\ Released(p)
    /\ SchemaUnchanged
    /\ UNCHANGED <<starts, operations>>

\* Each file runs between two writes of the version.
BeginMigration(p) ==
    /\ At(p, "apply")
    /\ version < Latest[p]
    /\ version' = version + 1
    /\ dirty' = TRUE
    /\ EnterPhase(p, "run")
    /\ UNCHANGED <<built, forced, migrator, starts, operations>>

FinishMigration(p) ==
    /\ At(p, "run")
    /\ built' = built \cup {version}
    /\ dirty' = FALSE
    /\ EnterPhase(p, "apply")
    /\ UNCHANGED <<version, forced, migrator, starts, operations>>

\* A statement fails: the version stays dirty.
FailMigration(p) ==
    /\ At(p, "run")
    /\ RunFails(p)
    /\ Released(p)
    /\ SchemaUnchanged
    /\ UNCHANGED <<starts, operations>>

EndMigrations(p) ==
    /\ At(p, "apply")
    /\ version = Latest[p]
    /\ GoesOn(p)
    /\ Released(p)
    /\ SchemaUnchanged
    /\ UNCHANGED <<starts, operations>>

\* The time is up, or the process is told to stop, before the next file: Up
\* stops there and reports success.
StopMigrations(p) ==
    /\ At(p, "apply")
    /\ version < Latest[p]
    /\ replica' = [replica EXCEPT ![p].at = "load", ![p].seen = version, ![p].hurried = "yes"]
    /\ Released(p)
    /\ SchemaUnchanged
    /\ UNCHANGED <<starts, operations>>

\* Modules are loaded and started one after the other; the ones started have
\* their Stop deferred, and one that fails ends the start.
StartScheduler(p) ==
    /\ At(p, "load")
    /\ replica[p].scheduler = "off"
    /\ replica' = [replica EXCEPT ![p].scheduler = "on"]
    /\ SchemaUnchanged
    /\ UNCHANGED <<migrator, starts, operations>>

FailStart(p) ==
    /\ replica[p].at \in {"open", "load"}
    /\ RunFails(p)
    /\ SchemaUnchanged
    /\ UNCHANGED <<migrator, starts, operations>>

Serve(p) ==
    /\ At(p, "load")
    /\ replica[p].scheduler = "on"
    /\ EnterPhase(p, "serve")
    /\ SchemaUnchanged
    /\ UNCHANGED <<migrator, starts, operations>>

------------------------------------------------------------------------------
(* Work *)

\* cron runs a job of a module; the scheduler may be on while the database is
\* closed already.
RunJob(p) ==
    /\ replica[p].scheduler = "on"
    /\ replica[p].job = "none"
    /\ replica' = [replica EXCEPT ![p].job = "running"]
    /\ SchemaUnchanged
    /\ UNCHANGED <<migrator, starts, operations>>

\* A job that meets a closed database fails in the middle of what it does.
EndJob(p) ==
    /\ replica[p].job = "running"
    /\ replica' = [replica EXCEPT ![p].job = IF replica[p].db = "open" THEN "none" ELSE "cut"]
    /\ SchemaUnchanged
    /\ UNCHANGED <<migrator, starts, operations>>

Request(p) ==
    /\ At(p, "serve")
    /\ replica' = [replica EXCEPT ![p].requests = IF @ = "none" THEN "some" ELSE "none"]
    /\ SchemaUnchanged
    /\ UNCHANGED <<migrator, starts, operations>>

------------------------------------------------------------------------------
(* End *)

\* waitForShutdown: a signal, or an error of the server or of the router.
Leave(p) ==
    /\ At(p, "serve")
    /\ \/ replica' = [replica EXCEPT ![p].at = "drain", ![p].leaving = "signal"]
       \/ RunFails(p)
    /\ SchemaUnchanged
    /\ UNCHANGED <<migrator, starts, operations>>

\* shutdownResources waits for the requests for five seconds; when they are up
\* it returns an error, and the rest is left to the deferred calls.
Drain(p) ==
    /\ At(p, "drain")
    /\ \/ replica' = [replica EXCEPT ![p].at = "release", ![p].requests = "none"]
       \/ replica[p].requests = "some" /\ RunFails(p)
    /\ SchemaUnchanged
    /\ UNCHANGED <<migrator, starts, operations>>

\* Messaging and the database are closed; closing messaging may fail.
ReleaseResources(p) ==
    /\ At(p, "release")
    /\ \/ replica' = [replica EXCEPT ![p].at = "unwind", ![p].db = "closed"]
       \/ RunFails(p)
    /\ SchemaUnchanged
    /\ UNCHANGED <<migrator, starts, operations>>

\* The deferred calls, last first: Stop of the modules, which waits for a
\* running job, for five seconds at most; then the database.
StopScheduler(p) ==
    /\ At(p, "unwind")
    /\ replica[p].scheduler = "on"
    /\ replica' = [replica EXCEPT
          ![p].scheduler = "off",
          ![p].leaving = IF replica[p].job = "running" THEN "impatient" ELSE @]
    /\ SchemaUnchanged
    /\ UNCHANGED <<migrator, starts, operations>>

CloseDatabase(p) ==
    /\ At(p, "unwind")
    /\ replica[p].scheduler = "off"
    /\ replica[p].db = "open"
    /\ replica' = [replica EXCEPT ![p].db = "closed"]
    /\ SchemaUnchanged
    /\ UNCHANGED <<migrator, starts, operations>>

Exit(p) ==
    /\ At(p, "unwind")
    /\ replica[p].scheduler = "off"
    /\ replica[p].db = "closed"
    /\ replica' = [replica EXCEPT ![p] = DownReplica]
    /\ SchemaUnchanged
    /\ UNCHANGED <<migrator, starts, operations>>

\* The process dies; its connection, and the lock with it, are gone.
Die(p) ==
    /\ ~At(p, "down")
    /\ replica' = [replica EXCEPT ![p] = DownReplica]
    /\ migrator' = IF migrator = p THEN NoMigrator ELSE migrator
    /\ SchemaUnchanged
    /\ UNCHANGED <<starts, operations>>

------------------------------------------------------------------------------
(* The migrate command *)

OperatorMay == operations < MaxOperations

\* down: the version is set to the one below, dirty until the file has run.
BeginDown ==
    /\ OperatorMay
    /\ migrator = NoMigrator
    /\ dirty = FALSE
    /\ version \in Versions
    /\ migrator' = Operator
    /\ version' = version - 1
    /\ dirty' = TRUE
    /\ operations' = operations + 1
    /\ UNCHANGED <<built, forced, replica, starts>>

\* The file runs, or fails, or the command dies.
EndDown ==
    /\ migrator = Operator
    /\ \/ built' = built \ {version + 1} /\ dirty' = FALSE
       \/ UNCHANGED <<built, dirty>>
    /\ migrator' = NoMigrator
    /\ UNCHANGED <<version, forced, replica, starts, operations>>

\* force: whatever the schema is.
ForceVersion(v) ==
    /\ OperatorMay
    /\ migrator = NoMigrator
    /\ version' = v
    /\ dirty' = FALSE
    /\ forced' = TRUE
    /\ operations' = operations + 1
    /\ UNCHANGED <<built, migrator, replica, starts>>

------------------------------------------------------------------------------

ServerInit ==
    /\ version = 0
    /\ dirty = FALSE
    /\ built = {}
    /\ forced = FALSE
    /\ migrator = NoMigrator
    /\ replica = [p \in Replicas |-> DownReplica]
    /\ starts = 0
    /\ operations = 0

ServerNext ==
    \/ \E p \in Replicas :
         \/ OpenDatabase(p) \/ SkipMigrations(p) \/ LockMigrations(p) \/ CheckVersion(p)
         \/ BeginMigration(p) \/ FinishMigration(p) \/ FailMigration(p)
         \/ EndMigrations(p) \/ StopMigrations(p)
         \/ StartScheduler(p) \/ FailStart(p) \/ Serve(p)
         \/ RunJob(p) \/ EndJob(p) \/ Request(p)
         \/ Leave(p) \/ Drain(p) \/ ReleaseResources(p)
         \/ StopScheduler(p) \/ CloseDatabase(p) \/ Exit(p) \/ Die(p)
    \/ BeginDown \/ EndDown
    \/ \E v \in 0 .. MaxVersion : ForceVersion(v)

ServerSpec == ServerInit /\ [][ServerNext]_serverVars

------------------------------------------------------------------------------
(* Properties *)

ServerTypes ==
    /\ version \in 0 .. MaxVersion
    /\ dirty \in BOOLEAN
    /\ built \subseteq Versions
    /\ forced \in BOOLEAN
    /\ migrator \in Replicas \cup {NoMigrator, Operator}
    /\ replica \in [Replicas -> Replica]
    /\ starts \in 0 .. MaxStarts
    /\ operations \in 0 .. MaxOperations

\* Unless it was set by hand, a clean version is what the schema is: replicas
\* that start together, die or fail in the middle of a file and are started
\* again, and migrations taken back leave no gap and nothing beyond it
\* (runner.go, runOperation).
VersionTellsTruth == (~forced /\ ~dirty) => built = 1 .. version

\* A replica goes on to serve with the schema it was built for, whatever other
\* replicas were built with, unless its migrations were switched off or
\* stopped by their timeout (runner.go, Run).
ServesItsSchema ==
    \A p \in Replicas :
        (replica[p].at \in {"load", "serve", "drain", "release"} /\ replica[p].hurried = "no")
            => replica[p].seen = Latest[p]

\* On the way out of a start that failed or a server that broke, a job loses
\* its database only when Stop has lost patience with it (main.go, the
\* deferred calls of run); a signal closes the database first.
JobsKeepDatabase ==
    \A p \in Replicas :
        (replica[p].job # "none" /\ replica[p].db = "closed")
            => replica[p].leaving \in {"signal", "impatient"}

ServerSafety == ServerTypes /\ VersionTellsTruth /\ ServesItsSchema /\ JobsKeepDatabase

------------------------------------------------------------------------------
(* The inductive invariant behind ServerSafety. *)

Migrating == {"check", "apply", "run"}

\* What replica p may be like.
VersionFits(p, r) ==
    /\ r.at \notin {"down", "unwind"} => r.db = "open"
    /\ r.at \in {"load", "serve", "drain", "release"} /\ r.hurried = "no" => r.seen = Latest[p]
    /\ r.at \in {"drain", "release"} => r.leaving = "signal"
    /\ r.scheduler = "on" /\ r.db = "closed" => r.leaving = "signal"
    /\ r.scheduler = "off" /\ r.job = "running" => r.at = "unwind" /\ r.leaving = "impatient"
    /\ r.job = "cut" => r.db = "closed" /\ r.leaving \in {"signal", "impatient"}

\* Who works on the schema holds the lock, and knows what was done to it.
MigrationLocked(p) ==
    /\ replica[p].at \in Migrating => migrator = p
    /\ At(p, "apply") => dirty = FALSE
    /\ At(p, "run") =>
         dirty = TRUE /\ version \in Versions /\ (~forced => built = 1 .. version - 1)

OperatorHolds ==
    migrator = Operator =>
        dirty = TRUE /\ version + 1 \in Versions /\ (~forced => built = 1 .. version + 1)

ServerInv ==
    /\ ServerTypes /\ VersionTellsTruth /\ OperatorHolds
    /\ \A p \in Replicas : VersionFits(p, replica[p]) /\ MigrationLocked(p)
==============================================================================
