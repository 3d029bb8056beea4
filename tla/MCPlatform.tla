------------------------------- MODULE MCPlatform -------------------------------
(***************************************************************************)
(* What every handler stands on, for TLC: the two database drivers, how    *)
(* the two databases are brought up to date, and how a server process      *)
(* starts to listen and shuts down.  The configuration picks one driver    *)
(* when the process starts, and the rest shares no state with it, so each  *)
(* is explored alone, the others at their start.  A part stands for one of *)
(* them under one way in which its environment may behave.                 *)
(***************************************************************************)
EXTENDS SqliteDb, SequencesExt

CONSTANTS
    Parts,
    PoolMax, MaxBreaks,                             \* PgPool
    Servers, Scripts, Editable, NoRunner,           \* migrate, Postgres
    Processes,                                      \* migrate, SQLite
    Handlers,                                       \* the server process
    TextMax                                         \* toPg

VARIABLES
    part,
    pPc, conn, pAt, pReply, txn, pPending, dead, pStored, unsure, breaks,  \* PgPool
    sql, i, index, quote, output,                                       \* toPg
    ledger, ran, lock, edited, mPc, mAt, rows, effects,                 \* migrate, Postgres
    columns, unique, uPc, known, next,                                  \* migrate, SQLite
    phase, shuttingDown, exitWith, timer, exitCode, client, work, storeOpen, dbOpen

\* A pool of several connections, and of one.
Pool == INSTANCE PgPool WITH
    pc <- pPc, at <- pAt, reply <- pReply, pending <- pPending, stored <- pStored
Single == INSTANCE PgPool WITH
    PoolMax <- 1, MaxBreaks <- 1,
    pc <- pPc, at <- pAt, reply <- pReply, pending <- pPending, stored <- pStored

\* Every text of up to TextMax characters.
ToPg == INSTANCE Placeholders WITH Statements <- BoundedSeq({"'", "\"", "?", "x"}, TextMax)

\* Releases with an edited migration and crashes, and replicas of one release.
Schema == INSTANCE Migrations WITH pc <- mPc, at <- mAt

\* A new file, files of releases before the columns of AddedList, and the file
\* of tests/sqlite-migration.test.ts.
OrdersBefore == {"payload", "telegram_charge_id", "fulfilled_at", "refund_reason",
                 "refunded_at"}
Files == {{}, {"payload", "token_hash"}, OrdersBefore, {"payload"}}

File == INSTANCE SqliteUpgrade WITH Starts <- Files, pc <- uPc

\* Clients that may leave before they are answered, and clients that stay.
Server == INSTANCE Lifecycle WITH conn <- client

ASSUME PlatformAssumption ==
    /\ Pool!PgAssumption /\ Schema!MigrationsAssumption /\ File!UpgradeAssumption
    /\ TextMax \in Nat

chain    == vars
pool     == <<pPc, conn, pAt, pReply, txn, pPending, dead, pStored, unsure, breaks>>
text     == <<sql, i, index, quote, output>>
postgres == <<ledger, ran, lock, edited, mPc, mAt, rows, effects>>
sqlite   == <<columns, unique, uPc, known, next>>
process  == <<phase, shuttingDown, exitWith, timer, exitCode, client, work, storeOpen,
              dbOpen>>
all      == <<part, chain, pool, text, postgres, sqlite, process>>

\* Idle parts start where there is one way to start.
MCInit ==
    /\ part \in Parts
    /\ Init
    /\ IF part = "single" THEN Single!Init ELSE Pool!Init
    /\ IF part = "text" THEN ToPg!Init ELSE sql = << >> /\ ToPg!Init
    /\ Schema!Init /\ File!Init /\ Server!Init
    /\ part # "releases" => \A r \in Schema!Runners : edited[r] = {}
    /\ part \notin {"releases", "replicas"} => ledger["001_initial"] = "absent"
    /\ part \notin {"dying", "racing"} => columns = {}

SqliteNext ==
    /\ part = "sqlite" /\ Next
    /\ UNCHANGED <<part, pool, text, postgres, sqlite, process>>

PgNext ==
    /\ \/ part = "pool" /\ Pool!Next
       \/ part = "single" /\ Single!Next
    /\ UNCHANGED <<part, chain, text, postgres, sqlite, process>>

TextNext ==
    /\ part = "text" /\ ToPg!Next
    /\ UNCHANGED <<part, chain, pool, postgres, sqlite, process>>

MigrateNext ==
    /\ \/ part = "releases" /\ Schema!Next
       \/ part = "replicas" /\ Schema!Running
    /\ UNCHANGED <<part, chain, pool, text, sqlite, process>>

UpgradeNext ==
    /\ \/ part = "dying" /\ File!Next
       \/ part = "racing" /\ File!Running
    /\ UNCHANGED <<part, chain, pool, text, postgres, process>>

ProcessNext ==
    /\ \/ part = "leaving" /\ Server!Next
       \/ part = "staying" /\ Server!Staying
    /\ UNCHANGED <<part, chain, pool, text, postgres, sqlite>>

MCNext == SqliteNext \/ PgNext \/ TextNext \/ MigrateNext \/ UpgradeNext \/ ProcessNext

\* The fairness of SqliteDb, PgPool, Migrations, SqliteUpgrade and Lifecycle.
MCFairness ==
    /\ \A c \in Calls : WF_chain(part = "sqlite" /\ Progress(c))
    /\ \A c \in Single!Calls :
        /\ WF_pool(part = "single" /\ Single!Run(c))
        /\ SF_pool(part = "single" /\ (Single!Connect(c) \/ Single!ConnectTimesOut(c)))
    /\ \A r \in Schema!Runners :
        /\ WF_postgres(part = "replicas" /\ Schema!Step(r))
        /\ SF_postgres(part = "replicas" /\ Schema!Lock(r))
    /\ \A p \in Processes : WF_sqlite(part = "racing" /\ File!Run(p))
    /\ WF_process(part = "leaving" /\ Server!Forced)

MCSpec == MCInit /\ [][MCNext]_all /\ MCFairness

-------------------------------------------------------------------------------
\* No connection goes back to the pool inside a transaction (PgDb.transaction).
CleanConnections ==
    IF part = "single" THEN Single!CleanConnections ELSE Pool!CleanConnections

\* With one connection that breaks every call still ends (PgDb.transaction).
PgCallsEnd == part = "single" => Single!CallsEnd

\* The markers outside quotes become $1, $2, ..., and nothing else (toPg).
PlaceholdersNumbered == ToPg!TypeOK /\ ToPg!PlaceholdersNumbered

\* The ledger records exactly the migrations whose statements were executed
\* (runMigrations, runPostgresMigrations).
LedgerMatchesSchema == Schema!LedgerMatchesSchema

\* A runner that ends well had no recorded file edited (checksum mismatch).
SuccessMeansUnchanged == Schema!SuccessMeansUnchanged

\* Replicas of one release that start together fail none of each other
\* (pg_advisory_lock).
ReplicasDoNotCollide == part = "replicas" => Schema!ReplicasDoNotCollide

\* Replicas that live all end (pg_advisory_lock, the finally block).
RunnersEnd == part = "replicas" => Schema!RunnersEnd

\* An upgrade that ends well leaves every column and the index, whatever the
\* runs before it died at (migrate).
EndsUpgraded == File!EndsUpgraded

\* An upgrade fails only in a race with another process (migrate).
OnlyRacesFail == File!OnlyRacesFail

\* Processes that race for one file all get it upgraded (migrate).
UpgradeEnds == part = "racing" => File!UpgradeEnds

\* The stores stay open while a client waits for its answer (shutdown).
AnsweredBeforeClose == Server!AnsweredBeforeClose

\* A signalled process ends, however its callbacks fare (forceExit).
ShutdownEnds == part = "leaving" => Server!ShutdownEnds

\* While clients stay, exit code 0 means that every handler had ended.
CleanExitIsClean == part = "staying" => Server!CleanExitIsClean

\* The PostgreSQL driver carries out each statement and each transaction whole
\* or not at all, and its answer is true unless the connection broke (DbClient:
\* PgDb; ContractSpec says it of SQLite).
PoolContract == Pool!ContractSpec

\* What is borrowed from the pool carries nothing of who had it before,
\* whichever statements fail and connections die (PgDb.transaction).
PoolIsSound ==
    /\ IF part = "single" THEN Single!TypeOK ELSE Pool!TypeOK
    /\ CleanConnections

\* However runners of releases overlap and die, the ledger tells the truth,
\* success means an unedited history, and replicas do not collide; and the
\* column-by-column upgrade of SQLite may break off anywhere, for the next run
\* that ends well has repaired the file (migrate).
SchemaIsSound ==
    /\ Schema!TypeOK
    /\ LedgerMatchesSchema
    /\ SuccessMeansUnchanged
    /\ ReplicasDoNotCollide
    /\ File!TypeOK
    /\ EndsUpgraded
    /\ OnlyRacesFail

\* A shutdown cuts off no client that waits, and calls itself clean only when
\* nothing was left running or open (shutdown).
ShutdownIsSound ==
    /\ Server!TypeOK
    /\ AnsweredBeforeClose
    /\ CleanExitIsClean

\* Nobody waits for ever: neither for the mutex, nor for a connection, nor for
\* the migration lock, nor for a raced file, nor for a shutdown (Mutex,
\* PgDb.transaction, pg_advisory_xact_lock, migrate, forceExit).
PlatformEnds ==
    /\ part = "sqlite" => CallsEnd
    /\ PgCallsEnd
    /\ RunnersEnd
    /\ UpgradeEnds
    /\ ShutdownEnds
===============================================================================
