------------------------------- MODULE Lifecycle -------------------------------
(***************************************************************************)
(* One run of the server process, from start() to exit (server/index.ts,   *)
(* closeRuntimeResources of server/app.ts): migrations, listening, the     *)
(* requests in flight, and a shutdown that several signals and errors may  *)
(* ask for.                                                                *)
(*                                                                         *)
(* The http server's close event comes when the last connection is gone.   *)
(* A handler is an async function of its own: it goes on when its client   *)
(* leaves, and nothing but the connection makes the shutdown wait for it.  *)
(* Logging is left out; the store is Redis or memory, the database is the  *)
(* Postgres pool or SQLite.  Definitions named X_Fault are faulty variants *)
(* of X, used by no action.                                                *)
(***************************************************************************)
EXTENDS Naturals

CONSTANT Handlers   \* requests

VARIABLES
    phase,          \* migrating, admins, listening, draining, closing store,
                    \* closing db, stopping telemetry, stuck, exited
    shuttingDown,
    exitWith,       \* the exitCode argument of the shutdown under way
    timer,          \* the 10 s timer: off, armed
    exitCode,       \* 0 or 1 once exited, 2 before
    conn,           \* per request: none, open, gone
    work,           \* per request: none, running, done
    storeOpen, dbOpen

vars == <<phase, shuttingDown, exitWith, timer, exitCode, conn, work, storeOpen, dbOpen>>

Init ==
    /\ phase = "migrating"
    /\ shuttingDown = FALSE
    /\ exitWith = 0
    /\ timer = "off"
    /\ exitCode = 2
    /\ conn = [h \in Handlers |-> "none"]
    /\ work = [h \in Handlers |-> "none"]
    /\ storeOpen = TRUE
    /\ dbOpen = TRUE

Alive == phase # "exited"
Served == phase \notin {"migrating", "admins", "exited"}

\* process.exit: handlers stop where they are.
Exit(code) ==
    /\ phase' = "exited"
    /\ exitCode' = code

-------------------------------------------------------------------------------
(* start *)

Migrated ==
    /\ phase = "migrating"
    /\ phase' = "admins"
    /\ UNCHANGED <<shuttingDown, exitWith, timer, exitCode, conn, work, storeOpen, dbOpen>>

\* bootstrapAdmins or the fixtures are in place, createApp, listen.
Listen ==
    /\ phase = "admins"
    /\ phase' = "listening"
    /\ UNCHANGED <<shuttingDown, exitWith, timer, exitCode, conn, work, storeOpen, dbOpen>>

\* The catch of start().
StartFails ==
    /\ phase \in {"migrating", "admins"}
    /\ Exit(1)
    /\ UNCHANGED <<shuttingDown, exitWith, timer, conn, work, storeOpen, dbOpen>>

-------------------------------------------------------------------------------
(* Requests *)

\* While draining, only over a connection that is still open.
Accept(h) ==
    /\ phase = "listening" \/ (phase = "draining" /\ \E k \in Handlers : conn[k] = "open")
    /\ conn[h] = "none"
    /\ conn' = [conn EXCEPT ![h] = "open"]
    /\ work' = [work EXCEPT ![h] = "running"]
    /\ UNCHANGED <<phase, shuttingDown, exitWith, timer, exitCode, storeOpen, dbOpen>>

\* The handler answers, if there is anyone to answer to, and returns.  An idle
\* connection does not hold up the close event.
Finish(h) ==
    /\ Served
    /\ work[h] = "running"
    /\ work' = [work EXCEPT ![h] = "done"]
    /\ conn' = [conn EXCEPT ![h] = "gone"]
    /\ UNCHANGED <<phase, shuttingDown, exitWith, timer, exitCode, storeOpen, dbOpen>>

\* The client is gone, or the 30 s of req.setTimeout are over.
ClientLeaves(h) ==
    /\ Served
    /\ conn[h] = "open"
    /\ conn' = [conn EXCEPT ![h] = "gone"]
    /\ UNCHANGED <<phase, shuttingDown, exitWith, timer, exitCode, work, storeOpen, dbOpen>>

-------------------------------------------------------------------------------
(* shutdown *)

ArmTimer == timer' = "armed"

\* The first signal, uncaught exception or unhandled rejection.  Later ones,
\* rejections of the shutdown itself among them, return at once.
Shutdown(code) ==
    /\ Served
    /\ ~shuttingDown
    /\ shuttingDown' = TRUE
    /\ exitWith' = code
    /\ ArmTimer
    /\ phase' = "draining"
    /\ UNCHANGED <<exitCode, conn, work, storeOpen, dbOpen>>

Drained_AtOnce == TRUE
Drained == \A h \in Handlers : conn[h] # "open"

\* The callback of server.close.
CloseEvent ==
    /\ phase = "draining"
    /\ Drained
    /\ phase' = "closing store"
    /\ UNCHANGED <<shuttingDown, exitWith, timer, exitCode, conn, work, storeOpen, dbOpen>>

\* closeRuntimeResources: allSettled, so errors do not stop it.
StoreClosed ==
    /\ phase = "closing store"
    /\ storeOpen' = FALSE
    /\ phase' = "closing db"
    /\ UNCHANGED <<shuttingDown, exitWith, timer, exitCode, conn, work, dbOpen>>

DbClosed ==
    /\ phase = "closing db"
    /\ dbOpen' = FALSE
    /\ phase' = "stopping telemetry"
    /\ UNCHANGED <<shuttingDown, exitWith, timer, exitCode, conn, work, storeOpen>>

\* closeDb rejects: an unhandled rejection, whose own shutdown is refused.
DbCloseFails ==
    /\ phase = "closing db"
    /\ phase' = "stuck"
    /\ UNCHANGED <<shuttingDown, exitWith, timer, exitCode, conn, work, storeOpen, dbOpen>>

TelemetryStopped ==
    /\ phase = "stopping telemetry"
    /\ timer' = "off"
    /\ Exit(exitWith)
    /\ UNCHANGED <<shuttingDown, exitWith, conn, work, storeOpen, dbOpen>>

ForcedCode == 1

\* Ten seconds have passed.
Forced ==
    /\ Alive
    /\ timer = "armed"
    /\ timer' = "off"
    /\ Exit(ForcedCode)
    /\ UNCHANGED <<shuttingDown, exitWith, conn, work, storeOpen, dbOpen>>

-------------------------------------------------------------------------------
\* Clients stay until they are answered; or they do not.
Staying ==
    \/ Migrated \/ Listen \/ StartFails
    \/ \E h \in Handlers : Accept(h) \/ Finish(h)
    \/ \E code \in {0, 1} : Shutdown(code)
    \/ CloseEvent \/ StoreClosed \/ DbClosed \/ DbCloseFails \/ TelemetryStopped
    \/ Forced

Next == Staying \/ \E h \in Handlers : ClientLeaves(h)

Spec == Init /\ [][Next]_vars

\* Only the timer is sure to come: handlers, clients, Redis, the database and
\* the telemetry exporter may all hang.
FairSpec == Spec /\ WF_vars(Forced)

-------------------------------------------------------------------------------
(* Properties *)

\* Every variable holds a value the code can give it; the timer runs while
\* the process is shutting down.
TypeOK ==
    /\ phase \in {"migrating", "admins", "listening", "draining", "closing store", "closing db",
                  "stopping telemetry", "stuck", "exited"}
    /\ shuttingDown \in BOOLEAN
    /\ exitWith \in {0, 1}
    /\ exitCode \in {0, 1, 2}
    /\ exitCode = 2 <=> Alive
    /\ timer \in {"off", "armed"}
    /\ timer = "armed" <=> shuttingDown /\ Alive
    /\ conn \in [Handlers -> {"none", "open", "gone"}]
    /\ work \in [Handlers -> {"none", "running", "done"}]
    /\ storeOpen \in BOOLEAN
    /\ dbOpen \in BOOLEAN

\* While its client is there a request never meets a closed store or database:
\* the shutdown waits for it.
AnsweredBeforeClose ==
    \A h \in Handlers : conn[h] = "open" => storeOpen /\ dbOpen

\* A shutdown that has begun ends the process, whatever hangs.
ShutdownEnds == shuttingDown ~> ~Alive

\* Exit code 0 and 'shutdown_completed' mean that every request taken was
\* served to its end and everything was closed.
CleanExitIsClean ==
    exitCode = 0 =>
        /\ \A h \in Handlers : work[h] # "running"
        /\ ~storeOpen
        /\ ~dbOpen
===============================================================================
