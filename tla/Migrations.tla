------------------------------- MODULE Migrations -------------------------------
(***************************************************************************)
(* Bringing the Postgres schema up to date: migrate() of every server that *)
(* starts (server/db.ts) and `npm run db:migrate` (scripts/db.mjs), which  *)
(* may all run at once against one database.                               *)
(*                                                                         *)
(* Each runner has one transaction: it takes an advisory lock, goes        *)
(* through its list of migrations, compares or records a checksum for each *)
(* and runs the SQL of those the ledger schema_migrations lacks.  The text *)
(* of a migration stands for its SHA-256.  A runner may be of a release    *)
(* whose file was edited.  Definitions named X_Fault are faulty variants   *)
(* of X, used by no action.                                                *)
(***************************************************************************)
EXTENDS Naturals, Sequences, SequencesExt

CONSTANTS
    Servers,        \* processes running server/index.ts
    Scripts,        \* runs of npm run db:migrate
    Editable,       \* versions whose file some releases have edited
    NoRunner

Runners == Servers \cup Scripts

MigrationsAssumption ==
    /\ Servers \cap Scripts = {}
    /\ NoRunner \notin Runners

ServerList == <<"001_initial", "002_delivery_refund_state_machines",
                "003_catalog_trigram_search", "004_catalog_sort_indexes",
                "004_user_favorites", "005_delivery_cleanup_indexes">>

ScriptList == <<"001_initial", "002_delivery_refund_state_machines",
                "003_catalog_trigram_search", "004_catalog_sort_indexes",
                "005_delivery_cleanup_indexes">>

List(r) == IF r \in Scripts THEN ScriptList ELSE ServerList
Versions == ToSet(ServerList)

\* What a row of the ledger holds: there is none, its checksum column is null
\* (rows older than that column), or a checksum.
Texts == {"original", "edited"}
Marks == {"absent", "null"} \cup Texts

VARIABLES
    ledger,     \* schema_migrations, committed
    ran,        \* per version: how often its SQL has taken effect
    lock,       \* holder of advisory lock 42424242
    edited,     \* per runner: the versions its release has edited
    pc,         \* per runner: start, lock, look, execute, record, commit, ok, failed
    at,         \* per runner: position in its list
    rows,       \* per runner: rows its open transaction has written
    effects     \* per runner: versions its open transaction has executed

vars == <<ledger, ran, lock, edited, pc, at, rows, effects>>

Init ==
    /\ \E n \in 0..Len(ServerList), mark \in {"null", "original"} :
          ledger = [v \in Versions |->
                       IF v \in ToSet(SubSeq(ServerList, 1, n)) THEN mark ELSE "absent"]
    /\ ran = [v \in Versions |-> IF ledger[v] = "absent" THEN 0 ELSE 1]
    /\ lock = NoRunner
    /\ edited \in [Runners -> {{}} \cup {{v} : v \in Editable}]
    /\ pc = [r \in Runners |-> "start"]
    /\ at = [r \in Runners |-> 1]
    /\ rows = [r \in Runners |-> [v \in Versions |-> "absent"]]
    /\ effects = [r \in Runners |-> {}]

Goto(r, to) == pc' = [pc EXCEPT ![r] = to]

Version(r) == List(r)[at[r]]
Text(r) == IF Version(r) \in edited[r] THEN "edited" ELSE "original"

\* A statement sees what is committed and what its own transaction wrote.
Row(r) == IF rows[r][Version(r)] # "absent" THEN rows[r][Version(r)] ELSE ledger[Version(r)]

\* On to the next version, or to COMMIT after the last.
Advance(r) ==
    /\ at' = [at EXCEPT ![r] = @ + 1]
    /\ Goto(r, IF at[r] = Len(List(r)) THEN "commit" ELSE "look")

-------------------------------------------------------------------------------
Begin(r) ==
    /\ pc[r] = "start"
    /\ Goto(r, "lock")
    /\ UNCHANGED <<ledger, ran, lock, edited, at, rows, effects>>

\* pg_advisory_xact_lock, and the two statements that create the ledger.
Lock(r) ==
    /\ pc[r] = "lock"
    /\ lock = NoRunner
    /\ lock' = r
    /\ Goto(r, "look")
    /\ UNCHANGED <<ledger, ran, edited, at, rows, effects>>

Changed(r) == Row(r) \in Texts /\ Row(r) # Text(r)

\* A version the ledger has with this checksum, or with none: an old row gets
\* the checksum of the file that is there now.
Skip(r) ==
    /\ pc[r] = "look"
    /\ Row(r) # "absent"
    /\ ~Changed(r)
    /\ rows' = IF Row(r) = "null" THEN [rows EXCEPT ![r][Version(r)] = Text(r)] ELSE rows
    /\ Advance(r)
    /\ UNCHANGED <<ledger, ran, lock, edited, effects>>

Missing(r) ==
    /\ pc[r] = "look"
    /\ Row(r) = "absent"
    /\ Goto(r, "execute")
    /\ UNCHANGED <<ledger, ran, lock, edited, at, rows, effects>>

\* The pool's client instead of the transaction's.
Execute_Outside(r) ==
    /\ pc[r] = "execute"
    /\ ran' = [ran EXCEPT ![Version(r)] = @ + 1]
    /\ Goto(r, "record")
    /\ UNCHANGED <<ledger, lock, edited, at, rows, effects>>

Execute(r) ==
    /\ pc[r] = "execute"
    /\ effects' = [effects EXCEPT ![r] = @ \cup {Version(r)}]
    /\ Goto(r, "record")
    /\ UNCHANGED <<ledger, ran, lock, edited, at, rows>>

\* The primary key makes an insert wait for another runner's uncommitted row.
Record(r) ==
    /\ pc[r] = "record"
    /\ ledger[Version(r)] = "absent"
    /\ \A q \in Runners \ {r} : rows[q][Version(r)] = "absent"
    /\ rows' = [rows EXCEPT ![r][Version(r)] = Text(r)]
    /\ Advance(r)
    /\ UNCHANGED <<ledger, ran, lock, edited, effects>>

\* The transaction's end, either way, frees the lock and leaves the loop.
Close_KeepsLock(r) ==
    /\ rows' = [rows EXCEPT ![r] = [v \in Versions |-> "absent"]]
    /\ effects' = [effects EXCEPT ![r] = {}]
    /\ at' = [at EXCEPT ![r] = 1]
    /\ UNCHANGED lock

Close(r) ==
    /\ rows' = [rows EXCEPT ![r] = [v \in Versions |-> "absent"]]
    /\ effects' = [effects EXCEPT ![r] = {}]
    /\ at' = [at EXCEPT ![r] = 1]
    /\ lock' = IF lock = r THEN NoRunner ELSE lock

Written(r) ==
    /\ ledger' = [v \in Versions |-> IF rows[r][v] # "absent" THEN rows[r][v] ELSE ledger[v]]
    /\ ran' = [v \in Versions |-> IF v \in effects[r] THEN ran[v] + 1 ELSE ran[v]]

Commit(r) ==
    /\ pc[r] = "commit"
    /\ Written(r)
    /\ Close(r)
    /\ Goto(r, "ok")
    /\ UNCHANGED edited

\* The commit happens, its acknowledgement is lost: an error for the runner.
CommitLost(r) ==
    /\ pc[r] = "commit"
    /\ Written(r)
    /\ Close(r)
    /\ Goto(r, "failed")
    /\ UNCHANGED edited

Fails(r) ==
    /\ Close(r)
    /\ Goto(r, "failed")
    /\ UNCHANGED <<ledger, ran, edited>>

\* The checksum is another one, or the primary key refuses the row.
Refused(r) ==
    IF pc[r] = "record" THEN ledger[Version(r)] # "absent"
                        ELSE pc[r] = "look" /\ Changed(r)

Refuse(r) == Refused(r) /\ Fails(r)
Crash(r)  == pc[r] \notin {"start", "ok", "failed"} /\ Fails(r)

\* A server whose start failed exits and is started again; a script may be
\* run again.
Retry(r) ==
    /\ pc[r] = "failed"
    /\ Goto(r, "start")
    /\ UNCHANGED <<ledger, ran, lock, edited, at, rows, effects>>

-------------------------------------------------------------------------------
Step(r) ==
    \/ Lock(r) \/ Skip(r) \/ Missing(r) \/ Execute(r) \/ Record(r) \/ Commit(r)
    \/ Refuse(r)

\* Connections hold and processes live; or they do not.
Running == \E r \in Runners : Begin(r) \/ Step(r) \/ Retry(r)

Next == Running \/ \E r \in Runners : CommitLost(r) \/ Crash(r)

Spec == Init /\ [][Next]_vars

\* Postgres answers, and grants the lock to those who wait.
FairSpec == Spec /\ \A r \in Runners : WF_vars(Step(r)) /\ SF_vars(Lock(r))

-------------------------------------------------------------------------------
(* Properties *)

\* Every variable holds a value the code can give it; a runner holds the lock
\* exactly while it works on its list.
TypeOK ==
    /\ ledger \in [Versions -> Marks]
    /\ ran \in [Versions -> Nat]
    /\ lock \in Runners \cup {NoRunner}
    /\ pc \in [Runners -> {"start", "lock", "look", "execute", "record", "commit",
                           "ok", "failed"}]
    /\ \A r \in Runners : pc[r] \in {"look", "execute", "record", "commit"} <=> lock = r
    /\ at \in [Runners -> 1..(Len(ServerList) + 1)]
    /\ rows \in [Runners -> [Versions -> {"absent"} \cup Texts]]
    /\ effects \in [Runners -> SUBSET Versions]

\* However runners overlap, break off and start again, a migration has taken
\* effect once if the ledger has it and not at all if it has not.
LedgerMatchesSchema ==
    \A v \in Versions : ran[v] = IF ledger[v] = "absent" THEN 0 ELSE 1

\* Changed migrations fail closed: a server or script that reports success
\* has, for its whole list, the very texts the database was built with.
SuccessMeansUnchanged ==
    \A r \in Runners : pc[r] = "ok" =>
        \A v \in ToSet(List(r)) :
            ledger[v] = IF v \in edited[r] THEN "edited" ELSE "original"

\* Replicas of one release may start together: none fails because of another.
ReplicasDoNotCollide == \A r \in Runners : pc[r] # "failed"

\* A runner that begins ends, whoever else is running.
RunnersEnd == \A r \in Runners : pc[r] = "lock" ~> pc[r] \in {"ok", "failed"}

\* A successful npm run db:migrate leaves a schema the server can use (it does
\* not: the script's list is shorter than the server's).
ScriptCompletesSchema ==
    \A s \in Scripts : pc[s] = "ok" => \A v \in Versions : ledger[v] # "absent"
===============================================================================
