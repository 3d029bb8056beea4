------------------------------ MODULE SqliteUpgrade ------------------------------
(***************************************************************************)
(* Bringing a SQLite file up to date (server/db.ts: migrate, the branch    *)
(* without PostgreSQL).  Every statement commits by itself: a run that     *)
(* dies half way leaves what it did, and the next run starts over.  Two    *)
(* processes may do it to the same file (the server and the seed script).  *)
(*                                                                         *)
(* Modelled: the columns of orders and delivery_events, in one set, and    *)
(* the unique index on the idempotency key.  The other tables and indexes  *)
(* are made by statements that are guarded in the same way.                *)
(* Definitions named X_Fault are faulty variants of X, used by no action.  *)
(***************************************************************************)
EXTENDS Naturals, Sequences, SequencesExt

CONSTANTS
    Processes,
    Starts          \* what the file holds at first: a set of column sets

\* The addColumn calls in order: those for orders, those for delivery_events.
AddedList == << "idempotency_key", "refund_requested_at", "refund_attempted_at",
    "refund_external_confirmed_at", "refund_last_error", "claimed_at", "last_error" >>
OrdersAdded == SubSeq(AddedList, 1, 5)

\* What CREATE TABLE brings; OrdersOwn are columns no addColumn call knows.
OrdersOwn == {"telegram_charge_id", "fulfilled_at", "refund_reason", "refunded_at"}
OrdersTable == {"payload"} \cup OrdersOwn \cup ToSet(OrdersAdded)
DeliveryTable == {"token_hash"}
Columns == OrdersTable \cup DeliveryTable \cup ToSet(AddedList)

UpgradeAssumption == Starts \subseteq SUBSET Columns

VARIABLES
    columns,    \* columns in the file
    unique,     \* idx_orders_user_idempotency exists
    pc,         \* per process: idle, create, look, add, ok, failed, crashed
    known,      \* per process: the columns its two pragmas returned
    next        \* per process: position in AddedList

vars == <<columns, unique, pc, known, next>>

Init ==
    /\ columns \in Starts
    /\ unique = FALSE
    /\ pc = [p \in Processes |-> "idle"]
    /\ known = [p \in Processes |-> {}]
    /\ next = [p \in Processes |-> 1]

Goto(p, to) == pc' = [pc EXCEPT ![p] = to]

\* A run that is over leaves nothing in the memory of its process.
Ends(p, to) ==
    /\ Goto(p, to)
    /\ known' = [known EXCEPT ![p] = {}]
    /\ next' = [next EXCEPT ![p] = 1]

\* migrate() is called: at start-up, and again after a run that failed.
Begin(p) ==
    /\ pc[p] \in {"idle", "failed", "crashed"}
    /\ Goto(p, "create")
    /\ UNCHANGED <<columns, unique, known, next>>

\* CREATE TABLE IF NOT EXISTS: a table is made whole or left as it is.
Tables(present) ==
    present \cup DeliveryTable
            \cup (IF "payload" \in present THEN {} ELSE OrdersTable)

Create(p) ==
    /\ pc[p] = "create"
    /\ columns' = Tables(columns)
    /\ Goto(p, "look")
    /\ UNCHANGED <<unique, known, next>>

\* pragma table_info, once for each table, before any column is added.
Look(p) ==
    /\ pc[p] = "look"
    /\ known' = [known EXCEPT ![p] = columns]
    /\ Goto(p, "add")
    /\ UNCHANGED <<columns, unique, next>>

Present(p, c) == c \in known[p]

\* ALTER TABLE ... ADD COLUMN for a column that was not there.
AddColumn(p) ==
    /\ pc[p] = "add" /\ next[p] <= Len(AddedList)
    /\ LET c == AddedList[next[p]] IN
        /\ Present(p, c) \/ c \notin columns
        /\ columns' = columns \cup {c}
    /\ next' = [next EXCEPT ![p] = @ + 1]
    /\ UNCHANGED <<unique, pc, known>>

\* 'duplicate column name': the process ends.
AddFails(p) ==
    /\ pc[p] = "add" /\ next[p] <= Len(AddedList)
    /\ ~Present(p, AddedList[next[p]]) /\ AddedList[next[p]] \in columns
    /\ Ends(p, "failed")
    /\ UNCHANGED <<columns, unique>>

AllAdded_ButLast(p) == next[p] = Len(AddedList)
AllAdded(p) == next[p] > Len(AddedList)

CreateIndex(p) ==
    /\ pc[p] = "add" /\ AllAdded(p)
    /\ unique' = TRUE
    /\ Ends(p, "ok")
    /\ UNCHANGED columns

Crash(p) ==
    /\ pc[p] \in {"create", "look", "add"}
    /\ Ends(p, "crashed")
    /\ UNCHANGED <<columns, unique>>

-------------------------------------------------------------------------------
Run(p) ==
    Begin(p) \/ Create(p) \/ Look(p) \/ AddColumn(p) \/ AddFails(p) \/ CreateIndex(p)

\* Processes live; or they die.
Running == \E p \in Processes : Run(p)

Next == Running \/ \E p \in Processes : Crash(p)

Spec == Init /\ [][Next]_vars

\* A process that was started runs; one that failed is started again.
FairSpec == Spec /\ \A p \in Processes : WF_vars(Run(p))

-------------------------------------------------------------------------------
(* Properties *)

\* Every variable holds a value the code can give it; what a process knows to
\* be in the file stays in it.
TypeOK ==
    /\ columns \in SUBSET Columns
    /\ unique \in BOOLEAN
    /\ pc \in [Processes -> {"idle", "create", "look", "add", "ok", "failed",
                             "crashed"}]
    /\ known \in [Processes -> SUBSET columns]
    /\ next \in [Processes -> 1..Len(AddedList) + 1]

\* A run that ends well leaves every added column and the unique index, from
\* whatever file and whatever was left by runs that died.
EndsUpgraded ==
    (\E p \in Processes : pc[p] = "ok") => ToSet(AddedList) \subseteq columns /\ unique

\* A process that has the file for itself does not fail, wherever the runs
\* before it died: only one that looked before another added a column does.
OnlyRacesFail ==
    \A p \in Processes : pc[p] = "failed" =>
        \E q \in Processes \ {p} : pc[q] # "idle"

\* Every process gets through in the end, also against one another.
UpgradeEnds == \A p \in Processes : <>(pc[p] = "ok")

\* After the upgrade the columns that payment and refund statements write are
\* there (not so for a file without them: they are on no list).
UpgradedFileServes ==
    (\E p \in Processes : pc[p] = "ok") => OrdersOwn \subseteq columns
===============================================================================
