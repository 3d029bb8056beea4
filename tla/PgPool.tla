---------------------------------- MODULE PgPool ----------------------------------
(***************************************************************************)
(* The PostgreSQL client of production (server/pg-db.ts): a pool of        *)
(* DATABASE_POOL_MAX connections (node-postgres, external).  A plain       *)
(* statement borrows a connection for one query; a transaction borrows one *)
(* for BEGIN, the statements of its body, and COMMIT or ROLLBACK.  Who     *)
(* finds no connection waits, at most connectionTimeoutMillis.             *)
(*                                                                         *)
(* The server end of a connection may die at any moment, before or after   *)
(* it has executed what it was sent; PostgreSQL then drops the open        *)
(* transaction, and the pool replaces the connection when it comes back.   *)
(* Writes stand for statements.  Definitions named X_Fault are faulty      *)
(* variants of X, used by no action.                                       *)
(***************************************************************************)
EXTENDS Naturals, FiniteSets

CONSTANTS
    Statements,     \* plain calls: prepare(...).get/all/run, exec
    Transactions,   \* calls of transaction(fn)
    PoolMax,        \* DATABASE_POOL_MAX
    BodySize,       \* statements of a transaction's body
    MaxBreaks       \* how many connections die

Calls == Statements \cup Transactions
Conns == 1..PoolMax

PgAssumption ==
    /\ Statements \cap Transactions = {}
    /\ PoolMax \in Nat \ {0}
    /\ BodySize \in Nat \ {0}
    /\ MaxBreaks \in Nat

VARIABLES
    pc,         \* per call: idle, waiting, begin, query, body, abort, release, done
    conn,       \* per call: the connection it holds, 0 when none
    at,         \* per transaction: statements its body has executed
    reply,      \* per call: none, ok, error
    txn,        \* per connection: none, open, failed (aborted by an error)
    pending,    \* per connection: writes since BEGIN
    dead,       \* connections whose server end is gone
    stored,     \* database: committed writes
    unsure,     \* calls whose COMMIT or only statement ran and was not answered
    breaks      \* connections that died so far

vars == <<pc, conn, at, reply, txn, pending, dead, stored, unsure, breaks>>

Init ==
    /\ pc = [c \in Calls |-> "idle"]
    /\ conn = [c \in Calls |-> 0]
    /\ at = [c \in Calls |-> 0]
    /\ reply = [c \in Calls |-> "none"]
    /\ txn = [k \in Conns |-> "none"]
    /\ pending = [k \in Conns |-> {}]
    /\ dead = {}
    /\ stored = {}
    /\ unsure = {}
    /\ breaks = 0

Goto(c, to) == pc' = [pc EXCEPT ![c] = to]
Answer(c, r) == reply' = [reply EXCEPT ![c] = r]
Alive(c) == conn[c] \notin dead
Ends(k) == txn' = [txn EXCEPT ![k] = "none"] /\ pending' = [pending EXCEPT ![k] = {}]

-------------------------------------------------------------------------------
(* The pool (external) *)

Ask(c) ==
    /\ pc[c] = "idle"
    /\ Goto(c, "waiting")
    /\ UNCHANGED <<conn, at, reply, txn, pending, dead, stored, unsure, breaks>>

Free == {k \in Conns : \A c \in Calls : conn[c] # k}

Connect(c) ==
    /\ pc[c] = "waiting"
    /\ \E k \in Free : conn' = [conn EXCEPT ![c] = k]
    /\ Goto(c, IF c \in Transactions THEN "begin" ELSE "query")
    /\ UNCHANGED <<at, reply, txn, pending, dead, stored, unsure, breaks>>

\* No connection for connectionTimeoutMillis.
ConnectTimesOut(c) ==
    /\ pc[c] = "waiting"
    /\ Free = {}
    /\ Answer(c, "error")
    /\ Goto(c, "done")
    /\ UNCHANGED <<conn, at, txn, pending, dead, stored, unsure, breaks>>

\* The server end dies: what was not committed is gone.
Break(k) ==
    /\ k \notin dead
    /\ breaks < MaxBreaks
    /\ breaks' = breaks + 1
    /\ dead' = dead \cup {k}
    /\ Ends(k)
    /\ UNCHANGED <<pc, conn, at, reply, stored, unsure>>

\* release(): a broken client is replaced, the others go back as they are.
Release(c) ==
    /\ pc[c] = "release"
    /\ conn' = [conn EXCEPT ![c] = 0]
    /\ dead' = dead \ {conn[c]}
    /\ Goto(c, "done")
    /\ UNCHANGED <<at, reply, txn, pending, stored, unsure, breaks>>

\* An idle client that dies raises 'error' on the pool, which drops it.
Replace(k) ==
    /\ k \in dead \cap Free
    /\ dead' = dead \ {k}
    /\ UNCHANGED <<pc, conn, at, reply, txn, pending, stored, unsure, breaks>>

-------------------------------------------------------------------------------
(* pool.query *)

Query(c) ==
    /\ pc[c] = "query"
    /\ Alive(c)
    /\ stored' = stored \cup {<<c, 1>>}
    /\ Answer(c, "ok")
    /\ Goto(c, "release")
    /\ UNCHANGED <<conn, at, txn, pending, dead, unsure, breaks>>

\* A constraint, or a dead connection.
QueryFails(c) ==
    /\ pc[c] = "query"
    /\ Answer(c, "error")
    /\ Goto(c, "release")
    /\ UNCHANGED <<conn, at, txn, pending, dead, stored, unsure, breaks>>

-------------------------------------------------------------------------------
(* transaction(fn) *)

Begin(c) ==
    /\ pc[c] = "begin"
    /\ Alive(c)
    /\ txn' = [txn EXCEPT ![conn[c]] = "open"]
    /\ Goto(c, "body")
    /\ UNCHANGED <<conn, at, reply, pending, dead, stored, unsure, breaks>>

BodyStatement_OnPool(c) ==
    /\ pc[c] = "body"
    /\ at[c] < BodySize
    /\ Alive(c)
    /\ txn[conn[c]] = "open"
    /\ at' = [at EXCEPT ![c] = @ + 1]
    /\ stored' = stored \cup {<<c, at[c] + 1>>}
    /\ UNCHANGED <<pc, conn, reply, txn, pending, dead, unsure, breaks>>

\* The statements of tx run on the connection of the transaction.
BodyStatement(c) ==
    /\ pc[c] = "body"
    /\ at[c] < BodySize
    /\ Alive(c)
    /\ txn[conn[c]] = "open"
    /\ at' = [at EXCEPT ![c] = @ + 1]
    /\ pending' = [pending EXCEPT ![conn[c]] = @ \cup {<<c, at[c] + 1>>}]
    /\ UNCHANGED <<pc, conn, reply, txn, dead, stored, unsure, breaks>>

\* BEGIN or a statement is refused: PostgreSQL fails the transaction it
\* belongs to, and the error leaves the body for the catch block.
StatementFails(c) ==
    /\ pc[c] \in {"begin", "body"}
    /\ txn' = [txn EXCEPT ![conn[c]] = IF @ = "open" THEN "failed" ELSE @]
    /\ Goto(c, "abort")
    /\ UNCHANGED <<conn, at, reply, pending, dead, stored, unsure, breaks>>

\* The body throws an error of its own, the transaction being fine.
BodyThrows(c) ==
    /\ pc[c] = "body"
    /\ Goto(c, "abort")
    /\ UNCHANGED <<conn, at, reply, txn, pending, dead, stored, unsure, breaks>>

Commit(c) ==
    /\ pc[c] = "body"
    /\ at[c] = BodySize
    /\ Alive(c)
    /\ stored' = stored \cup pending[conn[c]]
    /\ Ends(conn[c])
    /\ Answer(c, "ok")
    /\ Goto(c, "release")
    /\ UNCHANGED <<conn, at, dead, unsure, breaks>>

\* What was sent last has run when the connection dies: its answer is lost.
AnswerLost(c) ==
    /\ pc[c] = "query" \/ (pc[c] = "body" /\ at[c] = BodySize)
    /\ Alive(c)
    /\ breaks < MaxBreaks
    /\ breaks' = breaks + 1
    /\ dead' = dead \cup {conn[c]}
    /\ stored' = stored \cup
          (IF pc[c] = "query" THEN {<<c, 1>>} ELSE pending[conn[c]])
    /\ Ends(conn[c])
    /\ unsure' = unsure \cup {c}
    /\ IF pc[c] = "query" THEN Answer(c, "error") /\ Goto(c, "release")
                          ELSE Goto(c, "abort") /\ UNCHANGED reply
    /\ UNCHANGED <<conn, at>>

\* The catch block: ROLLBACK, which may fail on a dead connection; the
\* original error wins either way.
Rollback_Forgotten(c) ==
    /\ pc[c] = "abort"
    /\ Answer(c, "error")
    /\ Goto(c, "release")
    /\ UNCHANGED <<conn, at, txn, pending, dead, stored, unsure, breaks>>

Rollback_KeepsConnection(c) ==
    /\ pc[c] = "abort"
    /\ Ends(conn[c])
    /\ Answer(c, "error")
    /\ Goto(c, IF Alive(c) THEN "release" ELSE "done")
    /\ UNCHANGED <<conn, at, dead, stored, unsure, breaks>>

Rollback(c) ==
    /\ pc[c] = "abort"
    /\ Ends(conn[c])
    /\ Answer(c, "error")
    /\ Goto(c, "release")
    /\ UNCHANGED <<conn, at, dead, stored, unsure, breaks>>

-------------------------------------------------------------------------------
Run(c) ==
    \/ Query(c) \/ QueryFails(c)
    \/ Begin(c) \/ BodyStatement(c) \/ StatementFails(c) \/ BodyThrows(c)
    \/ Commit(c) \/ Rollback(c)
    \/ Release(c)

Next ==
    \/ \E c \in Calls :
        Ask(c) \/ Connect(c) \/ ConnectTimesOut(c) \/ Run(c) \/ AnswerLost(c)
    \/ \E k \in Conns : Break(k) \/ Replace(k)

Spec == Init /\ [][Next]_vars

\* A query is answered or fails, the pool hands out what is free and times out
\* otherwise; idle clients that died are dropped.
FairSpec ==
    /\ Spec
    /\ \A c \in Calls : WF_vars(Run(c)) /\ SF_vars(Connect(c) \/ ConnectTimesOut(c))

-------------------------------------------------------------------------------
(* Properties *)

\* Every variable holds a value the code can give it; who holds a connection
\* is exactly who is between connect and release.
TypeOK ==
    /\ pc \in [Calls -> {"idle", "waiting", "begin", "query", "body", "abort",
                         "release", "done"}]
    /\ conn \in [Calls -> 0..PoolMax]
    /\ at \in [Calls -> 0..BodySize]
    /\ reply \in [Calls -> {"none", "ok", "error"}]
    /\ txn \in [Conns -> {"none", "open", "failed"}]
    /\ pending \in [Conns -> SUBSET (Calls \X Nat)]
    /\ dead \in SUBSET Conns
    /\ stored \in SUBSET (Calls \X Nat)
    /\ unsure \in SUBSET Calls
    /\ breaks \in 0..MaxBreaks
    /\ \A c \in Calls : conn[c] = 0 <=> pc[c] \in {"idle", "waiting", "done"}

\* A connection in the pool carries no transaction: the next handler that
\* borrows it starts afresh, and no transaction writes what another wrote.
CleanConnections ==
    /\ \A k \in Free : txn[k] = "none" /\ pending[k] = {}
    /\ \A c \in Calls : conn[c] # 0 =>
        /\ \A w \in pending[conn[c]] : w[1] = c
        /\ pc[c] \in {"query", "begin"} => txn[conn[c]] = "none"

\* The driver is what the handlers take it for: every statement and every
\* transaction is carried out whole or not at all, whichever connection breaks
\* where, and its answer is true unless the answer itself was lost (DbClient).
Contract == INSTANCE DriverContract WITH
    Size  <- [c \in Calls |-> IF c \in Transactions THEN BodySize ELSE 1],
    Lossy <- MaxBreaks > 0,
    lost  <- unsure

ContractSpec == Contract!Spec

\* Every call is answered and every connection comes back, whatever dies.
CallsEnd ==
    \A c \in Calls :
        /\ pc[c] = "waiting" ~> pc[c] = "done"
        /\ conn[c] # 0 ~> conn[c] = 0
===============================================================================
