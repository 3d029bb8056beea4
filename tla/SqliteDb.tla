-------------------------------- MODULE SqliteDb --------------------------------
(***************************************************************************)
(* The SQLite client of the development and test set-up: one connection    *)
(* shared by every handler, and a mutex made of a chain of promises        *)
(* (server/sqlite-db.ts).  A plain statement is one synchronous call under *)
(* the mutex.  A transaction keeps the mutex from BEGIN IMMEDIATE to       *)
(* COMMIT while its body awaits, so every other call must stay out of the  *)
(* connection meanwhile, or it would be committed and rolled back with it. *)
(*                                                                         *)
(* Promises are numbered in the order of their creation; 0 is the resolved *)
(* promise the chain starts with.  Writes stand for statements: a read     *)
(* takes the same path.  Definitions named X_Fault are faulty variants of  *)
(* X, used by no action.                                                   *)
(***************************************************************************)
EXTENDS Naturals, FiniteSets

CONSTANTS
    Statements,     \* plain calls: prepare(...).get/all/run, exec
    Transactions,   \* calls of transaction(fn)
    Closer,         \* the call of close()
    BodySize        \* statements of a transaction's body

Calls == Statements \cup Transactions \cup {Closer}

ASSUME SqliteAssumption ==
    /\ Statements \cap Transactions = {}
    /\ Closer \notin Statements \cup Transactions
    /\ BodySize \in Nat \ {0}

VARIABLES
    tail,       \* Mutex.tail
    resolved,   \* promises resolved by release()
    mine,       \* per call: the promise it put at the tail, 0 before run()
    pc,         \* per call: idle, queued, body, leave, done
    at,         \* per transaction: statements its body has executed
    reply,      \* per call: none, ok, error
    open,       \* connection: the transaction that is open, or none, as a set
    pending,    \* connection: writes made since BEGIN
    stored,     \* database: writes that are committed
    closed      \* connection: close() has run

vars == <<tail, resolved, mine, pc, at, reply, open, pending, stored, closed>>

Init ==
    /\ tail = 0
    /\ resolved = {0}
    /\ mine = [c \in Calls |-> 0]
    /\ pc = [c \in Calls |-> "idle"]
    /\ at = [c \in Calls |-> 0]
    /\ reply = [c \in Calls |-> "none"]
    /\ open = {}
    /\ pending = {}
    /\ stored = {}
    /\ closed = FALSE

Goto(c, to) == pc' = [pc EXCEPT ![c] = to]
Finish(c, r) == Goto(c, "leave") /\ reply' = [reply EXCEPT ![c] = r]

-------------------------------------------------------------------------------
(* Mutex.run *)

\* The synchronous prefix: the call awaits the tail and becomes the tail.
Enter(c) ==
    /\ pc[c] = "idle"
    /\ tail' = tail + 1
    /\ mine' = [mine EXCEPT ![c] = tail + 1]
    /\ Goto(c, "queued")
    /\ UNCHANGED <<resolved, at, reply, open, pending, stored, closed>>

\* `await previous` is over.
MyTurn(c) == mine[c] - 1 \in resolved

\* The finally block; the caller gets fn's result or its error.
Leave(c) ==
    /\ pc[c] = "leave"
    /\ resolved' = resolved \cup {mine[c]}
    /\ Goto(c, "done")
    /\ UNCHANGED <<tail, mine, at, reply, open, pending, stored, closed>>

-------------------------------------------------------------------------------
(* The connection *)

\* Outside a transaction SQLite commits each write by itself.
Write(w) ==
    IF open = {} THEN stored' = stored \cup {w} /\ UNCHANGED pending
                 ELSE pending' = pending \cup {w} /\ UNCHANGED stored

Execute(c) ==
    /\ pc[c] = "queued"
    /\ c \in Statements
    /\ MyTurn(c)
    /\ ~closed
    /\ Finish(c, "ok")
    /\ Write(<<c, 1>>)
    /\ UNCHANGED <<tail, resolved, mine, at, open, closed>>

\* A constraint, or a connection that is closed.
ExecuteFails(c) ==
    /\ pc[c] = "queued"
    /\ c \in Statements
    /\ MyTurn(c)
    /\ Finish(c, "error")
    /\ UNCHANGED <<tail, resolved, mine, at, open, pending, stored, closed>>

Begin(c) ==
    /\ pc[c] = "queued"
    /\ c \in Transactions
    /\ MyTurn(c)
    /\ ~closed
    /\ open' = open \cup {c}
    /\ Goto(c, "body")
    /\ UNCHANGED <<tail, resolved, mine, at, reply, pending, stored, closed>>

\* BEGIN IMMEDIATE throws before the try block: another process holds the
\* file for longer than busy_timeout, or the connection is closed.
BeginFails(c) ==
    /\ pc[c] = "queued"
    /\ c \in Transactions
    /\ MyTurn(c)
    /\ Finish(c, "error")
    /\ UNCHANGED <<tail, resolved, mine, at, open, pending, stored, closed>>

\* A statement of scoped(true) does not take the mutex; between two of them
\* the body awaits, and other calls run.
BodyStatement(c) ==
    /\ pc[c] = "body"
    /\ at[c] < BodySize
    /\ at' = [at EXCEPT ![c] = @ + 1]
    /\ Write(<<c, at[c] + 1>>)
    /\ UNCHANGED <<tail, resolved, mine, pc, reply, open, closed>>

Commit(c) ==
    /\ pc[c] = "body"
    /\ at[c] = BodySize
    /\ stored' = stored \cup pending
    /\ pending' = {}
    /\ open' = {}
    /\ Finish(c, "ok")
    /\ UNCHANGED <<tail, resolved, mine, at, closed>>

\* The body, a statement of it (a nested transaction among them) or COMMIT
\* throws: ROLLBACK, and the error goes on.
Rollback_Forgotten(c) ==
    /\ pc[c] = "body"
    /\ Finish(c, "error")
    /\ UNCHANGED <<tail, resolved, mine, at, open, pending, stored, closed>>

Rollback(c) ==
    /\ pc[c] = "body"
    /\ pending' = {}
    /\ open' = {}
    /\ Finish(c, "error")
    /\ UNCHANGED <<tail, resolved, mine, at, stored, closed>>

\* close() waits its turn like any other call.
Close(c) ==
    /\ pc[c] = "queued"
    /\ c = Closer
    /\ MyTurn(c)
    /\ closed' = TRUE
    /\ Finish(c, "ok")
    /\ UNCHANGED <<tail, resolved, mine, at, open, pending, stored>>

-------------------------------------------------------------------------------
Progress(c) ==
    \/ Execute(c) \/ ExecuteFails(c)
    \/ Begin(c) \/ BeginFails(c) \/ BodyStatement(c) \/ Commit(c) \/ Rollback(c)
    \/ Close(c)
    \/ Leave(c)

Next == \E c \in Calls : Enter(c) \/ Progress(c)

Spec == Init /\ [][Next]_vars

\* The event loop runs every continuation whose promise is resolved.
FairSpec == Spec /\ \A c \in Calls : WF_vars(Progress(c))

-------------------------------------------------------------------------------
(* Properties *)

WritesOf(c) == {c} \X (1..(IF c \in Transactions THEN BodySize ELSE 1))

\* Every variable holds a value the code can give it; a closed connection has
\* no transaction open.
TypeOK ==
    /\ tail \in Nat
    /\ resolved \in SUBSET Nat
    /\ mine \in [Calls -> Nat]
    /\ pc \in [Calls -> {"idle", "queued", "body", "leave", "done"}]
    /\ at \in [Calls -> 0..BodySize]
    /\ reply \in [Calls -> {"none", "ok", "error"}]
    /\ open \in SUBSET Transactions
    /\ pending \in SUBSET (Calls \X Nat)
    /\ stored \in SUBSET (Calls \X Nat)
    /\ closed \in BOOLEAN
    /\ closed => open = {}

\* At most one transaction is open, and what has been written since BEGIN is
\* its own: no other handler's write is committed or rolled back with it.
NoForeignWrite ==
    \A c \in open :
        /\ \A d \in open : d = c
        /\ \A w \in pending : w[1] = c

\* What the caller was told is what the database holds: everything a call
\* wrote after "ok", nothing of it before an answer or after an error.
AnswersAreTrue ==
    /\ \A c \in Calls \ {Closer} : reply[c] = "ok" => WritesOf(c) \subseteq stored
    /\ \A w \in stored : reply[w[1]] = "ok"

\* Calls reach the connection in the order in which they were made: when one
\* has got past the mutex, those made before have left it.
FirstComeFirstServed ==
    \A c, d \in Calls :
        /\ 0 < mine[c]
        /\ mine[c] < mine[d]
        /\ pc[d] # "queued"
        => pc[c] = "done"

\* The driver is what the handlers take it for: every statement and every
\* transaction is carried out whole or not at all, as its answer says, and no
\* answer is lost (DbClient).
Contract == INSTANCE DriverContract WITH
    Calls <- Statements \cup Transactions,
    Size  <- [c \in Statements \cup Transactions |-> IF c \in Transactions THEN BodySize ELSE 1],
    Lossy <- FALSE,
    reply <- [c \in Statements \cup Transactions |-> reply[c]],
    lost  <- {}

ContractSpec == Contract!Spec

\* Every call is answered, whichever statements throw.
CallsEnd == \A c \in Calls : pc[c] = "queued" ~> pc[c] = "done"
===============================================================================
