------------------------------ MODULE PlatformProofs ------------------------------
(***************************************************************************)
(* Proofs about what every handler stands on, for any calls, runners,      *)
(* processes and requests and any size of the pool.                        *)
(*                                                                         *)
(* SQLite.  The mutex is correct because the resolved promises are an      *)
(* initial segment of the chain and no two calls own the same promise      *)
(* (Chain): the one call that may run is the owner of the first unresolved *)
(* promise (Exclusive).  The connection then holds at most one open        *)
(* transaction, whose writes so far are exactly the pending ones           *)
(* (Connection).                                                           *)
(*                                                                         *)
(* Migrations.  The advisory lock makes the runner at work the only one    *)
(* with open rows and effects (Outside).  What it has executed are the     *)
(* versions it has passed that the ledger lacks, and what a look-up in its *)
(* transaction finds for them is the text of its release (Work).           *)
(*                                                                         *)
(* The SQLite file.  Columns are only ever added; a process that has the   *)
(* file for itself knows of every column or has added it (FileInv).        *)
(*                                                                         *)
(* Shutdown.  A store or database that is closed, or about to be, means    *)
(* that no connection is open any more, and none is opened (Quiet).        *)
(*                                                                         *)
(* toPg.  What is written is what the reference gives for the characters   *)
(* read so far, and it is inside a literal when the reference is (HasRead).*)
(* A doubled quote is two steps of the reference.                          *)
(*                                                                         *)
(* The pool.  The proofs of PgPoolProofs, for both pools the parts use.    *)
(***************************************************************************)
EXTENDS MCPlatform, FiniteSetTheorems, SequenceTheorems, TLAPS

-------------------------------------------------------------------------------
(* SqliteDb: the promise chain and the connection. *)

Inside(c) == pc[c] \in {"body", "leave"}

Chain ==
    /\ 0 \in resolved
    /\ \A n \in resolved : n <= tail /\ \A m \in 0..n : m \in resolved
    /\ \A c \in Calls :
          /\ mine[c] <= tail
          /\ pc[c] = "idle" <=> mine[c] = 0
          /\ mine[c] > 0 => (pc[c] = "done" <=> mine[c] \in resolved)
          /\ Inside(c) => mine[c] - 1 \in resolved
    /\ \A c, d \in Calls : mine[c] > 0 /\ mine[c] = mine[d] => c = d

Connection ==
    /\ \A c \in Calls : c \in open <=> pc[c] = "body"
    /\ \A c \in Calls : reply[c] = "none" <=> pc[c] \in {"idle", "queued", "body"}
    /\ \A c \in Calls : pc[c] \in {"idle", "queued"} => at[c] = 0
    /\ \A c \in open : pending = {c} \X (1..at[c])
    /\ open = {} => pending = {}

IInv == TypeOK /\ Chain /\ Connection /\ AnswersAreTrue

\* Of two calls that are next in the chain one is the other.
LEMMA Exclusive ==
    ASSUME TypeOK, Chain,
           NEW c \in Calls, mine[c] > 0, mine[c] - 1 \in resolved, mine[c] \notin resolved,
           NEW d \in Calls, mine[d] > 0, mine[d] - 1 \in resolved, mine[d] \notin resolved
    PROVE  c = d
<1>1. mine[c] \in Nat /\ mine[d] \in Nat /\ mine[c] - 1 \in Nat /\ mine[d] - 1 \in Nat
  BY DEF TypeOK
<1>2. ~(mine[c] < mine[d])
  BY <1>1 DEF Chain
<1>3. ~(mine[d] < mine[c])
  BY <1>1 DEF Chain
<1>4. mine[c] = mine[d]
  BY <1>1, <1>2, <1>3
<1> QED BY <1>4 DEF Chain

\* While a call has its turn, no other is between BEGIN and release.
LEMMA Alone ==
    ASSUME TypeOK, Chain, NEW c \in Calls, pc[c] = "queued", MyTurn(c),
           NEW d \in Calls
    PROVE  ~Inside(d)
<1>1. mine[c] \in Nat /\ mine[c] > 0 /\ mine[c] - 1 \in resolved /\ mine[c] \notin resolved
  BY DEF TypeOK, Chain, MyTurn
<1>2. SUFFICES ASSUME Inside(d) PROVE FALSE
  OBVIOUS
<1>3. mine[d] \in Nat /\ mine[d] > 0 /\ mine[d] - 1 \in resolved /\ mine[d] \notin resolved
  BY <1>2 DEF TypeOK, Chain, Inside
<1>4. c = d
  BY <1>1, <1>3, Exclusive
<1> QED BY <1>2, <1>4 DEF Inside

\* So a transaction that is open is the only one.
LEMMA OneBody ==
    ASSUME TypeOK, Chain, NEW c \in Calls, Inside(c), NEW d \in Calls, Inside(d)
    PROVE  c = d
<1>1. \A e \in {c, d} : mine[e] > 0 /\ mine[e] - 1 \in resolved /\ mine[e] \notin resolved
  BY DEF TypeOK, Chain, Inside
<1> QED BY <1>1, Exclusive

LEMMA Initially == Init => IInv
<1> SUFFICES ASSUME Init PROVE IInv
  OBVIOUS
<1>1. TypeOK
  <2>1. at \in [Calls -> 0..BodySize]
    BY SqliteAssumption DEF Init
  <2>2. open \in SUBSET Transactions /\ closed \in BOOLEAN /\ (closed => open = {})
    BY DEF Init
  <2>3. pending \in SUBSET (Calls \X Nat) /\ stored \in SUBSET (Calls \X Nat)
    BY DEF Init
  <2>4. tail \in Nat /\ resolved \in SUBSET Nat /\ mine \in [Calls -> Nat]
    BY DEF Init
  <2>5. pc \in [Calls -> {"idle", "queued", "body", "leave", "done"}]
    BY DEF Init
  <2>6. reply \in [Calls -> {"none", "ok", "error"}]
    BY DEF Init
  <2> QED BY <2>1, <2>2, <2>3, <2>4, <2>5, <2>6 DEF TypeOK
<1>2. Chain
  BY DEF Init, Chain, Inside
<1>3. Connection /\ AnswersAreTrue
  BY DEF Init, Connection, AnswersAreTrue
<1> QED BY <1>1, <1>2, <1>3 DEF IInv

-------------------------------------------------------------------------------
(* Each action keeps the mutex and the connection consistent. *)

LEMMA EnterKeeps == ASSUME IInv, NEW c \in Calls, Enter(c) PROVE IInv'
<1> USE DEF IInv
<1>1. tail \in Nat /\ mine \in [Calls -> Nat]
  BY DEF TypeOK
<1>2. /\ tail' = tail + 1 /\ pc' = [pc EXCEPT ![c] = "queued"] /\ pc[c] = "idle"
      /\ mine' = [mine EXCEPT ![c] = tail + 1]
      /\ UNCHANGED <<resolved, at, reply, open, pending, stored, closed>>
  BY DEF Enter, Goto
<1>3. TypeOK'
  BY <1>1, <1>2 DEF TypeOK
<1>4. Chain'
  <2>1. 0 \in resolved' /\ \A n \in resolved' : n <= tail' /\ \A m \in 0..n : m \in resolved'
    BY <1>1, <1>2 DEF Chain, TypeOK
  <2>2. tail + 1 \notin resolved
    BY <1>1 DEF Chain, TypeOK
  <2>3. ASSUME NEW d \in Calls
        PROVE  /\ mine'[d] <= tail'
               /\ pc'[d] = "idle" <=> mine'[d] = 0
               /\ mine'[d] > 0 => (pc'[d] = "done" <=> mine'[d] \in resolved')
               /\ Inside(d)' => mine'[d] - 1 \in resolved'
    BY <1>1, <1>2, <2>2 DEF Chain, Inside, TypeOK
  <2>4. ASSUME NEW d \in Calls, NEW e \in Calls, mine'[d] > 0, mine'[d] = mine'[e]
        PROVE  d = e
    BY <1>1, <1>2, <2>4 DEF Chain
  <2> QED BY <2>1, <2>3, <2>4 DEF Chain
<1>5. Connection' /\ AnswersAreTrue'
  BY <1>2 DEF Connection, AnswersAreTrue, TypeOK
<1> QED BY <1>3, <1>4, <1>5

LEMMA LeaveKeeps == ASSUME IInv, NEW c \in Calls, Leave(c) PROVE IInv'
<1> USE DEF IInv
<1>1. /\ pc[c] = "leave" /\ pc' = [pc EXCEPT ![c] = "done"]
      /\ resolved' = resolved \cup {mine[c]}
      /\ UNCHANGED <<tail, mine, at, reply, open, pending, stored, closed>>
  BY DEF Leave, Goto
<1>2. mine \in [Calls -> Nat] /\ tail \in Nat
  BY DEF TypeOK
<1>3. mine[c] > 0 /\ mine[c] - 1 \in resolved /\ mine[c] <= tail
  BY <1>1, <1>2 DEF Chain, Inside
<1>4. TypeOK'
  BY <1>1, <1>2 DEF TypeOK
<1>5. Chain'
  <2>1. 0 \in resolved'
    BY <1>1 DEF Chain
  <2>2. ASSUME NEW n \in resolved' PROVE n <= tail' /\ \A m \in 0..n : m \in resolved'
    <3>1. CASE n \in resolved
      BY <1>1, <3>1 DEF Chain
    <3>2. CASE n = mine[c]
      <4>1. \A m \in 0..(mine[c] - 1) : m \in resolved
        BY <1>3 DEF Chain
      <4> QED BY <1>1, <1>2, <1>3, <3>2, <4>1
    <3> QED BY <1>1, <3>1, <3>2
  <2>3. ASSUME NEW d \in Calls
        PROVE  /\ mine'[d] <= tail'
               /\ pc'[d] = "idle" <=> mine'[d] = 0
               /\ mine'[d] > 0 => (pc'[d] = "done" <=> mine'[d] \in resolved')
               /\ Inside(d)' => mine'[d] - 1 \in resolved'
    <3>1. mine[d] = mine[c] => d = c
      BY <1>3 DEF Chain
    <3> QED BY <1>1, <1>2, <1>3, <3>1 DEF Chain, Inside, TypeOK
  <2>4. \A d, e \in Calls : mine'[d] > 0 /\ mine'[d] = mine'[e] => d = e
    BY <1>1 DEF Chain
  <2> QED BY <2>1, <2>2, <2>3, <2>4 DEF Chain
<1>6. Connection' /\ AnswersAreTrue'
  BY <1>1 DEF Connection, AnswersAreTrue, TypeOK
<1> QED BY <1>4, <1>5, <1>6

\* The steps of a call that has its turn, or is inside, leave the chain alone.
LEMMA ChainKept ==
    ASSUME TypeOK, Chain, NEW c \in Calls,
           UNCHANGED <<tail, resolved, mine>>,
           NEW to \in {"body", "leave"}, pc' = [pc EXCEPT ![c] = to],
           Inside(c) \/ (pc[c] = "queued" /\ MyTurn(c))
    PROVE  Chain'
<1>1. mine[c] > 0 /\ mine[c] - 1 \in resolved /\ mine[c] \notin resolved
  BY DEF Chain, TypeOK, Inside, MyTurn
<1>2. ASSUME NEW d \in Calls
      PROVE  /\ mine'[d] <= tail'
             /\ pc'[d] = "idle" <=> mine'[d] = 0
             /\ mine'[d] > 0 => (pc'[d] = "done" <=> mine'[d] \in resolved')
             /\ Inside(d)' => mine'[d] - 1 \in resolved'
  BY <1>1 DEF Chain, TypeOK, Inside
<1> QED BY <1>2 DEF Chain

\* With the turn comes an idle connection.
LEMMA NoneOpen ==
    ASSUME IInv, NEW c \in Calls, pc[c] = "queued", MyTurn(c)
    PROVE  open = {} /\ pending = {}
<1>1. \A d \in Calls : ~Inside(d)
  BY Alone DEF IInv
<1>2. \A d \in open : d \in Calls /\ pc[d] = "body"
  BY DEF IInv, TypeOK, Connection, Calls
<1> QED BY <1>1, <1>2 DEF Inside, IInv, Connection

LEMMA ExecuteKeeps == ASSUME IInv, NEW c \in Calls, Execute(c) PROVE IInv'
<1> USE DEF IInv
<1>1. /\ pc[c] = "queued" /\ c \in Statements /\ MyTurn(c)
      /\ pc' = [pc EXCEPT ![c] = "leave"] /\ reply' = [reply EXCEPT ![c] = "ok"]
      /\ UNCHANGED <<tail, resolved, mine, at, open, closed>>
  BY DEF Execute, Finish, Goto
<1>2. open = {} /\ pending = {}
  BY <1>1, NoneOpen
<1>3. stored' = stored \cup {<<c, 1>>} /\ pending' = pending
  BY <1>2 DEF Execute, Write
<1>4. TypeOK'
  BY <1>1, <1>3 DEF TypeOK
<1>5. Chain'
  BY <1>1, ChainKept DEF Inside
<1>6. Connection'
  BY <1>1, <1>2, <1>3 DEF Connection, TypeOK
<1>7. AnswersAreTrue'
  <2>1. c \notin Transactions /\ WritesOf(c) = {<<c, 1>>}
    BY <1>1, SqliteAssumption DEF WritesOf
  <2>2. \A d \in Calls : WritesOf(d)' = WritesOf(d)
    BY DEF WritesOf
  <2> QED BY <1>1, <1>3, <2>1, <2>2 DEF AnswersAreTrue, TypeOK
<1> QED BY <1>4, <1>5, <1>6, <1>7

\* ExecuteFails and BeginFails: the call only gets its error.
LEMMA RefusalKeeps ==
    ASSUME IInv, NEW c \in Calls, ExecuteFails(c) \/ BeginFails(c) PROVE IInv'
<1> USE DEF IInv
<1>1. /\ pc[c] = "queued" /\ MyTurn(c)
      /\ pc' = [pc EXCEPT ![c] = "leave"] /\ reply' = [reply EXCEPT ![c] = "error"]
      /\ UNCHANGED <<tail, resolved, mine, at, open, pending, stored, closed>>
  BY DEF ExecuteFails, BeginFails, Finish, Goto
<1>2. open = {} /\ reply[c] = "none"
  BY <1>1, NoneOpen DEF Connection
<1>3. TypeOK'
  BY <1>1 DEF TypeOK
<1>4. Chain'
  BY <1>1, ChainKept DEF Inside
<1>5. Connection' /\ AnswersAreTrue'
  BY <1>1, <1>2 DEF Connection, AnswersAreTrue, TypeOK, WritesOf
<1> QED BY <1>3, <1>4, <1>5

LEMMA BeginKeeps == ASSUME IInv, NEW c \in Calls, Begin(c) PROVE IInv'
<1> USE DEF IInv
<1>1. /\ pc[c] = "queued" /\ MyTurn(c) /\ c \in Transactions /\ closed = FALSE
      /\ pc' = [pc EXCEPT ![c] = "body"] /\ open' = open \cup {c}
      /\ UNCHANGED <<tail, resolved, mine, at, reply, pending, stored, closed>>
  BY DEF Begin, Goto, TypeOK
<1>2. open = {} /\ pending = {} /\ at[c] = 0
  BY <1>1, NoneOpen DEF Connection
<1>3. TypeOK'
  BY <1>1 DEF TypeOK
<1>4. Chain'
  BY <1>1, ChainKept DEF Inside
<1>5. {c} \X (1..at[c]) = {}
  BY <1>2
<1>6. Connection'
  BY <1>1, <1>2, <1>5 DEF Connection, TypeOK
<1>7. AnswersAreTrue'
  BY <1>1 DEF AnswersAreTrue, WritesOf
<1> QED BY <1>3, <1>4, <1>6, <1>7

\* Inside a transaction the connection's open transaction is that one.
LEMMA OwnBody ==
    ASSUME IInv, NEW c \in Calls, pc[c] = "body"
    PROVE  /\ open = {c} /\ c \in Transactions /\ closed = FALSE
           /\ pending = {c} \X (1..at[c])
           /\ reply[c] = "none"
<1>1. c \in open
  BY DEF IInv, Connection
<1>2. \A d \in open : d \in Calls /\ Inside(d)
  BY DEF IInv, TypeOK, Connection, Calls, Inside
<1>3. open = {c}
  BY <1>1, <1>2, OneBody DEF IInv
<1> QED BY <1>1, <1>3 DEF IInv, TypeOK, Connection

LEMMA BodyKeeps == ASSUME IInv, NEW c \in Calls, BodyStatement(c) PROVE IInv'
<1> USE DEF IInv
<1>1. /\ pc[c] = "body" /\ at[c] < BodySize /\ at' = [at EXCEPT ![c] = @ + 1]
      /\ UNCHANGED <<tail, resolved, mine, pc, reply, open, closed>>
  BY DEF BodyStatement
<1>2. open = {c} /\ pending = {c} \X (1..at[c]) /\ reply[c] = "none"
  BY <1>1, OwnBody
<1>3. pending' = pending \cup {<<c, at[c] + 1>>} /\ stored' = stored
  BY <1>2 DEF BodyStatement, Write
<1>4. at \in [Calls -> 0..BodySize] /\ at[c] \in 0..BodySize
  BY DEF TypeOK
<1>5. TypeOK'
  <2>1. at' \in [Calls -> 0..BodySize]
    BY <1>1, <1>4, SqliteAssumption
  <2>2. pending' \in SUBSET (Calls \X Nat)
    BY <1>3, <1>4, SqliteAssumption DEF TypeOK
  <2> QED BY <1>1, <1>3, <2>1, <2>2 DEF TypeOK
<1>6. Chain'
  BY <1>1 DEF Chain, Inside
<1>7. pending' = {c} \X (1..at'[c])
  <2>1. 1..(at[c] + 1) = (1..at[c]) \cup {at[c] + 1}
    BY <1>4, SqliteAssumption
  <2> QED BY <1>1, <1>2, <1>3, <1>4, <2>1
<1>8. Connection'
  BY <1>1, <1>2, <1>7 DEF Connection, TypeOK
<1>9. AnswersAreTrue'
  BY <1>1, <1>3 DEF AnswersAreTrue, WritesOf
<1> QED BY <1>5, <1>6, <1>8, <1>9

LEMMA CommitKeeps == ASSUME IInv, NEW c \in Calls, Commit(c) PROVE IInv'
<1> USE DEF IInv
<1>1. /\ pc[c] = "body" /\ at[c] = BodySize
      /\ stored' = stored \cup pending /\ pending' = {} /\ open' = {}
      /\ pc' = [pc EXCEPT ![c] = "leave"] /\ reply' = [reply EXCEPT ![c] = "ok"]
      /\ UNCHANGED <<tail, resolved, mine, at, closed>>
  BY DEF Commit, Finish, Goto
<1>2. open = {c} /\ c \in Transactions /\ pending = {c} \X (1..at[c])
  BY <1>1, OwnBody
<1>3. TypeOK'
  BY <1>1 DEF TypeOK
<1>4. Chain'
  <2>1. Inside(c)
    BY <1>1 DEF Inside
  <2> QED BY <1>1, <2>1, ChainKept
<1>5. Connection'
  BY <1>1, <1>2 DEF Connection, TypeOK
<1>6. AnswersAreTrue'
  <2>1. pending = WritesOf(c)
    BY <1>1, <1>2 DEF WritesOf
  <2>2. \A w \in pending : w[1] = c
    BY <1>2
  <2>3. \A d \in Calls : WritesOf(d)' = WritesOf(d)
    BY DEF WritesOf
  <2> QED BY <1>1, <2>1, <2>2, <2>3 DEF AnswersAreTrue, TypeOK
<1> QED BY <1>3, <1>4, <1>5, <1>6

LEMMA RollbackKeeps == ASSUME IInv, NEW c \in Calls, Rollback(c) PROVE IInv'
<1> USE DEF IInv
<1>1. /\ pc[c] = "body" /\ pending' = {} /\ open' = {}
      /\ pc' = [pc EXCEPT ![c] = "leave"] /\ reply' = [reply EXCEPT ![c] = "error"]
      /\ UNCHANGED <<tail, resolved, mine, at, stored, closed>>
  BY DEF Rollback, Finish, Goto
<1>2. open = {c} /\ reply[c] = "none"
  BY <1>1, OwnBody
<1>3. TypeOK'
  BY <1>1 DEF TypeOK
<1>4. Chain'
  <2>1. Inside(c)
    BY <1>1 DEF Inside
  <2> QED BY <1>1, <2>1, ChainKept
<1>5. Connection' /\ AnswersAreTrue'
  BY <1>1, <1>2 DEF Connection, AnswersAreTrue, TypeOK, WritesOf
<1> QED BY <1>3, <1>4, <1>5

LEMMA CloseKeeps == ASSUME IInv, NEW c \in Calls, Close(c) PROVE IInv'
<1> USE DEF IInv
<1>1. /\ pc[c] = "queued" /\ MyTurn(c) /\ c = Closer /\ closed' = TRUE
      /\ pc' = [pc EXCEPT ![c] = "leave"] /\ reply' = [reply EXCEPT ![c] = "ok"]
      /\ UNCHANGED <<tail, resolved, mine, at, open, pending, stored>>
  BY DEF Close, Finish, Goto
<1>2. open = {}
  BY <1>1, NoneOpen
<1>3. TypeOK'
  BY <1>1, <1>2 DEF TypeOK
<1>4. Chain'
  BY <1>1, ChainKept DEF Inside
<1>5. Connection' /\ AnswersAreTrue'
  BY <1>1, <1>2 DEF Connection, AnswersAreTrue, TypeOK, WritesOf
<1> QED BY <1>3, <1>4, <1>5

-------------------------------------------------------------------------------
(* The theorems. *)

LEMMA ChainHolds == Spec => []IInv
<1>1. ASSUME IInv, [Next]_vars PROVE IInv'
  <2>1. CASE UNCHANGED vars
    <3>1. TypeOK' /\ Chain' /\ Connection' /\ AnswersAreTrue'
      BY <1>1, <2>1 DEF vars, IInv, TypeOK, Chain, Connection, AnswersAreTrue, Inside,
         WritesOf
    <3> QED BY <3>1 DEF IInv
  <2>2. ASSUME NEW c \in Calls, Enter(c) \/ Progress(c) PROVE IInv'
    BY <1>1, <2>2, EnterKeeps, ExecuteKeeps, RefusalKeeps, BeginKeeps, BodyKeeps, CommitKeeps,
       RollbackKeeps, CloseKeeps, LeaveKeeps DEF Progress
  <2> QED BY <1>1, <2>1, <2>2 DEF Next
<1> QED BY Initially, <1>1, PTL DEF Spec

\* The state stays well formed, and the connection is never closed under an
\* open transaction.
THEOREM ConnectionIsWellFormed == Spec => []TypeOK
<1>1. IInv => TypeOK
  BY DEF IInv
<1> QED BY ChainHolds, <1>1, PTL

\* Transactions of sqlite-db.ts never pick up another handler's write.
THEOREM TransactionsAreIsolated == Spec => []NoForeignWrite
<1>1. ASSUME IInv PROVE NoForeignWrite
  <2>1. ASSUME NEW c \in open
        PROVE  (\A d \in open : d = c) /\ (\A w \in pending : w[1] = c)
    <3>1. c \in Calls /\ pc[c] = "body"
      BY <1>1, <2>1 DEF IInv, TypeOK, Connection, Calls
    <3>2. open = {c} /\ pending = {c} \X (1..at[c])
      BY <1>1, <3>1, OwnBody
    <3> QED BY <3>2
  <2> QED BY <2>1 DEF NoForeignWrite
<1> QED BY ChainHolds, <1>1, PTL

\* What prepare().run() and transaction() report is what the database holds.
THEOREM AnswersMatchDatabase == Spec => []AnswersAreTrue
<1>1. IInv => AnswersAreTrue
  BY DEF IInv
<1> QED BY ChainHolds, <1>1, PTL

\* The promise chain of Mutex.run serves calls in the order they were made.
THEOREM MutexIsFair == Spec => []FirstComeFirstServed
<1>1. ASSUME IInv PROVE FirstComeFirstServed
  <2>1. ASSUME NEW c \in Calls, NEW d \in Calls,
               0 < mine[c], mine[c] < mine[d], pc[d] # "queued"
        PROVE  pc[c] = "done"
    <3>1. mine[c] \in Nat /\ mine[d] \in Nat
      BY <1>1 DEF IInv, TypeOK
    <3>2. mine[d] \in resolved \/ mine[d] - 1 \in resolved
      BY <1>1, <2>1, <3>1 DEF IInv, Chain, TypeOK, Inside
    <3>3. mine[c] \in resolved
      BY <1>1, <2>1, <3>1, <3>2 DEF IInv, Chain
    <3> QED BY <1>1, <2>1, <3>3 DEF IInv, Chain
  <2> QED BY <2>1 DEF FirstComeFirstServed
<1> QED BY ChainHolds, <1>1, PTL

-------------------------------------------------------------------------------
(* The contract of a driver. *)

Client == Statements \cup Transactions

\* Steps that neither commit nor answer show nothing to the callers.
LEMMA SilentStep ==
    ASSUME stored' = stored, \A d \in Client : reply'[d] = reply[d]
    PROVE  UNCHANGED Contract!vars
  BY DEF Client, Contract!vars

LEMMA AnswerStep ==
    ASSUME IInv, NEW c \in Client, NEW r, reply[c] = "none",
           reply' = [reply EXCEPT ![c] = r]
    PROVE  Contract!Answer(c, r) /\ Contract!Untouched(c)
<1>1. reply \in [Calls -> {"none", "ok", "error"}]
  BY DEF IInv, TypeOK
<1>2. Client \subseteq Calls
  BY DEF Client, Calls
<1>3. Contract!Answer(c, r)
  BY <1>1, <1>2 DEF Contract!Answer, Client
<1>4. \A w \in stored : w[1] # c
  BY DEF IInv, AnswersAreTrue
<1> QED BY <1>3, <1>4 DEF Contract!Untouched

LEMMA ContractStep ==
    ASSUME IInv, NEW c \in Calls, Enter(c) \/ Progress(c)
    PROVE  [Contract!Next]_(Contract!vars)
<1>1. Client \subseteq Calls /\ Closer \notin Client
  BY SqliteAssumption DEF Client, Calls
<1>2. reply \in [Calls -> {"none", "ok", "error"}]
  BY DEF IInv, TypeOK
<1>3. CASE Enter(c) \/ Leave(c) \/ Begin(c)
  BY <1>3, SilentStep DEF Enter, Leave, Begin
<1>4. CASE BodyStatement(c)
  <2>1. open = {c}
    BY <1>4, OwnBody DEF BodyStatement
  <2> QED BY <1>4, <2>1, SilentStep DEF BodyStatement, Write
<1>5. CASE Close(c)
  BY <1>1, <1>2, <1>5, SilentStep DEF Close, Finish
<1>6. CASE ExecuteFails(c) \/ BeginFails(c) \/ Rollback(c)
  <2>1. c \in Client /\ reply[c] = "none"
    <3>1. CASE Rollback(c)
      BY <3>1, OwnBody DEF Rollback, Client
    <3>2. CASE ExecuteFails(c) \/ BeginFails(c)
      BY <3>2 DEF ExecuteFails, BeginFails, Client, IInv, Connection
    <3> QED BY <1>6, <3>1, <3>2
  <2>2. reply' = [reply EXCEPT ![c] = "error"] /\ stored' = stored
    BY <1>6 DEF ExecuteFails, BeginFails, Rollback, Finish
  <2>3. Contract!Fail(c)
    BY <2>1, <2>2, AnswerStep DEF Contract!Fail
  <2> QED BY <2>1, <2>3 DEF Contract!Next, Client
<1>7. CASE Execute(c)
  <2>1. c \in Client /\ c \notin Transactions /\ reply[c] = "none" /\ open = {}
    BY <1>7, SqliteAssumption, NoneOpen DEF Execute, Client, IInv, Connection
  <2>2. reply' = [reply EXCEPT ![c] = "ok"] /\ stored' = stored \cup {<<c, 1>>}
    BY <1>7, <2>1 DEF Execute, Finish, Write
  <2>3. Contract!WritesOf(c) = {<<c, 1>>}
    BY <2>1 DEF Contract!WritesOf, Client
  <2>4. Contract!Succeed(c)
    BY <2>1, <2>2, <2>3, AnswerStep DEF Contract!Succeed, Contract!Apply
  <2> QED BY <2>1, <2>4 DEF Contract!Next, Client
<1>8. CASE Commit(c)
  <2>1. pc[c] = "body" /\ at[c] = BodySize
    BY <1>8 DEF Commit
  <2>2. c \in Client /\ c \in Transactions /\ reply[c] = "none" /\ pending = {c} \X (1..BodySize)
    BY <2>1, OwnBody DEF Client
  <2>3. reply' = [reply EXCEPT ![c] = "ok"] /\ stored' = stored \cup pending
    BY <1>8 DEF Commit, Finish
  <2>4. Contract!WritesOf(c) = pending
    BY <2>2 DEF Contract!WritesOf, Client
  <2>5. Contract!Succeed(c)
    BY <2>2, <2>3, <2>4, AnswerStep DEF Contract!Succeed, Contract!Apply
  <2> QED BY <2>2, <2>5 DEF Contract!Next, Client
<1> QED BY <1>3, <1>4, <1>5, <1>6, <1>7, <1>8 DEF Progress

\* The mutex, BEGIN IMMEDIATE and ROLLBACK add up to what a handler is promised
\* of DbClient: every call is carried out whole or not at all, once, and the
\* answer says which.
THEOREM SqliteImplementsContract == Spec => ContractSpec
<1>1. Init => Contract!Init
  BY DEF Init, Contract!Init, Calls
<1>2. IInv /\ [Next]_vars => [Contract!Next]_(Contract!vars)
  <2>1. ASSUME UNCHANGED vars PROVE UNCHANGED Contract!vars
    BY <2>1, SilentStep DEF vars
  <2> QED BY <2>1, ContractStep DEF Next
<1> QED BY <1>1, <1>2, ChainHolds, PTL DEF Spec, ContractSpec, Contract!Spec

-------------------------------------------------------------------------------
(* Migrations. *)

Holding == {"look", "execute", "record", "commit"}

\* The versions a runner is through with, and what its release says of one.
Before(r) == {Schema!List(r)[k] : k \in 1..(mAt[r] - 1)}
Own(r, v) == IF v \in edited[r] THEN "edited" ELSE "original"

Placed(r) ==
    /\ mPc[r] \notin Holding => mAt[r] = 1
    /\ mPc[r] \in Holding \ {"commit"} => mAt[r] <= Len(Schema!List(r))
    /\ mPc[r] = "commit" => mAt[r] = Len(Schema!List(r)) + 1

Work(r) ==
    /\ mPc[r] \in {"execute", "record"} => ledger[Schema!Version(r)] = "absent"
    /\ \A v \in Schema!Versions :
        /\ v \in effects[r] <=>
              /\ ledger[v] = "absent"
              /\ v \in Before(r) \/ (mPc[r] = "record" /\ v = Schema!Version(r))
        /\ v \in Before(r) => Own(r, v) = IF rows[r][v] # "absent" THEN rows[r][v] ELSE ledger[v]
        /\ v \notin Before(r) => rows[r][v] = "absent"
        /\ ledger[v] \in Schema!Texts => rows[r][v] = "absent"

SchemaInv ==
    /\ Schema!TypeOK
    /\ Schema!LedgerMatchesSchema
    /\ Schema!SuccessMeansUnchanged
    /\ \A r \in Schema!Runners : Placed(r) /\ Work(r)

LEMMA SixVersions == Len(Schema!ServerList) = 6
  BY DEF Schema!ServerList

\* Both lists name each version once.
LEMMA Lists ==
  ASSUME NEW r
  PROVE  /\ Len(Schema!List(r)) \in 1..6 /\ 1 <= Len(Schema!List(r))
         /\ \A k \in 1..Len(Schema!List(r)) : Schema!List(r)[k] \in Schema!Versions
         /\ \A j, k \in 1..Len(Schema!List(r)) : Schema!List(r)[j] = Schema!List(r)[k] => j = k
         /\ Schema!ToSet(Schema!List(r)) = {Schema!List(r)[k] : k \in 1..Len(Schema!List(r))}
<1>2. CASE r \in Scripts
  <2>1. Schema!List(r) = Schema!ScriptList
    BY <1>2 DEF Schema!List
  <2>2. Len(Schema!ScriptList) = 5
    BY DEF Schema!ScriptList
  <2>3. \A k \in 1..5 : Schema!ScriptList[k] \in Schema!Versions
    BY DEF Schema!ScriptList, Schema!Versions, Schema!ServerList, Schema!ToSet
  <2>4. \A j, k \in 1..5 : Schema!ScriptList[j] = Schema!ScriptList[k] => j = k
    BY DEF Schema!ScriptList
  <2>5. Schema!ToSet(Schema!ScriptList) = {Schema!ScriptList[k] : k \in 1..5}
    BY DEF Schema!ToSet, Schema!ScriptList
  <2> QED BY <2>1, <2>2, <2>3, <2>4, <2>5
<1>3. CASE r \notin Scripts
  <2>1. Schema!List(r) = Schema!ServerList
    BY <1>3 DEF Schema!List
  <2>2. \A k \in 1..6 : Schema!ServerList[k] \in Schema!Versions
    BY DEF Schema!Versions, Schema!ServerList, Schema!ToSet
  <2>3. \A j, k \in 1..6 : Schema!ServerList[j] = Schema!ServerList[k] => j = k
    BY DEF Schema!ServerList
  <2>4. Schema!ToSet(Schema!ServerList) = {Schema!ServerList[k] : k \in 1..6}
    BY DEF Schema!ToSet, Schema!ServerList
  <2>5. Len(Schema!List(r)) = 6
    BY <2>1, SixVersions
  <2> QED BY <2>1, <2>2, <2>3, <2>4, <2>5
<1> QED BY <1>2, <1>3

LEMMA AtVersion ==
  ASSUME SchemaInv, NEW r \in Schema!Runners
  PROVE  /\ mAt[r] \in 1..7
         /\ Before(r) \subseteq Schema!Versions
         /\ mPc[r] \notin Holding => Before(r) = {}
         /\ mPc[r] \in Holding \ {"commit"} =>
              /\ Schema!Version(r) \in Schema!Versions
              /\ Schema!Version(r) \notin Before(r)
              /\ Schema!Version(r) \in Schema!ToSet(Schema!List(r))
         /\ mPc[r] = "commit" => Before(r) = Schema!ToSet(Schema!List(r))
<1>1. mAt[r] \in 1..7 /\ Placed(r)
  BY SixVersions DEF SchemaInv, Schema!TypeOK
<1>2. Before(r) \subseteq Schema!Versions
  BY <1>1, Lists DEF Placed, Before, Schema!TypeOK
<1>3. mPc[r] \notin Holding => Before(r) = {}
  BY <1>1 DEF Placed, Before
<1>4. mPc[r] \in Holding \ {"commit"} =>
              /\ Schema!Version(r) \in Schema!Versions
              /\ Schema!Version(r) \notin Before(r)
              /\ Schema!Version(r) \in Schema!ToSet(Schema!List(r))
  BY <1>1, Lists DEF Placed, Before, Schema!Version
<1>5. mPc[r] = "commit" => Before(r) = Schema!ToSet(Schema!List(r))
  BY <1>1, Lists DEF Placed, Before
<1> QED BY <1>1, <1>2, <1>3, <1>4, <1>5

LEMMA Advances ==
  ASSUME SchemaInv, NEW r \in Schema!Runners, mPc[r] \in {"look", "record"}, Schema!Advance(r)
  PROVE  /\ mAt' \in [Schema!Runners -> 1..(Len(Schema!ServerList) + 1)]
         /\ Before(r)' = Before(r) \cup {Schema!Version(r)}
         /\ Placed(r)'
         /\ mPc' \in {[mPc EXCEPT ![r] = "commit"], [mPc EXCEPT ![r] = "look"]}
         /\ \A q \in Schema!Runners : q # r => mAt'[q] = mAt[q]
<1>1. /\ mAt \in [Schema!Runners -> 1..7] /\ DOMAIN mPc = Schema!Runners
      /\ mAt[r] <= Len(Schema!List(r)) /\ Len(Schema!List(r)) \in 1..6
  <2>1. mAt \in [Schema!Runners -> 1..7] /\ DOMAIN mPc = Schema!Runners
    BY SixVersions DEF SchemaInv, Schema!TypeOK
  <2>2. mAt[r] <= Len(Schema!List(r))
    BY DEF SchemaInv, Placed, Holding
  <2> QED BY <2>1, <2>2, Lists
<1>2. mAt' = [mAt EXCEPT ![r] = mAt[r] + 1]
  BY DEF Schema!Advance
<1>3. mPc' \in {[mPc EXCEPT ![r] = "commit"], [mPc EXCEPT ![r] = "look"]}
  BY DEF Schema!Advance, Schema!Goto
<1>4. mPc'[r] = IF mAt[r] = Len(Schema!List(r)) THEN "commit" ELSE "look"
  BY <1>1 DEF Schema!Advance, Schema!Goto
<1>5. mAt'[r] = mAt[r] + 1
  BY <1>1, <1>2
<1>6. Placed(r)'
  BY <1>1, <1>4, <1>5 DEF Placed, Holding
<1>7. Before(r)' = Before(r) \cup {Schema!Version(r)}
  <2>1. 1..(mAt'[r] - 1) = (1..(mAt[r] - 1)) \cup {mAt[r]}
    BY <1>1, <1>5
  <2> QED BY <2>1 DEF Before, Schema!Version
<1>8. mAt' \in [Schema!Runners -> 1..7] /\ \A q \in Schema!Runners : q # r => mAt'[q] = mAt[q]
  <2> DEFINE n == Len(Schema!List(r))
             m == mAt[r]
  <2>1. n \in 1..6 /\ m \in 1..7 /\ m <= n
    BY <1>1
  <2>2. m + 1 \in 1..7
    <3> HIDE DEF n, m
    <3> QED BY <2>1
  <2> QED BY <1>1, <1>2, <2>2
<1> QED BY <1>3, <1>6, <1>7, <1>8, SixVersions

\* A runner whose own state and whose ledger stay as they are.
LEMMA Stays ==
  ASSUME SchemaInv, NEW q \in Schema!Runners,
         mPc'[q] = mPc[q], mAt'[q] = mAt[q], rows'[q] = rows[q], effects'[q] = effects[q],
         UNCHANGED <<ledger, edited>>
  PROVE  Placed(q)' /\ Work(q)'
<1>1. Placed(q) /\ Work(q)
  BY DEF SchemaInv
<1>2. Before(q)' = Before(q) /\ Schema!Version(q)' = Schema!Version(q)
  BY DEF Before, Schema!Version
<1>3. Placed(q)'
  BY <1>1 DEF Placed
<1>4. Work(q)'
  BY <1>1, <1>2 DEF Work, Own
<1> QED BY <1>3, <1>4

\* A runner outside its transaction.
LEMMA Outside ==
  ASSUME NEW q \in Schema!Runners, mPc'[q] \notin Holding, mAt'[q] = 1, effects'[q] = {},
         \A v \in Schema!Versions : rows'[q][v] = "absent"
  PROVE  Placed(q)' /\ Work(q)'
<1>1. Before(q)' = {}
  BY DEF Before
<1> QED BY <1>1 DEF Placed, Work, Holding

LEMMA IsOutside ==
  ASSUME SchemaInv, NEW q \in Schema!Runners, mPc[q] \notin Holding
  PROVE  mAt[q] = 1 /\ effects[q] = {} /\ \A v \in Schema!Versions : rows[q][v] = "absent"
<1>1. Before(q) = {} /\ Placed(q) /\ Work(q) /\ effects[q] \subseteq Schema!Versions
  BY AtVersion DEF SchemaInv, Schema!TypeOK
<1> QED BY <1>1 DEF Placed, Work, Holding

\* Begin, Retry, Lock and Missing: nothing is written.
LEMMA WaitKeeps ==
  ASSUME SchemaInv, NEW r \in Schema!Runners, Schema!Begin(r) \/ Schema!Retry(r)
  PROVE  SchemaInv'
<1>1. PICK to \in {"lock", "start"} : mPc' = [mPc EXCEPT ![r] = to]
  BY DEF Schema!Begin, Schema!Retry, Schema!Goto
<1>2. /\ mPc[r] \notin Holding /\ mPc[r] # "ok"
      /\ UNCHANGED <<ledger, ran, lock, edited, mAt, rows, effects>>
  BY DEF Schema!Begin, Schema!Retry, Holding
<1>3. Schema!TypeOK'
  BY <1>1, <1>2 DEF SchemaInv, Schema!TypeOK, Holding
<1>4. Schema!LedgerMatchesSchema' /\ Schema!SuccessMeansUnchanged'
  BY <1>1, <1>2
     DEF SchemaInv, Schema!TypeOK, Schema!LedgerMatchesSchema, Schema!SuccessMeansUnchanged
<1>5. ASSUME NEW q \in Schema!Runners PROVE Placed(q)' /\ Work(q)'
  <2>1. CASE q = r
    BY <1>1, <1>2, <2>1, IsOutside, Outside DEF Holding, SchemaInv, Schema!TypeOK
  <2>2. CASE q # r
    BY <1>1, <1>2, <2>2, Stays DEF SchemaInv, Schema!TypeOK
  <2> QED BY <2>1, <2>2
<1> QED BY <1>3, <1>4, <1>5 DEF SchemaInv

LEMMA LockKeeps ==
  ASSUME Schema!MigrationsAssumption, SchemaInv, NEW r \in Schema!Runners, Schema!Lock(r)
  PROVE  SchemaInv'
<1>1. /\ mPc[r] = "lock" /\ lock = NoRunner /\ lock' = r /\ mPc' = [mPc EXCEPT ![r] = "look"]
      /\ UNCHANGED <<ledger, ran, edited, mAt, rows, effects>>
  BY DEF Schema!Lock, Schema!Goto
<1>2. \A q \in Schema!Runners : mPc[q] \notin Holding
  BY <1>1 DEF SchemaInv, Schema!TypeOK, Schema!MigrationsAssumption, Holding
<1>3. Schema!TypeOK'
  BY <1>1, <1>2 DEF SchemaInv, Schema!TypeOK, Holding
<1>4. Schema!LedgerMatchesSchema' /\ Schema!SuccessMeansUnchanged'
  BY <1>1
     DEF SchemaInv, Schema!TypeOK, Schema!LedgerMatchesSchema, Schema!SuccessMeansUnchanged
<1>5. ASSUME NEW q \in Schema!Runners PROVE Placed(q)' /\ Work(q)'
  <2>1. CASE q = r
    <3>1. mAt'[r] = 1 /\ effects'[r] = {} /\ \A v \in Schema!Versions : rows'[r][v] = "absent"
      BY <1>1, <1>2, IsOutside
    <3>2. mPc'[r] = "look"
      BY <1>1 DEF SchemaInv, Schema!TypeOK
    <3>3. Placed(r)'
      <4>1. 1 <= Len(Schema!List(r))
        BY Lists
      <4> QED BY <3>1, <3>2, <4>1 DEF Placed, Holding
    <3>4. Before(r)' = {}
      BY <3>1 DEF Before
    <3>5. Work(r)'
      BY <3>1, <3>2, <3>4 DEF Work
    <3> QED BY <2>1, <3>3, <3>5
  <2>2. CASE q # r
    BY <1>1, <2>2, Stays DEF SchemaInv, Schema!TypeOK
  <2> QED BY <2>1, <2>2
<1> QED BY <1>3, <1>4, <1>5 DEF SchemaInv

LEMMA LookKeeps ==
  ASSUME SchemaInv, NEW r \in Schema!Runners, Schema!Missing(r) \/ Schema!Execute(r)
  PROVE  SchemaInv'
<1>1. /\ UNCHANGED <<ledger, ran, lock, edited, mAt, rows>>
      /\ \/ /\ mPc[r] = "look" /\ mPc' = [mPc EXCEPT ![r] = "execute"]
            /\ Schema!Row(r) = "absent" /\ effects' = effects
         \/ /\ mPc[r] = "execute" /\ mPc' = [mPc EXCEPT ![r] = "record"]
            /\ effects' = [effects EXCEPT ![r] = effects[r] \cup {Schema!Version(r)}]
  BY DEF Schema!Missing, Schema!Execute, Schema!Goto
<1>2. Placed(r) /\ Work(r)
  BY DEF SchemaInv
<1>3. Schema!Version(r) \in Schema!Versions /\ Schema!Version(r) \notin Before(r)
  BY <1>1, AtVersion DEF Holding
<1>4. Schema!TypeOK'
  <2>1. effects' \in [Schema!Runners -> SUBSET Schema!Versions]
    <3>1. effects \in [Schema!Runners -> SUBSET Schema!Versions]
      BY DEF SchemaInv, Schema!TypeOK
    <3>2. effects[r] \cup {Schema!Version(r)} \in SUBSET Schema!Versions
      BY <1>3, <3>1
    <3> QED BY <1>1, <3>1, <3>2
  <2>2. /\ mPc' \in [Schema!Runners -> {"start", "lock", "look", "execute", "record", "commit",
                                        "ok", "failed"}]
        /\ \A q \in Schema!Runners :
              mPc'[q] \in {"look", "execute", "record", "commit"} <=> lock = q
    BY <1>1 DEF SchemaInv, Schema!TypeOK
  <2> QED BY <1>1, <2>1, <2>2 DEF SchemaInv, Schema!TypeOK
<1>5. Schema!LedgerMatchesSchema' /\ Schema!SuccessMeansUnchanged'
  BY <1>1
     DEF SchemaInv, Schema!TypeOK, Schema!LedgerMatchesSchema, Schema!SuccessMeansUnchanged
<1>6. Before(r)' = Before(r) /\ Schema!Version(r)' = Schema!Version(r)
  BY <1>1 DEF Before, Schema!Version
<1>7. ledger[Schema!Version(r)] = "absent"
  BY <1>1, <1>2, <1>3 DEF Work, Schema!Row
<1>8. Placed(r)'
  BY <1>1, <1>2 DEF Placed, Holding, SchemaInv, Schema!TypeOK
<1>9. Work(r)'
  BY <1>1, <1>2, <1>3, <1>6, <1>7 DEF Work, Own, SchemaInv, Schema!TypeOK
<1>10. ASSUME NEW q \in Schema!Runners, q # r PROVE Placed(q)' /\ Work(q)'
  BY <1>1, <1>10, Stays DEF SchemaInv, Schema!TypeOK
<1> QED BY <1>4, <1>5, <1>8, <1>9, <1>10 DEF SchemaInv

\* A runner is through with a version, whose row it may have written.
LEMMA PassKeeps ==
  ASSUME SchemaInv, NEW r \in Schema!Runners, mPc[r] \in {"look", "record"}, Schema!Advance(r),
         UNCHANGED <<ledger, ran, lock, edited, effects>>,
         NEW v, v = Schema!Version(r),
         \/ rows' = rows /\ rows[r][v] = "absent" /\ ledger[v] = Own(r, v)
         \/ rows' = [rows EXCEPT ![r][v] = Own(r, v)] /\ ledger[v] \notin Schema!Texts,
         mPc[r] = "look" => ledger[v] # "absent"
  PROVE  SchemaInv'
<1>1. /\ mAt' \in [Schema!Runners -> 1..(Len(Schema!ServerList) + 1)]
      /\ Before(r)' = Before(r) \cup {v} /\ Placed(r)'
      /\ mPc' \in {[mPc EXCEPT ![r] = "commit"], [mPc EXCEPT ![r] = "look"]}
      /\ \A q \in Schema!Runners : q # r => mAt'[q] = mAt[q]
  BY Advances
<1>2. v \in Schema!Versions /\ v \notin Before(r) /\ Work(r)
  BY AtVersion DEF Holding, SchemaInv
<1>3. rows \in [Schema!Runners -> [Schema!Versions -> {"absent", "original", "edited"}]]
  BY DEF SchemaInv, Schema!TypeOK, Schema!Texts
<1>4. Own(r, v) \in {"original", "edited"}
  BY DEF Own
<1>5. /\ \A q \in Schema!Runners : q # r => rows'[q] = rows[q]
      /\ \A w \in Schema!Versions : w # v => rows'[r][w] = rows[r][w]
      /\ \/ rows'[r][v] = "absent" /\ ledger[v] = Own(r, v)
         \/ rows'[r][v] = Own(r, v) /\ ledger[v] \notin Schema!Texts
  BY <1>2, <1>3
<1>6. Schema!TypeOK'
  <2>1. rows' \in [Schema!Runners -> [Schema!Versions -> {"absent", "original", "edited"}]]
    BY <1>2, <1>3, <1>4
  <2>2. /\ mPc' \in [Schema!Runners -> {"start", "lock", "look", "execute", "record", "commit",
                                        "ok", "failed"}]
        /\ \A q \in Schema!Runners :
              mPc'[q] \in {"look", "execute", "record", "commit"} <=> lock = q
    BY <1>1 DEF SchemaInv, Schema!TypeOK
  <2> QED BY <1>1, <2>1, <2>2 DEF SchemaInv, Schema!TypeOK, Schema!Texts
<1>7. Schema!LedgerMatchesSchema' /\ Schema!SuccessMeansUnchanged'
  BY <1>1
     DEF SchemaInv, Schema!TypeOK, Schema!LedgerMatchesSchema, Schema!SuccessMeansUnchanged
<1>8. Work(r)'
  <2>1. mPc'[r] \in {"commit", "look"}
    BY <1>1 DEF SchemaInv, Schema!TypeOK
  <2>2. v \in effects[r] <=> ledger[v] = "absent"
    BY <1>2 DEF Work
  <2>3. ASSUME NEW w \in Schema!Versions
        PROVE  /\ w \in effects[r] <=> ledger[w] = "absent" /\ w \in Before(r) \cup {v}
               /\ w \in Before(r) \cup {v} =>
                     Own(r, w) = IF rows'[r][w] # "absent" THEN rows'[r][w] ELSE ledger[w]
               /\ w \notin Before(r) \cup {v} => rows'[r][w] = "absent"
               /\ ledger[w] \in Schema!Texts => rows'[r][w] = "absent"
    <3>1. CASE w = v
      BY <1>4, <1>5, <2>2, <3>1 DEF Schema!Texts
    <3>2. CASE w # v
      BY <1>2, <1>5, <3>2 DEF Work
    <3> QED BY <3>1, <3>2
  <2> QED BY <1>1, <2>1, <2>3 DEF Work, Own
<1>9. ASSUME NEW q \in Schema!Runners, q # r PROVE Placed(q)' /\ Work(q)'
  BY <1>1, <1>5, <1>9, Stays DEF SchemaInv, Schema!TypeOK
<1> QED BY <1>1, <1>6, <1>7, <1>8, <1>9 DEF SchemaInv

LEMMA RecordKeeps ==
  ASSUME SchemaInv, NEW r \in Schema!Runners, Schema!Skip(r) \/ Schema!Record(r)
  PROVE  SchemaInv'
<1> DEFINE v == Schema!Version(r)
<1>1. Schema!Text(r) = Own(r, v)
  BY DEF Schema!Text, Own
<1>2. v \in Schema!Versions /\ v \notin Before(r)
  BY AtVersion DEF Schema!Skip, Schema!Record, Holding
<1>3. rows[r][v] = "absent" /\ Schema!Row(r) = ledger[v] /\ ledger[v] \in Schema!Marks
  BY <1>2 DEF SchemaInv, Work, Schema!Row, Schema!TypeOK
<1>4. /\ mPc[r] \in {"look", "record"} /\ Schema!Advance(r)
      /\ UNCHANGED <<ledger, ran, lock, edited, effects>>
      /\ mPc[r] = "look" => ledger[v] # "absent"
  BY <1>3 DEF Schema!Skip, Schema!Record
<1>5. \/ rows' = rows /\ ledger[v] = Own(r, v)
      \/ rows' = [rows EXCEPT ![r][v] = Own(r, v)] /\ ledger[v] \notin Schema!Texts
  <2>1. CASE Schema!Record(r)
    BY <1>1, <2>1 DEF Schema!Record, Schema!Texts
  <2>2. CASE Schema!Skip(r) /\ ledger[v] = "null"
    BY <1>1, <1>3, <2>2 DEF Schema!Skip, Schema!Texts
  <2>3. CASE Schema!Skip(r) /\ ledger[v] # "null"
    BY <1>1, <1>3, <2>3 DEF Schema!Skip, Schema!Changed, Schema!Marks
  <2> QED BY <2>1, <2>2, <2>3
<1> QED BY <1>3, <1>4, <1>5, PassKeeps

\* The end of a transaction leaves nothing of it with the runner.
LEMMA Closes ==
  ASSUME Schema!MigrationsAssumption, SchemaInv, NEW r \in Schema!Runners,
         NEW to \in {"ok", "failed"}, Schema!Close(r), Schema!Goto(r, to)
  PROVE  /\ mPc' \in [Schema!Runners -> {"start", "lock", "look", "execute", "record", "commit",
                                         "ok", "failed"}]
         /\ lock' \in Schema!Runners \cup {NoRunner}
         /\ \A q \in Schema!Runners :
               mPc'[q] \in {"look", "execute", "record", "commit"} <=> lock' = q
         /\ mAt' \in [Schema!Runners -> 1..(Len(Schema!ServerList) + 1)]
         /\ rows' \in [Schema!Runners -> [Schema!Versions -> {"absent"} \cup Schema!Texts]]
         /\ effects' \in [Schema!Runners -> SUBSET Schema!Versions]
         /\ Placed(r)' /\ Work(r)' /\ mPc'[r] = to
         /\ \A q \in Schema!Runners : q # r =>
               /\ mPc'[q] = mPc[q] /\ mAt'[q] = mAt[q]
               /\ rows'[q] = rows[q] /\ effects'[q] = effects[q]
<1>1. /\ rows' = [rows EXCEPT ![r] = [v \in Schema!Versions |-> "absent"]]
      /\ effects' = [effects EXCEPT ![r] = {}]
      /\ mAt' = [mAt EXCEPT ![r] = 1]
      /\ lock' = IF lock = r THEN NoRunner ELSE lock
      /\ mPc' = [mPc EXCEPT ![r] = to]
  BY DEF Schema!Close, Schema!Goto
<1>2. Schema!TypeOK
  BY DEF SchemaInv
<1>3. mPc' \in [Schema!Runners -> {"start", "lock", "look", "execute", "record", "commit",
                                   "ok", "failed"}]
      /\ mPc'[r] = to /\ \A q \in Schema!Runners : q # r => mPc'[q] = mPc[q]
  BY <1>1, <1>2 DEF Schema!TypeOK
<1>4. /\ lock' \in Schema!Runners \cup {NoRunner}
      /\ \A q \in Schema!Runners :
            mPc'[q] \in {"look", "execute", "record", "commit"} <=> lock' = q
  BY <1>1, <1>2, <1>3 DEF Schema!TypeOK, Schema!MigrationsAssumption
<1>5. mAt' \in [Schema!Runners -> 1..(Len(Schema!ServerList) + 1)]
      /\ mAt'[r] = 1 /\ \A q \in Schema!Runners : q # r => mAt'[q] = mAt[q]
  BY <1>1, <1>2, SixVersions DEF Schema!TypeOK
<1>6. rows' \in [Schema!Runners -> [Schema!Versions -> {"absent"} \cup Schema!Texts]]
      /\ (\A v \in Schema!Versions : rows'[r][v] = "absent")
      /\ \A q \in Schema!Runners : q # r => rows'[q] = rows[q]
  <2>1. [v \in Schema!Versions |-> "absent"] \in [Schema!Versions -> {"absent"} \cup Schema!Texts]
    OBVIOUS
  <2> QED BY <1>1, <1>2, <2>1 DEF Schema!TypeOK
<1>7. effects' \in [Schema!Runners -> SUBSET Schema!Versions]
      /\ effects'[r] = {} /\ \A q \in Schema!Runners : q # r => effects'[q] = effects[q]
  BY <1>1, <1>2 DEF Schema!TypeOK
<1>8. Placed(r)' /\ Work(r)'
  BY <1>3, <1>5, <1>6, <1>7, Outside DEF Holding
<1> QED BY <1>3, <1>4, <1>5, <1>6, <1>7, <1>8

LEMMA FailKeeps ==
  ASSUME Schema!MigrationsAssumption, SchemaInv, NEW r \in Schema!Runners, Schema!Fails(r)
  PROVE  SchemaInv'
<1>1. /\ Schema!Close(r) /\ Schema!Goto(r, "failed")
      /\ UNCHANGED <<ledger, ran, edited>>
  BY DEF Schema!Fails
<1>2. Schema!TypeOK'
  BY <1>1, Closes DEF SchemaInv, Schema!TypeOK
<1>3. \A q \in Schema!Runners : mPc'[q] = "ok" => mPc[q] = "ok"
  BY <1>1, Closes
<1>4. Schema!LedgerMatchesSchema' /\ Schema!SuccessMeansUnchanged'
  BY <1>1, <1>3 DEF SchemaInv, Schema!LedgerMatchesSchema, Schema!SuccessMeansUnchanged
<1>5. ASSUME NEW q \in Schema!Runners, q # r PROVE Placed(q)' /\ Work(q)'
  <2>1. /\ mPc'[q] = mPc[q] /\ mAt'[q] = mAt[q] /\ rows'[q] = rows[q] /\ effects'[q] = effects[q]
    BY <1>1, <1>5, Closes
  <2> QED BY <1>1, <2>1, Stays
<1>6. Placed(r)' /\ Work(r)'
  BY <1>1, Closes
<1> QED BY <1>2, <1>4, <1>5, <1>6 DEF SchemaInv

\* The commit: nobody else is at work, a text that was recorded stays, and the
\* runner's whole list has the texts of its release.
LEMMA WrittenKeeps ==
  ASSUME Schema!MigrationsAssumption, SchemaInv, NEW r \in Schema!Runners,
         NEW to \in {"ok", "failed"}, mPc[r] = "commit", Schema!Written(r), Schema!Close(r),
         Schema!Goto(r, to), edited' = edited
  PROVE  SchemaInv'
<1>1. /\ ledger' = [v \in Schema!Versions |->
                      IF rows[r][v] # "absent" THEN rows[r][v] ELSE ledger[v]]
      /\ ran' = [v \in Schema!Versions |-> IF v \in effects[r] THEN ran[v] + 1 ELSE ran[v]]
  BY DEF Schema!Written
<1>2. Schema!TypeOK /\ Work(r) /\ Before(r) = Schema!ToSet(Schema!List(r))
  BY AtVersion DEF SchemaInv
<1>3. ASSUME NEW v \in Schema!Versions
      PROVE  /\ ledger[v] \in Schema!Texts => ledger'[v] = ledger[v]
             /\ v \in Before(r) => ledger'[v] = Own(r, v)
             /\ v \in effects[r] <=> ledger[v] = "absent" /\ ledger'[v] # "absent"
             /\ ledger[v] # "absent" => ledger'[v] # "absent"
  <2>1. /\ v \in effects[r] <=> ledger[v] = "absent" /\ v \in Before(r)
        /\ v \in Before(r) => Own(r, v) = IF rows[r][v] # "absent" THEN rows[r][v] ELSE ledger[v]
        /\ v \notin Before(r) => rows[r][v] = "absent"
        /\ ledger[v] \in Schema!Texts => rows[r][v] = "absent"
    BY <1>2 DEF Work
  <2>2. Own(r, v) # "absent"
    BY DEF Own
  <2> QED BY <1>1, <2>1, <2>2
<1>4. ledger' \in [Schema!Versions -> Schema!Marks] /\ ran' \in [Schema!Versions -> Nat]
  BY <1>1, <1>2 DEF Schema!TypeOK, Schema!Marks
<1>5. Schema!TypeOK'
  BY <1>4, Closes DEF SchemaInv, Schema!TypeOK
<1>6. Schema!LedgerMatchesSchema'
  <2>1. ASSUME NEW v \in Schema!Versions
        PROVE  ran'[v] = IF ledger'[v] = "absent" THEN 0 ELSE 1
    <3>1. ran[v] = IF ledger[v] = "absent" THEN 0 ELSE 1
      BY DEF SchemaInv, Schema!LedgerMatchesSchema
    <3>2. ran'[v] = IF v \in effects[r] THEN ran[v] + 1 ELSE ran[v]
      BY <1>1
    <3> QED BY <1>3, <3>1, <3>2
  <2> QED BY <2>1 DEF Schema!LedgerMatchesSchema
<1>7. Schema!SuccessMeansUnchanged'
  <2>1. ASSUME NEW q \in Schema!Runners, mPc'[q] = "ok", NEW v \in Schema!ToSet(Schema!List(q))
        PROVE  ledger'[v] = Own(q, v)
    <3>1. v \in Schema!Versions
      BY Lists
    <3>2. CASE q = r
      BY <1>2, <1>3, <2>1, <3>1, <3>2
    <3>3. CASE q # r
      <4>1. mPc[q] = "ok"
        BY <2>1, <3>3, Closes
      <4>2. ledger[v] = Own(q, v)
        BY <4>1 DEF SchemaInv, Schema!SuccessMeansUnchanged, Own
      <4> QED BY <1>3, <3>1, <4>2 DEF Own, Schema!Texts
    <3> QED BY <3>2, <3>3
  <2> QED BY <2>1 DEF Schema!SuccessMeansUnchanged, Own
<1>8. ASSUME NEW q \in Schema!Runners, q # r PROVE Placed(q)' /\ Work(q)'
  <2>1. mPc[q] \notin Holding
    BY <1>2, <1>8 DEF Schema!TypeOK, Holding
  <2>2. mPc'[q] = mPc[q] /\ mAt'[q] = mAt[q] /\ rows'[q] = rows[q] /\ effects'[q] = effects[q]
    BY <1>8, Closes
  <2> QED BY <2>1, <2>2, IsOutside, Outside
<1>9. Placed(r)' /\ Work(r)'
  BY Closes
<1> QED BY <1>5, <1>6, <1>7, <1>8, <1>9 DEF SchemaInv

LEMMA SchemaStep ==
  ASSUME Schema!MigrationsAssumption, SchemaInv, Schema!Next
  PROVE  SchemaInv'
<1>1. ASSUME NEW r \in Schema!Runners, Schema!Begin(r) \/ Schema!Step(r) \/ Schema!Retry(r)
      PROVE  SchemaInv'
  BY <1>1, WaitKeeps, LockKeeps, LookKeeps, RecordKeeps, WrittenKeeps, FailKeeps
     DEF Schema!Step, Schema!Refuse, Schema!Commit
<1>2. ASSUME NEW r \in Schema!Runners, Schema!CommitLost(r) \/ Schema!Crash(r)
      PROVE  SchemaInv'
  BY <1>2, WrittenKeeps, FailKeeps DEF Schema!CommitLost, Schema!Crash
<1> QED BY <1>1, <1>2 DEF Schema!Next, Schema!Running

LEMMA SchemaInit == ASSUME Schema!MigrationsAssumption, Schema!Init PROVE SchemaInv
<1>1. Schema!TypeOK
  <2>1. PICK n \in 0..Len(Schema!ServerList), mark \in {"null", "original"} :
          ledger = [v \in Schema!Versions |->
                     IF v \in Schema!ToSet(SubSeq(Schema!ServerList, 1, n)) THEN mark ELSE "absent"]
    BY DEF Schema!Init
  <2>2. ledger \in [Schema!Versions -> Schema!Marks]
    BY <2>1 DEF Schema!Marks, Schema!Texts
  <2>3. rows \in [Schema!Runners -> [Schema!Versions -> {"absent"} \cup Schema!Texts]]
    BY DEF Schema!Init
  <2>4. ran \in [Schema!Versions -> Nat] /\ mAt \in [Schema!Runners -> 1..(Len(Schema!ServerList) + 1)]
    BY SixVersions DEF Schema!Init
  <2> QED BY <2>2, <2>3, <2>4 DEF Schema!Init, Schema!TypeOK, Schema!MigrationsAssumption
<1>2. Schema!LedgerMatchesSchema /\ Schema!SuccessMeansUnchanged
  BY DEF Schema!Init, Schema!LedgerMatchesSchema, Schema!SuccessMeansUnchanged
<1>3. ASSUME NEW r \in Schema!Runners PROVE Placed(r) /\ Work(r)
  <2>1. Before(r) = {}
    BY DEF Schema!Init, Before
  <2> QED BY <2>1 DEF Schema!Init, Placed, Work, Holding
<1> QED BY <1>1, <1>2, <1>3 DEF SchemaInv

\* Replicas of one release: no text but the one they all have.
Unedited ==
    /\ \A r \in Schema!Runners : edited[r] = {} /\ mPc[r] # "failed"
    /\ \A v \in Schema!Versions : ledger[v] # "edited"

LEMMA NotRefused ==
  ASSUME SchemaInv, Unedited, NEW r \in Schema!Runners
  PROVE  ~Schema!Refused(r)
<1>1. CASE mPc[r] = "record"
  BY <1>1 DEF Schema!Refused, SchemaInv, Work
<1>2. CASE mPc[r] = "look"
  <2>1. Schema!Version(r) \in Schema!Versions /\ rows[r][Schema!Version(r)] = "absent"
    BY <1>2, AtVersion DEF Holding, SchemaInv, Work
  <2> QED BY <1>2, <2>1
          DEF Schema!Refused, Schema!Changed, Schema!Row, Schema!Text, Schema!Texts, Unedited
<1> QED BY <1>1, <1>2 DEF Schema!Refused

LEMMA ReplicaStep ==
  ASSUME SchemaInv, Unedited, Schema!Running
  PROVE  Unedited'
<1> DEFINE Pcs == {"start", "lock", "look", "execute", "record", "commit", "ok"}
<1>1. PICK r \in Schema!Runners : Schema!Begin(r) \/ Schema!Step(r) \/ Schema!Retry(r)
  BY DEF Schema!Running
<1>2. \A q \in Schema!Runners : edited[q] = {} /\ mPc[q] # "failed"
  BY DEF Unedited
<1>3. ~Schema!Retry(r) /\ ~Schema!Refuse(r)
  BY <1>2, NotRefused DEF Schema!Retry, Schema!Refuse
<1>4. edited' = edited /\ \E to \in Pcs : mPc' = [mPc EXCEPT ![r] = to]
  BY <1>1, <1>3
     DEF Schema!Begin, Schema!Step, Schema!Lock, Schema!Skip, Schema!Missing, Schema!Execute,
         Schema!Record, Schema!Commit, Schema!Advance, Schema!Goto
<1>5. \A q \in Schema!Runners : mPc'[q] # "failed"
  BY <1>2, <1>4 DEF SchemaInv, Schema!TypeOK
<1>6. ledger' = ledger \/ Schema!Commit(r)
  BY <1>1, <1>3
     DEF Schema!Begin, Schema!Step, Schema!Lock, Schema!Skip, Schema!Missing, Schema!Execute,
         Schema!Record
<1>7. ASSUME Schema!Commit(r), NEW v \in Schema!Versions PROVE ledger'[v] # "edited"
  <2>1. rows[r][v] # "absent" => rows[r][v] = Own(r, v)
    BY DEF SchemaInv, Work
  <2>2. Own(r, v) = "original"
    BY <1>2 DEF Own
  <2> QED BY <1>7, <2>1, <2>2 DEF Schema!Commit, Schema!Written, Unedited
<1> QED BY <1>2, <1>4, <1>5, <1>6, <1>7 DEF Unedited

LEMMA ReplicaInit ==
  ASSUME Schema!Init, \A r \in Schema!Runners : edited[r] = {}
  PROVE  Unedited
  BY DEF Schema!Init, Unedited

-------------------------------------------------------------------------------
(* The SQLite file. *)

\* The columns that a process has gone through.
Added(p) == {File!AddedList[k] : k \in 1..(next[p] - 1)}

FileInv ==
    /\ File!TypeOK
    /\ File!EndsUpgraded
    /\ File!OnlyRacesFail
    /\ \A p \in Processes :
        /\ Added(p) \subseteq columns
        /\ uPc[p] # "add" => next[p] = 1
        /\ uPc[p] = "add" /\ (\A q \in Processes \ {p} : uPc[q] = "idle") =>
              columns \subseteq known[p] \cup Added(p)

LEMMA Additions ==
  /\ Len(File!AddedList) = 7
  /\ \A k \in 1..7 : File!AddedList[k] \in File!Columns
  /\ \A j, k \in 1..7 : File!AddedList[j] = File!AddedList[k] => j = k
  /\ File!ToSet(File!AddedList) = {File!AddedList[k] : k \in 1..7}
<1>1. Len(File!AddedList) = 7
  BY DEF File!AddedList
<1>2. \A j, k \in 1..7 : File!AddedList[j] = File!AddedList[k] => j = k
  BY DEF File!AddedList
<1>3. File!ToSet(File!AddedList) = {File!AddedList[k] : k \in 1..7}
  BY DEF File!ToSet, File!AddedList
<1>4. \A k \in 1..7 : File!AddedList[k] \in File!Columns
  BY <1>3 DEF File!Columns
<1> QED BY <1>1, <1>2, <1>3, <1>4

LEMMA FileMoves ==
  ASSUME FileInv, NEW p \in Processes, NEW to \in {"create", "look", "add", "ok", "failed", "crashed"},
         uPc' = [uPc EXCEPT ![p] = to]
  PROVE  /\ uPc' \in [Processes -> {"idle", "create", "look", "add", "ok", "failed", "crashed"}]
         /\ uPc'[p] = to
         /\ \A q \in Processes : q # p => uPc'[q] = uPc[q]
         /\ \A q \in Processes : uPc[q] # "idle" => uPc'[q] # "idle"
         /\ to # "failed" => File!OnlyRacesFail'
<1>1. /\ uPc' \in [Processes -> {"idle", "create", "look", "add", "ok", "failed", "crashed"}]
      /\ uPc'[p] = to
      /\ \A q \in Processes : q # p => uPc'[q] = uPc[q]
      /\ \A q \in Processes : uPc[q] # "idle" => uPc'[q] # "idle"
  BY DEF FileInv, File!TypeOK
<1>2. to # "failed" => File!OnlyRacesFail'
  BY <1>1 DEF FileInv, File!OnlyRacesFail
<1> QED BY <1>1, <1>2

\* Steps that add no column and end no run: Begin and Look.
LEMMA FileBegins ==
  ASSUME FileInv, NEW p \in Processes, File!Begin(p) \/ File!Look(p) \/ File!Create(p)
  PROVE  FileInv'
<1>1. PICK to \in {"create", "look", "add"} : uPc' = [uPc EXCEPT ![p] = to]
  BY DEF File!Begin, File!Look, File!Create, File!Goto
<1>2. /\ columns \subseteq columns' /\ columns' \in SUBSET File!Columns
      /\ unique' = unique /\ next' = next /\ next[p] = 1
  BY DEF File!Begin, File!Look, File!Create, File!Tables, FileInv, File!TypeOK, File!Columns,
         File!OrdersTable
<1>3. /\ known' \in [Processes -> SUBSET columns']
      /\ uPc'[p] = "add" => columns' \subseteq known'[p]
      /\ \A q \in Processes : q # p => known'[q] = known[q]
  <2>1. known \in [Processes -> SUBSET columns]
    BY DEF FileInv, File!TypeOK
  <2>2. CASE File!Look(p)
    BY <2>1, <2>2 DEF File!Look
  <2>3. CASE File!Begin(p) \/ File!Create(p)
    <3>1. known' = known /\ uPc'[p] # "add"
      BY <2>3, FileMoves DEF File!Begin, File!Create, File!Goto
    <3> QED BY <1>2, <2>1, <3>1
  <2> QED BY <2>2, <2>3
<1>4. File!TypeOK'
  BY <1>1, <1>2, <1>3, FileMoves DEF FileInv, File!TypeOK
<1>5. File!EndsUpgraded' /\ File!OnlyRacesFail'
  BY <1>1, <1>2, FileMoves DEF FileInv, File!EndsUpgraded
<1>6. ASSUME NEW q \in Processes
      PROVE  /\ Added(q)' \subseteq columns'
             /\ uPc'[q] # "add" => next'[q] = 1
             /\ uPc'[q] = "add" /\ (\A r \in Processes \ {q} : uPc'[r] = "idle") =>
                   columns' \subseteq known'[q] \cup Added(q)'
  <2>1. Added(q)' = Added(q) /\ Added(q) \subseteq columns
    BY <1>2 DEF Added, FileInv
  <2>2. CASE q = p
    BY <1>2, <1>3, <2>1, <2>2
  <2>3. CASE q # p
    <3>1. uPc'[q] = uPc[q] /\ next'[q] = next[q] /\ known'[q] = known[q] /\ uPc'[p] # "idle"
      BY <1>1, <1>2, <1>3, <2>3, FileMoves
    <3> QED BY <1>2, <2>1, <2>3, <3>1 DEF FileInv
  <2> QED BY <2>2, <2>3
<1> QED BY <1>4, <1>5, <1>6 DEF FileInv

LEMMA ColumnKeeps ==
  ASSUME FileInv, NEW p \in Processes, File!AddColumn(p)
  PROVE  FileInv'
<1> DEFINE c == File!AddedList[next[p]]
<1>1. /\ uPc[p] = "add" /\ next[p] <= Len(File!AddedList)
      /\ columns' = columns \cup {c}
      /\ next' = [next EXCEPT ![p] = next[p] + 1]
      /\ UNCHANGED <<unique, uPc, known>>
  BY DEF File!AddColumn
<1>2. next \in [Processes -> 1..8] /\ next[p] \in 1..7
  BY <1>1, Additions DEF FileInv, File!TypeOK
<1>3. next' \in [Processes -> 1..8] /\ next'[p] = next[p] + 1
      /\ \A q \in Processes : q # p => next'[q] = next[q]
  BY <1>1, <1>2
<1>4. c \in File!Columns
  BY <1>2, Additions
<1>5. File!TypeOK'
  <2>1. known' \in [Processes -> SUBSET columns']
    BY <1>1 DEF FileInv, File!TypeOK
  <2> QED BY <1>1, <1>3, <1>4, <2>1, Additions DEF FileInv, File!TypeOK
<1>6. File!EndsUpgraded' /\ File!OnlyRacesFail'
  BY <1>1 DEF FileInv, File!EndsUpgraded, File!OnlyRacesFail
<1>7. Added(p)' = Added(p) \cup {c}
  <2>1. 1..(next'[p] - 1) = (1..(next[p] - 1)) \cup {next[p]}
    BY <1>2, <1>3
  <2> QED BY <2>1 DEF Added
<1>8. ASSUME NEW q \in Processes
      PROVE  /\ Added(q)' \subseteq columns'
             /\ uPc'[q] # "add" => next'[q] = 1
             /\ uPc'[q] = "add" /\ (\A r \in Processes \ {q} : uPc'[r] = "idle") =>
                   columns' \subseteq known'[q] \cup Added(q)'
  <2>1. CASE q = p
    BY <1>1, <1>7, <2>1 DEF FileInv
  <2>2. CASE q # p
    <3>1. Added(q)' = Added(q)
      BY <1>3, <2>2 DEF Added
    <3> QED BY <1>1, <1>3, <2>2, <3>1 DEF FileInv
  <2> QED BY <2>1, <2>2
<1> QED BY <1>5, <1>6, <1>8 DEF FileInv

LEMMA RunEnds ==
  ASSUME FileInv, NEW p \in Processes, NEW to \in {"ok", "failed", "crashed"}, File!Ends(p, to),
         columns' = columns, unique' \in BOOLEAN, unique => unique',
         to = "ok" => unique' /\ File!ToSet(File!AddedList) \subseteq columns,
         to = "failed" => \E q \in Processes \ {p} : uPc[q] # "idle"
  PROVE  FileInv'
<1>1. /\ uPc' = [uPc EXCEPT ![p] = to]
      /\ known' = [known EXCEPT ![p] = {}] /\ next' = [next EXCEPT ![p] = 1]
  BY DEF File!Ends, File!Goto
<1>2. /\ known' \in [Processes -> SUBSET columns'] /\ next' \in [Processes -> 1..8] /\ next'[p] = 1
      /\ \A q \in Processes : q # p => known'[q] = known[q] /\ next'[q] = next[q]
  <2>1. known \in [Processes -> SUBSET columns] /\ next \in [Processes -> 1..8]
    BY Additions DEF FileInv, File!TypeOK
  <2> QED BY <1>1, <2>1
<1>3. File!TypeOK'
  BY <1>1, <1>2, FileMoves, Additions DEF FileInv, File!TypeOK
<1>4. File!EndsUpgraded'
  BY <1>1, FileMoves DEF FileInv, File!EndsUpgraded
<1>5. File!OnlyRacesFail'
  BY <1>1, FileMoves DEF FileInv, File!OnlyRacesFail
<1>6. ASSUME NEW q \in Processes
      PROVE  /\ Added(q)' \subseteq columns'
             /\ uPc'[q] # "add" => next'[q] = 1
             /\ uPc'[q] = "add" /\ (\A r \in Processes \ {q} : uPc'[r] = "idle") =>
                   columns' \subseteq known'[q] \cup Added(q)'
  <2>1. CASE q = p
    <3>1. uPc'[q] # "add" /\ next'[q] = 1
      BY <1>1, <1>2, <2>1, FileMoves
    <3>2. Added(q)' = {}
      BY <3>1 DEF Added
    <3> QED BY <3>1, <3>2
  <2>2. CASE q # p
    <3>1. Added(q)' = Added(q)
      BY <1>2, <2>2 DEF Added
    <3>2. uPc'[q] = uPc[q] /\ uPc'[p] # "idle"
      BY <1>1, <2>2, FileMoves
    <3> QED BY <1>2, <2>2, <3>1, <3>2 DEF FileInv
  <2> QED BY <2>1, <2>2
<1> QED BY <1>3, <1>4, <1>5, <1>6 DEF FileInv

LEMMA EndKeeps ==
  ASSUME FileInv, NEW p \in Processes,
         File!AddFails(p) \/ File!CreateIndex(p) \/ File!Crash(p)
  PROVE  FileInv'
<1>1. CASE File!Crash(p)
  BY <1>1, RunEnds DEF File!Crash, FileInv, File!TypeOK
<1>2. CASE File!CreateIndex(p)
  <2>1. next[p] \in 1..8 /\ next[p] > 7
    BY <1>2, Additions DEF File!CreateIndex, File!AllAdded, FileInv, File!TypeOK
  <2>2. Added(p) = {File!AddedList[k] : k \in 1..7} /\ Added(p) \subseteq columns
    BY <2>1 DEF Added, FileInv
  <2> QED BY <1>2, <2>2, RunEnds, Additions DEF File!CreateIndex
<1>3. CASE File!AddFails(p)
  <2> DEFINE c == File!AddedList[next[p]]
  <2>1. uPc[p] = "add" /\ next[p] \in 1..7 /\ c \notin known[p] /\ c \in columns
    BY <1>3, Additions DEF File!AddFails, File!Present, FileInv, File!TypeOK
  <2>2. c \notin Added(p)
    BY <2>1, Additions DEF Added
  <2>3. \E q \in Processes \ {p} : uPc[q] # "idle"
    BY <2>1, <2>2 DEF FileInv
  <2> QED BY <1>3, <2>3, RunEnds DEF File!AddFails, FileInv, File!TypeOK
<1> QED BY <1>1, <1>2, <1>3

LEMMA FileStep == ASSUME FileInv, File!Next PROVE FileInv'
  BY FileBegins, ColumnKeeps, EndKeeps DEF File!Next, File!Running, File!Run

LEMMA FileInit == ASSUME File!UpgradeAssumption, File!Init PROVE FileInv
<1>1. File!TypeOK
  <2>1. known \in [Processes -> SUBSET columns] /\ next \in [Processes -> 1..8]
    BY DEF File!Init
  <2>2. columns \in SUBSET File!Columns
    BY DEF File!Init, File!UpgradeAssumption
  <2>3. next \in [Processes -> 1..(Len(File!AddedList) + 1)]
    BY <2>1, Additions
  <2> QED BY <2>1, <2>2, <2>3 DEF File!Init, File!TypeOK
<1>2. File!EndsUpgraded /\ File!OnlyRacesFail
  BY DEF File!Init, File!EndsUpgraded, File!OnlyRacesFail
<1>3. \A p \in Processes : Added(p) = {}
  BY DEF File!Init, Added
<1> QED BY <1>1, <1>2, <1>3 DEF FileInv, File!Init

-------------------------------------------------------------------------------
(* The server process. *)

Closing == {"closing store", "closing db", "stopping telemetry", "stuck"}

Stages ==
    /\ phase \in {"migrating", "admins", "listening"} => ~shuttingDown
    /\ phase \in Closing \cup {"draining"} => shuttingDown
    /\ ~storeOpen => phase \in {"closing db", "stopping telemetry", "stuck", "exited"}
    /\ phase \in {"closing db", "stopping telemetry", "stuck"} => ~storeOpen
    /\ ~dbOpen => phase \in {"stopping telemetry", "exited"}
    /\ phase = "stopping telemetry" => ~dbOpen
    /\ exitCode = 0 => ~storeOpen /\ ~dbOpen

Quiet ==
    phase \in Closing \/ ~storeOpen \/ ~dbOpen => \A h \in Handlers : client[h] # "open"

ServerInv == Server!TypeOK /\ Stages /\ Quiet

\* A handler at work has its client.
Attended == \A h \in Handlers : work[h] = "running" => client[h] = "open"

LEMMA ServerInit == ASSUME Server!Init PROVE ServerInv /\ Attended
<1> USE DEF Server!Init
<1>1. Server!TypeOK BY DEF Server!TypeOK, Server!Alive
<1>2. Stages BY DEF Stages, Closing
<1>3. Quiet /\ Attended BY DEF Quiet, Attended, Closing
<1> QED BY <1>1, <1>2, <1>3 DEF ServerInv

\* The process is gone: nothing changes but the phase, the timer and the code.
LEMMA ExitKeeps ==
  ASSUME ServerInv, phase' = "exited", exitCode' \in {0, 1}, exitCode' # 2, timer' = "off",
         exitCode' = 0 => phase = "stopping telemetry",
         UNCHANGED <<shuttingDown, exitWith, client, work, storeOpen, dbOpen>>
  PROVE  ServerInv'
<1>1. Server!TypeOK'
  <2>1. ~Server!Alive' /\ timer' # "armed"
    BY DEF Server!Alive
  <2>2. shuttingDown' \in BOOLEAN /\ storeOpen' \in BOOLEAN /\ dbOpen' \in BOOLEAN
    BY DEF ServerInv, Server!TypeOK
  <2>3. exitWith' \in {0, 1} /\ exitCode' \in {0, 1, 2}
    BY DEF ServerInv, Server!TypeOK
  <2>4. /\ client' \in [Handlers -> {"none", "open", "gone"}]
        /\ work' \in [Handlers -> {"none", "running", "done"}]
    BY DEF ServerInv, Server!TypeOK
  <2> QED BY <2>1, <2>2, <2>3, <2>4 DEF Server!TypeOK
<1>2. Stages'
  <2>1. exitCode' = 0 => ~storeOpen' /\ ~dbOpen'
    BY DEF ServerInv, Stages
  <2> QED BY <2>1 DEF Stages, Closing
<1>3. Quiet'
  BY DEF ServerInv, Quiet, Closing
<1> QED BY <1>1, <1>2, <1>3 DEF ServerInv

\* A request moves, the process does not.
LEMMA RequestKeeps ==
  ASSUME ServerInv, NEW h \in Handlers,
         Server!Accept(h) \/ Server!Finish(h) \/ Server!ClientLeaves(h)
  PROVE  ServerInv'
<1>1. UNCHANGED <<phase, shuttingDown, exitWith, timer, exitCode, storeOpen, dbOpen>>
  BY DEF Server!Accept, Server!Finish, Server!ClientLeaves
<1>2. /\ client' \in [Handlers -> {"none", "open", "gone"}]
      /\ work' \in [Handlers -> {"none", "running", "done"}]
  BY DEF Server!Accept, Server!Finish, Server!ClientLeaves, ServerInv, Server!TypeOK
<1>3. Server!TypeOK'
  <2>1. Server!Alive' = Server!Alive
    BY <1>1 DEF Server!Alive
  <2> QED BY <1>1, <1>2, <2>1 DEF ServerInv, Server!TypeOK
<1>4. Stages'
  BY <1>1 DEF ServerInv, Stages
<1>5. Quiet'
  <2>1. \/ client' = [client EXCEPT ![h] = "gone"]
        \/ /\ client' = [client EXCEPT ![h] = "open"]
           /\ phase = "listening" \/ (phase = "draining" /\ \E k \in Handlers : client[k] = "open")
    BY DEF Server!Accept, Server!Finish, Server!ClientLeaves
  <2>2. phase \in {"listening", "draining"} => storeOpen /\ dbOpen /\ phase \notin Closing
    BY DEF ServerInv, Stages, Closing
  <2>3. client \in [Handlers -> {"none", "open", "gone"}] /\ Quiet
    BY DEF ServerInv, Server!TypeOK
  <2>4. CASE phase \in Closing \/ ~storeOpen \/ ~dbOpen
    BY <2>1, <2>2, <2>3, <2>4 DEF Quiet
  <2>5. CASE ~(phase \in Closing \/ ~storeOpen \/ ~dbOpen)
    BY <1>1, <2>5 DEF Quiet
  <2> QED BY <2>4, <2>5
<1> QED BY <1>3, <1>4, <1>5 DEF ServerInv

LEMMA ServerStep == ASSUME ServerInv, Server!Next PROVE ServerInv'
<1> USE DEF ServerInv
<1>1. ASSUME NEW h \in Handlers, Server!Accept(h) \/ Server!Finish(h) \/ Server!ClientLeaves(h)
      PROVE  ServerInv'
  BY <1>1, RequestKeeps
<1>2. CASE Server!StartFails
  <2>1. timer = "off"
    BY <1>2 DEF Server!StartFails, Server!TypeOK, Stages
  <2> QED BY <1>2, <2>1, ExitKeeps DEF Server!StartFails, Server!Exit
<1>3. CASE Server!TelemetryStopped
  <2>1. exitWith \in {0, 1}
    BY DEF Server!TypeOK
  <2>2. exitWith # 2
    BY <2>1
  <2> QED BY <1>3, <2>1, <2>2, ExitKeeps DEF Server!TelemetryStopped, Server!Exit
<1>4. CASE Server!Forced
  BY <1>4, ExitKeeps DEF Server!Forced, Server!Exit, Server!ForcedCode
<1>5. CASE Server!Migrated
  <2>1. Server!TypeOK' BY <1>5 DEF Server!TypeOK, Server!Alive, Server!Migrated
  <2>2. Stages' /\ Quiet' BY <1>5 DEF Stages, Quiet, Closing, Server!Migrated
  <2> QED BY <2>1, <2>2
<1>6. CASE Server!Listen
  <2>1. Server!TypeOK' BY <1>6 DEF Server!TypeOK, Server!Alive, Server!Listen
  <2>2. Stages' /\ Quiet' BY <1>6 DEF Stages, Quiet, Closing, Server!Listen
  <2> QED BY <2>1, <2>2
<1>7. ASSUME NEW code \in {0, 1}, Server!Shutdown(code) PROVE ServerInv'
  <2> USE <1>7 DEF Server!Shutdown, Server!Served, Server!ArmTimer
  <2>1. Server!TypeOK' BY DEF Server!TypeOK, Server!Alive
  <2>2. Stages' BY DEF Stages, Closing
  <2>3. Quiet' BY DEF Quiet, Stages, Closing
  <2> QED BY <2>1, <2>2, <2>3
<1>8. CASE Server!CloseEvent
  <2> USE <1>8 DEF Server!CloseEvent, Server!Drained
  <2>1. Server!TypeOK' BY DEF Server!TypeOK, Server!Alive
  <2>2. Stages' BY DEF Stages, Closing
  <2>3. Quiet' BY DEF Quiet, Stages, Closing
  <2> QED BY <2>1, <2>2, <2>3
<1>9. CASE Server!StoreClosed
  <2> USE <1>9 DEF Server!StoreClosed
  <2>1. Server!TypeOK' BY DEF Server!TypeOK, Server!Alive
  <2>2. Stages' BY DEF Stages, Closing
  <2>3. Quiet' BY DEF Quiet, Stages, Closing
  <2> QED BY <2>1, <2>2, <2>3
<1>10. CASE Server!DbClosed
  <2> USE <1>10 DEF Server!DbClosed
  <2>1. Server!TypeOK' BY DEF Server!TypeOK, Server!Alive
  <2>2. Stages' BY DEF Stages, Closing
  <2>3. Quiet' BY DEF Quiet, Stages, Closing
  <2> QED BY <2>1, <2>2, <2>3
<1>11. CASE Server!DbCloseFails
  <2> USE <1>11 DEF Server!DbCloseFails
  <2>1. Server!TypeOK' BY DEF Server!TypeOK, Server!Alive
  <2>2. Stages' BY DEF Stages, Closing
  <2>3. Quiet' BY DEF Quiet, Stages, Closing
  <2> QED BY <2>1, <2>2, <2>3
<1> QED BY <1>1, <1>2, <1>3, <1>4, <1>5, <1>6, <1>7, <1>8, <1>9, <1>10, <1>11
       DEF Server!Next, Server!Staying

LEMMA StayingStep == ASSUME ServerInv, Attended, Server!Staying PROVE Attended'
<1>1. ASSUME NEW h \in Handlers, Server!Accept(h) \/ Server!Finish(h) PROVE Attended'
  BY <1>1 DEF Attended, ServerInv, Server!TypeOK, Server!Accept, Server!Finish
<1>2. CASE UNCHANGED <<work, client>>
  BY <1>2 DEF Attended
<1> QED BY <1>1, <1>2
       DEF Server!Staying, Server!Migrated, Server!Listen, Server!StartFails, Server!Shutdown,
           Server!CloseEvent, Server!StoreClosed, Server!DbClosed, Server!DbCloseFails,
           Server!TelemetryStopped, Server!Forced

-------------------------------------------------------------------------------
(* toPg: what the loop has read and written. *)

None == "none"
Marks == [char : ToPg!Chars \cup {"$"}, number : Nat]

\* The reference for the first n characters of a text.
Opens(t, n, lab) ==
    /\ lab \in [0..n -> ToPg!Quotes \cup {None}]
    /\ lab[0] = None
    /\ \A k \in 1..n : lab[k] = ToPg!After(lab[k - 1], t[k])
Found(t, n, lab) == {k \in 1..n : t[k] = "?" /\ lab[k - 1] = None}
Written(t, n, lab) ==
    [k \in 1..n |->
        IF k \in Found(t, n, lab)
        THEN ToPg!Number(Cardinality({l \in Found(t, n, lab) : l <= k}))
        ELSE ToPg!Copy(t[k])]
HasRead(t, n, q, x, out) ==
    \E lab : /\ Opens(t, n, lab) /\ q = lab[n]
             /\ IsFiniteSet(Found(t, n, lab)) /\ x = Cardinality(Found(t, n, lab))
             /\ out = Written(t, n, lab)

LEMMA WrittenIsSeq ==
  ASSUME NEW t \in Seq(ToPg!Chars), NEW n \in 0..Len(t), NEW lab, IsFiniteSet(Found(t, n, lab))
  PROVE  Written(t, n, lab) \in Seq(Marks) /\ Len(Written(t, n, lab)) = n
<1>1. ASSUME NEW k \in 1..n PROVE Written(t, n, lab)[k] \in Marks
  <2> DEFINE S == {l \in Found(t, n, lab) : l <= k}
  <2>1. IsFiniteSet(S)
    BY FS_Subset
  <2>2. Cardinality(S) \in Nat
    BY <2>1, FS_CardinalityType
  <2>3. ToPg!Number(Cardinality(S)) \in Marks
    BY <2>2 DEF ToPg!Number, Marks
  <2>4. t[k] \in ToPg!Chars
    OBVIOUS
  <2>5. ToPg!Copy(t[k]) \in Marks
    BY <2>4 DEF ToPg!Copy, Marks
  <2> QED BY <2>3, <2>5 DEF Written
<1>2. Written(t, n, lab) \in [1..n -> Marks]
  <2>1. DOMAIN Written(t, n, lab) = 1..n
    BY DEF Written
  <2>2. Written(t, n, lab) = [k \in 1..n |-> Written(t, n, lab)[k]]
    BY DEF Written
  <2> QED BY <1>1, <2>2
<1>3. n \in Nat
  OBVIOUS
<1> HIDE DEF Written
<1>4. Written(t, n, lab) \in Seq(Marks)
  BY <1>2, <1>3, SeqDef
<1> QED BY <1>2, <1>3, <1>4, LenProperties

\* One more character of the text, and of what was written.
LEMMA ReadOne ==
  ASSUME NEW t \in Seq(ToPg!Chars), NEW n \in Nat, n < Len(t), NEW q, NEW x, NEW out,
         HasRead(t, n, q, x, out), NEW mark, NEW y,
         t[n + 1] = "?" /\ q = None => y = x + 1 /\ mark = ToPg!Number(x + 1),
         ~(t[n + 1] = "?" /\ q = None) => y = x /\ mark = ToPg!Copy(t[n + 1])
  PROVE  HasRead(t, n + 1, ToPg!After(q, t[n + 1]), y, Append(out, mark))
<1> DEFINE m == n + 1
<1>1. PICK lab : /\ Opens(t, n, lab) /\ q = lab[n]
                 /\ IsFiniteSet(Found(t, n, lab)) /\ x = Cardinality(Found(t, n, lab))
                 /\ out = Written(t, n, lab)
  BY DEF HasRead
<1> DEFINE new == [k \in 0..m |-> IF k = m THEN ToPg!After(q, t[m]) ELSE lab[k]]
<1>2. m \in Nat /\ m \in 1..Len(t) /\ t[m] \in ToPg!Chars
  OBVIOUS
<1>3. /\ lab \in [0..n -> ToPg!Quotes \cup {None}]
      /\ q \in ToPg!Quotes \cup {None}
  BY <1>1 DEF Opens
<1>4. ToPg!After(q, t[m]) \in ToPg!Quotes \cup {None}
  BY <1>3 DEF ToPg!After, None
<1>5. new[m] = ToPg!After(q, t[m]) /\ \A k \in 0..n : new[k] = lab[k]
  OBVIOUS
<1>6. Opens(t, m, new)
  <2>1. new \in [0..m -> ToPg!Quotes \cup {None}]
    BY <1>3, <1>4
  <2>2. ASSUME NEW k \in 1..m PROVE new[k] = ToPg!After(new[k - 1], t[k])
    <3>1. CASE k = m
      BY <1>1, <1>5, <3>1
    <3>2. CASE k # m
      <4>1. k \in 1..n /\ k \in 0..n /\ k - 1 \in 0..n
        BY <3>2
      <4> QED BY <1>1, <1>5, <4>1 DEF Opens
    <3> QED BY <3>1, <3>2
  <2>3. new[0] = None
    BY <1>1, <1>5 DEF Opens
  <2> QED BY <2>1, <2>2, <2>3 DEF Opens
<1> DEFINE F == Found(t, n, lab)
           G == Found(t, m, new)
           par == t[m] = "?" /\ q = None
<1>7. G = IF par THEN F \cup {m} ELSE F
  <2>1. \A k \in 1..n : new[k - 1] = lab[k - 1]
    BY <1>5
  <2>2. new[m - 1] = q
    BY <1>1, <1>5
  <2>3. 1..m = (1..n) \cup {m}
    OBVIOUS
  <2> HIDE DEF new
  <2> QED BY <2>1, <2>2, <2>3 DEF Found
<1>8. m \notin F /\ F \subseteq 1..n /\ G \subseteq 1..m
  BY DEF Found
<1>9. IsFiniteSet(G) /\ Cardinality(G) = y /\ Cardinality(F) \in Nat
  <2>1. IsFiniteSet(F \cup {m}) /\ Cardinality(F \cup {m}) = Cardinality(F) + 1
    BY <1>1, <1>8, FS_AddElement
  <2>2. Cardinality(F) \in Nat
    BY <1>1, FS_CardinalityType
  <2> HIDE DEF F, G
  <2>3. Cardinality(F) = x
    BY <1>1 DEF F
  <2>4. IsFiniteSet(F)
    BY <1>1 DEF F
  <2> QED BY <1>7, <2>1, <2>2, <2>3, <2>4
<1>10. Written(t, n, lab) \in Seq(Marks) /\ Len(Written(t, n, lab)) = n
  BY <1>1, WrittenIsSeq
<1>11. Written(t, m, new) \in Seq(Marks) /\ Len(Written(t, m, new)) = m
  BY <1>2, <1>9, WrittenIsSeq
<1>12. mark \in Marks /\ mark = Written(t, m, new)[m]
  <2>1. {l \in G : l <= m} = G
    BY <1>8
  <2>2. Written(t, m, new)[m] = IF par THEN ToPg!Number(Cardinality(G)) ELSE ToPg!Copy(t[m])
    <3>1. m \in G <=> par
      BY <1>7, <1>8
    <3>2. m \in 1..m
      BY <1>2
    <3> HIDE DEF new, par
    <3> QED BY <2>1, <3>1, <3>2 DEF Written
  <2>3. mark = Written(t, m, new)[m]
    BY <1>9, <2>2
  <2>4. m \in 1..Len(Written(t, m, new))
    BY <1>2, <1>11
  <2>5. Written(t, m, new)[m] \in Marks
    BY <1>11, <2>4, ElementOfSeq
  <2> QED BY <2>3, <2>5
<1>13. ASSUME NEW k \in 1..n PROVE Written(t, m, new)[k] = Written(t, n, lab)[k]
  <2>1. k \in 1..m /\ k # m /\ k < m
    OBVIOUS
  <2>2. k \in G <=> k \in F
    BY <1>7, <2>1
  <2>3. {l \in G : l <= k} = {l \in F : l <= k}
    BY <1>2, <1>7, <2>1
  <2> HIDE DEF new, m
  <2> QED BY <2>1, <2>2, <2>3 DEF Written
<1>14. Append(out, mark) = Written(t, m, new)
  <2> DEFINE a == Append(out, mark)
             b == Written(t, m, new)
  <2>1. out \in Seq(Marks) /\ Len(out) = n /\ \A k \in 1..n : out[k] = b[k]
    BY <1>1, <1>10, <1>13
  <2>2. a \in Seq(Marks) /\ Len(a) = m /\ (\A k \in 1..n : a[k] = out[k]) /\ a[m] = mark
    BY <1>12, <2>1, AppendProperties
  <2>3. b \in Seq(Marks) /\ Len(b) = m /\ b[m] = mark
    BY <1>11, <1>12
  <2>4. \A k \in 1..m : a[k] = b[k]
    <3>1. \A k \in 1..m : k \in 1..n \/ k = m
      OBVIOUS
    <3> HIDE DEF a, b, m
    <3> QED BY <2>1, <2>2, <2>3, <3>1
  <2> HIDE DEF a, b
  <2>5. a = b
    BY <2>2, <2>3, <2>4, SeqEqual
  <2> QED BY <2>5 DEF a, b
<1>15. ToPg!After(q, t[m]) = new[m]
  BY <1>5
<1> HIDE DEF new
<1> QED BY <1>6, <1>9, <1>14, <1>15 DEF HasRead


\* The text is one of the statements and the loop has read it up to i.
TextInv ==
    /\ ToPg!TypeOK
    /\ sql \in Seq(ToPg!Chars)
    /\ HasRead(sql, i, quote, index, output)

LEMMA TextInit == ASSUME ToPg!Init, TextMax \in Nat PROVE TextInv
<1>1. sql \in Seq(ToPg!Chars)
  <2>1. sql \in BoundedSeq({"'", "\"", "?", "x"}, TextMax)
    BY DEF ToPg!Init
  <2>2. PICK n \in 0..TextMax : sql \in [1..n -> {"'", "\"", "?", "x"}]
    BY <2>1 DEF BoundedSeq, SeqOf
  <2>3. n \in Nat
    <3>1. \A m \in 0..TextMax : m \in Nat
      OBVIOUS
    <3> QED BY <3>1
  <2>4. sql \in Seq({"'", "\"", "?", "x"})
    BY <2>2, <2>3, SeqDef
  <2> QED BY <2>4 DEF ToPg!Chars, ToPg!Quotes
<1>2. Len(sql) \in Nat
  BY <1>1
<1>3. ToPg!TypeOK
  <2>1. i = 0 /\ index = 0 /\ Len(output) = 0
    BY DEF ToPg!Init
  <2>2. 0 \in 0..Len(sql) /\ 0 \in 0..0
    BY <1>2
  <2> QED BY <2>1, <2>2 DEF ToPg!Init, ToPg!TypeOK
<1>4. HasRead(sql, i, quote, index, output)
  <2> DEFINE lab == [k \in 0..0 |-> None]
  <2>1. Opens(sql, 0, lab) /\ quote = lab[0]
    <3>1. lab \in [0..0 -> ToPg!Quotes \cup {None}] /\ lab[0] = None
      OBVIOUS
    <3>2. \A k \in 1..0 : FALSE
      OBVIOUS
    <3>3. quote = None
      BY DEF ToPg!Init, None
    <3> HIDE DEF lab
    <3> QED BY <3>1, <3>2, <3>3 DEF Opens
  <2>2. Found(sql, 0, lab) = {}
    BY DEF Found
  <2>3. IsFiniteSet({}) /\ Cardinality({}) = 0
    BY FS_EmptySet
  <2>4. Written(sql, 0, lab) = << >>
    <3>1. Written(sql, 0, lab) \in Seq(Marks) /\ Len(Written(sql, 0, lab)) = 0
      <4>1. 0 \in 0..Len(sql)
        BY <1>2
      <4> HIDE DEF lab
      <4> QED BY <1>1, <2>2, <2>3, <4>1, WrittenIsSeq
    <3> HIDE DEF lab
    <3> QED BY <3>1, EmptySeq
  <2> HIDE DEF lab
  <2> QED BY <2>1, <2>2, <2>3, <2>4 DEF HasRead, ToPg!Init
<1> QED BY <1>1, <1>3, <1>4 DEF TextInv

\* Each step reads one character, or the two of a doubled quote, the way the
\* reference does.
LEMMA TextStep == ASSUME TextInv, ToPg!Next PROVE TextInv'
<1> DEFINE c == sql[i + 1]
<1>1. /\ i \in Nat /\ index \in Nat /\ index <= i /\ i <= Len(sql) /\ Len(sql) \in Nat
      /\ quote \in ToPg!Quotes \cup {None} /\ Len(output) = i
  <2>1. Len(sql) \in Nat
    BY DEF TextInv
  <2>2. i \in 0..Len(sql) /\ index \in 0..i
    BY DEF TextInv, ToPg!TypeOK
  <2>3. i \in Nat /\ i <= Len(sql)
    BY <2>1, <2>2
  <2>4. index \in Nat /\ index <= i
    BY <2>2, <2>3
  <2>5. quote \in ToPg!Quotes \cup {None} /\ Len(output) = i
    BY DEF TextInv, ToPg!TypeOK, None
  <2> QED BY <2>1, <2>3, <2>4, <2>5
<1>2. None \notin ToPg!Quotes /\ "?" \notin ToPg!Quotes
  BY DEF None, ToPg!Quotes
<1>3. output \in Seq(Marks)
  <2>1. PICK lab : IsFiniteSet(Found(sql, i, lab)) /\ output = Written(sql, i, lab)
    BY DEF TextInv, HasRead
  <2> QED BY <1>1, <2>1, WrittenIsSeq DEF TextInv
<1>4. \A k \in 1..Len(sql) : sql[k] \in ToPg!Chars
  BY DEF TextInv
<1>5. i < Len(sql)
  BY DEF ToPg!Next, ToPg!Quoted, ToPg!DoubledQuote, ToPg!ClosingQuote, ToPg!OpeningQuote,
         ToPg!Placeholder, ToPg!Other
<1>6. c \in ToPg!Chars
  BY <1>1, <1>4, <1>5
<1>7. ToPg!Copy(c) \in Marks /\ ToPg!Number(index + 1) \in Marks
  BY <1>1, <1>6 DEF ToPg!Copy, ToPg!Number, Marks
<1>8. ASSUME sql' = sql, i' = i + 1, NEW mark \in Marks, output' = Append(output, mark),
             quote' = ToPg!After(quote, c),
             c = "?" /\ quote = None => index' = index + 1 /\ mark = ToPg!Number(index + 1),
             ~(c = "?" /\ quote = None) => index' = index /\ mark = ToPg!Copy(c)
      PROVE  TextInv'
  <2>1. HasRead(sql, i + 1, quote', index', output')
    BY <1>1, <1>5, <1>8, ReadOne DEF TextInv
  <2>2. Len(output') = i + 1
    BY <1>1, <1>3, <1>8, AppendProperties
  <2>3. quote' \in ToPg!Quotes \cup {None}
    BY <1>1, <1>8 DEF ToPg!After, None
  <2>4. index' \in 0..(i + 1) /\ i + 1 \in 0..Len(sql)
    BY <1>1, <1>5, <1>8
  <2> QED BY <1>8, <2>1, <2>2, <2>3, <2>4 DEF TextInv, ToPg!TypeOK, None
<1>9. CASE ToPg!Quoted
  <2>1. quote # None /\ c # quote
    BY <1>9 DEF ToPg!Quoted, ToPg!char, None
  <2>2. ToPg!After(quote, c) = quote
    BY <2>1 DEF ToPg!After, None
  <2> QED BY <1>7, <1>8, <1>9, <2>1, <2>2 DEF ToPg!Quoted, ToPg!char
<1>10. CASE ToPg!DoubledQuote
  <2> DEFINE one == Append(output, ToPg!Copy(c))
  <2>1. /\ quote # None /\ c = quote /\ i + 2 <= Len(sql) /\ sql[i + 2] = c
        /\ sql' = sql /\ i' = i + 2 /\ index' = index /\ quote' = quote
        /\ output' = Append(one, ToPg!Copy(c))
    BY <1>10 DEF ToPg!DoubledQuote, ToPg!Doubled, ToPg!char, None
  <2>2. c \in ToPg!Quotes /\ c # "?"
    BY <1>1, <1>2, <2>1
  <2>3. ToPg!After(quote, c) = None /\ ToPg!After(None, c) = quote
    BY <2>1, <2>2 DEF ToPg!After, None
  <2>4. HasRead(sql, i + 1, None, index, one)
    BY <1>1, <1>5, <2>2, <2>3, ReadOne DEF TextInv
  <2>5. HasRead(sql, (i + 1) + 1, quote, index, Append(one, ToPg!Copy(c)))
    <3>1. i + 1 \in Nat /\ i + 1 < Len(sql) /\ (i + 1) + 1 = i + 2
      BY <1>1, <2>1
    <3> HIDE DEF one
    <3> QED BY <2>1, <2>2, <2>3, <2>4, <3>1, ReadOne DEF TextInv
  <2>6. one \in Seq(Marks) /\ Len(one) = i + 1
    BY <1>1, <1>3, <1>7, AppendProperties
  <2>7. Len(Append(one, ToPg!Copy(c))) = (i + 1) + 1
    BY <1>7, <2>6, AppendProperties
  <2>8. (i + 1) + 1 = i + 2 /\ i + 2 \in 0..Len(sql) /\ index \in 0..(i + 2)
    BY <1>1, <2>1
  <2> HIDE DEF one
  <2> QED BY <1>1, <2>1, <2>5, <2>7, <2>8 DEF TextInv, ToPg!TypeOK, None
<1>11. CASE ToPg!ClosingQuote
  <2>1. quote # None /\ c = quote
    BY <1>11 DEF ToPg!ClosingQuote, ToPg!char, None
  <2>2. ToPg!After(quote, c) = None
    BY <2>1 DEF ToPg!After, None
  <2> QED BY <1>7, <1>8, <1>11, <2>1, <2>2 DEF ToPg!ClosingQuote, ToPg!char, None
<1>12. CASE ToPg!OpeningQuote
  <2>1. quote = None /\ c \in ToPg!Quotes
    BY <1>12 DEF ToPg!OpeningQuote, ToPg!char, None
  <2>2. ToPg!After(quote, c) = c /\ c # "?"
    BY <1>2, <2>1 DEF ToPg!After, None
  <2> QED BY <1>7, <1>8, <1>12, <2>1, <2>2 DEF ToPg!OpeningQuote, ToPg!char
<1>13. CASE ToPg!Placeholder
  <2>1. quote = None /\ c = "?"
    BY <1>13 DEF ToPg!Placeholder, ToPg!char, None
  <2>2. ToPg!After(quote, c) = None
    BY <1>2, <2>1 DEF ToPg!After, None
  <2> QED BY <1>7, <1>8, <1>13, <2>1, <2>2 DEF ToPg!Placeholder, ToPg!Numbered, ToPg!char
<1>14. CASE ToPg!Other
  <2>1. quote = None /\ c \notin ToPg!Quotes /\ c # "?"
    BY <1>14 DEF ToPg!Other, ToPg!char, None
  <2>2. ToPg!After(quote, c) = None
    BY <2>1 DEF ToPg!After, None
  <2> QED BY <1>7, <1>8, <1>14, <2>1, <2>2 DEF ToPg!Other, ToPg!char
<1> QED BY <1>9, <1>10, <1>11, <1>12, <1>13, <1>14 DEF ToPg!Next

LEMMA SameCount == \A S : ToPg!Cardinality(S) = Cardinality(S)
BY DEF ToPg!Cardinality, Cardinality

LEMMA ReadAsReferred == ASSUME TextInv PROVE ToPg!PlaceholdersNumbered
<1>1. PICK lab : Opens(sql, i, lab) /\ quote = lab[i] /\ output = Written(sql, i, lab)
  BY DEF TextInv, HasRead
<1>2. lab \in ToPg!Openings
  BY <1>1 DEF ToPg!Openings, Opens, None
<1>3. ToPg!Parameters(lab) = Found(sql, i, lab)
  BY DEF ToPg!Parameters, Found, None
<1>4. ToPg!Converted(lab) = Written(sql, i, lab)
  <2>1. /\ DOMAIN ToPg!Converted(lab) = 1..i /\ DOMAIN Written(sql, i, lab) = 1..i
        /\ \A k \in 1..i : ToPg!Converted(lab)[k] = Written(sql, i, lab)[k]
    BY <1>3, SameCount DEF ToPg!Converted, Written
  <2>2. /\ ToPg!Converted(lab) = [k \in 1..i |-> ToPg!Converted(lab)[k]]
        /\ Written(sql, i, lab) = [k \in 1..i |-> Written(sql, i, lab)[k]]
    BY DEF ToPg!Converted, Written
  <2> HIDE DEF Written
  <2> QED BY <2>1, <2>2
<1> QED BY <1>1, <1>2, <1>4 DEF ToPg!PlaceholdersNumbered

-------------------------------------------------------------------------------
(* What the parts come to. *)

LEMMA Assumed == Pool!PgAssumption /\ Schema!MigrationsAssumption /\ File!UpgradeAssumption
  BY PlatformAssumption

\* A step is one of a single part, and the others stutter.
LEMMA OnePart ==
  ASSUME [MCNext]_all
  PROVE  /\ part' = part
         /\ \/ UNCHANGED chain
            \/ Next
         /\ \/ UNCHANGED pool
            \/ part = "pool" /\ Pool!Next
            \/ part = "single" /\ Single!Next
         /\ \/ UNCHANGED text
            \/ ToPg!Next
         /\ \/ UNCHANGED postgres
            \/ part = "releases" /\ Schema!Next
            \/ part = "replicas" /\ Schema!Running
         /\ \/ UNCHANGED sqlite
            \/ part = "dying" /\ File!Next
            \/ part = "racing" /\ File!Running
         /\ \/ UNCHANGED process
            \/ part = "leaving" /\ Server!Next
            \/ part = "staying" /\ Server!Staying
  BY DEF MCNext, SqliteNext, PgNext, TextNext, MigrateNext, UpgradeNext, ProcessNext, all

LEMMA SchemaStutters ==
  ASSUME SchemaInv, UNCHANGED postgres
  PROVE  SchemaInv' /\ (Unedited => Unedited')
<1> USE DEF postgres
<1>1. Schema!TypeOK' BY DEF SchemaInv, Schema!TypeOK
<1>2. Schema!LedgerMatchesSchema' BY DEF SchemaInv, Schema!LedgerMatchesSchema
<1>3. Schema!SuccessMeansUnchanged' BY DEF SchemaInv, Schema!SuccessMeansUnchanged
<1>4. \A r \in Schema!Runners : Placed(r)' /\ Work(r)' BY Stays
<1>5. Unedited => Unedited' BY DEF Unedited
<1> QED BY <1>1, <1>2, <1>3, <1>4, <1>5 DEF SchemaInv

LEMMA SchemaHolds == MCSpec => [](SchemaInv /\ (part = "replicas" => Unedited))
<1>1. ASSUME MCInit PROVE SchemaInv /\ (part = "replicas" => Unedited)
  BY <1>1, Assumed, SchemaInit, ReplicaInit DEF MCInit
<1>2. ASSUME SchemaInv, part = "replicas" => Unedited, [MCNext]_all
      PROVE  (SchemaInv /\ (part = "replicas" => Unedited))'
  <2>1. part' = part
    BY <1>2, OnePart
  <2>2. CASE UNCHANGED postgres
    BY <1>2, <2>1, <2>2, SchemaStutters
  <2>3. CASE part = "releases" /\ Schema!Next
    BY <1>2, <2>1, <2>3, Assumed, SchemaStep
  <2>4. CASE part = "replicas" /\ Schema!Running
    BY <1>2, <2>1, <2>4, Assumed, SchemaStep, ReplicaStep DEF Schema!Next
  <2> QED BY <1>2, <2>2, <2>3, <2>4, OnePart
<1> QED BY <1>1, <1>2, PTL DEF MCSpec

LEMMA FileHolds == MCSpec => []FileInv
<1>1. ASSUME MCInit PROVE FileInv
  BY <1>1, Assumed, FileInit DEF MCInit
<1>2. ASSUME FileInv, [MCNext]_all PROVE FileInv'
  <2>1. CASE UNCHANGED sqlite
    <3> USE <1>2, <2>1 DEF sqlite
    <3>1. File!TypeOK' BY DEF FileInv, File!TypeOK
    <3>2. File!EndsUpgraded' BY DEF FileInv, File!EndsUpgraded
    <3>3. File!OnlyRacesFail' BY DEF FileInv, File!OnlyRacesFail
    <3>4. \A p \in Processes : Added(p)' = Added(p) BY DEF Added
    <3> QED BY <3>1, <3>2, <3>3, <3>4 DEF FileInv
  <2>2. CASE File!Next
    BY <1>2, <2>2, FileStep
  <2>3. CASE File!Running
    BY <1>2, <2>3, FileStep DEF File!Next
  <2> QED BY <1>2, <2>1, <2>2, <2>3, OnePart
<1> QED BY <1>1, <1>2, PTL DEF MCSpec

LEMMA ServerHolds == MCSpec => [](ServerInv /\ (part = "staying" => Attended))
<1>1. ASSUME MCInit PROVE ServerInv /\ (part = "staying" => Attended)
  BY <1>1, ServerInit DEF MCInit
<1>2. ASSUME ServerInv, part = "staying" => Attended, [MCNext]_all
      PROVE  (ServerInv /\ (part = "staying" => Attended))'
  <2>1. part' = part
    BY <1>2, OnePart
  <2>2. CASE UNCHANGED process
    <3> USE <1>2, <2>2 DEF process
    <3>1. Server!TypeOK'
      <4>1. Server!Alive' = Server!Alive BY DEF Server!Alive
      <4> QED BY <4>1 DEF ServerInv, Server!TypeOK
    <3>2. Stages' BY DEF ServerInv, Stages
    <3>3. Quiet' BY DEF ServerInv, Quiet
    <3>4. part = "staying" => Attended' BY DEF Attended
    <3> QED BY <2>1, <3>1, <3>2, <3>3, <3>4 DEF ServerInv
  <2>3. CASE part = "leaving" /\ Server!Next
    BY <1>2, <2>1, <2>3, ServerStep
  <2>4. CASE part = "staying" /\ Server!Staying
    BY <1>2, <2>1, <2>4, ServerStep, StayingStep DEF Server!Next
  <2> QED BY <1>2, <2>2, <2>3, <2>4, OnePart
<1> QED BY <1>1, <1>2, PTL DEF MCSpec

LEMMA TextHolds == MCSpec => []TextInv
<1>1. ASSUME MCInit PROVE TextInv
  <2>1. ToPg!Init
    BY <1>1 DEF MCInit
  <2> QED BY <2>1, TextInit, PlatformAssumption
<1>2. ASSUME TextInv, [MCNext]_all PROVE TextInv'
  <2>1. CASE UNCHANGED text
    <3> USE <1>2, <2>1 DEF text
    <3>1. ToPg!TypeOK' BY DEF TextInv, ToPg!TypeOK
    <3>2. HasRead(sql, i, quote, index, output)' BY DEF TextInv, HasRead
    <3> QED BY <3>1, <3>2 DEF TextInv
  <2>2. CASE ToPg!Next
    BY <1>2, <2>2, TextStep
  <2> QED BY <1>2, <2>1, <2>2, OnePart
<1> QED BY <1>1, <1>2, PTL DEF MCSpec

\* Whatever the releases, crashes, lost commits and old files: the ledger tells
\* what was executed, success means an unedited history, replicas of one
\* release never fail each other, and an upgrade of a SQLite file that ends
\* well has repaired it and fails in a race only (migrate).
THEOREM SchemasAreUpgraded == MCSpec => []SchemaIsSound
<1>1. SchemaInv /\ (part = "replicas" => Unedited) /\ FileInv => SchemaIsSound
  BY DEF SchemaInv, Unedited, FileInv, SchemaIsSound, LedgerMatchesSchema, SuccessMeansUnchanged,
     ReplicasDoNotCollide, Schema!ReplicasDoNotCollide, EndsUpgraded, OnlyRacesFail
<1> QED BY <1>1, SchemaHolds, FileHolds, PTL

\* No client that waits loses its store or database to a shutdown, and exit
\* code 0 means that nothing was left running or open (shutdown).
THEOREM ShutdownCutsNobodyOff == MCSpec => []ShutdownIsSound
<1>1. ASSUME ServerInv, part = "staying" => Attended PROVE ShutdownIsSound
  <2>1. AnsweredBeforeClose
    BY <1>1 DEF ServerInv, Quiet, AnsweredBeforeClose, Server!AnsweredBeforeClose
  <2>2. CleanExitIsClean
    BY <1>1 DEF ServerInv, Stages, Quiet, Attended, CleanExitIsClean, Server!CleanExitIsClean
  <2> QED BY <1>1, <2>1, <2>2 DEF ServerInv, ShutdownIsSound
<1> QED BY <1>1, ServerHolds, PTL

-------------------------------------------------------------------------------
(* The pool. *)

PoolP == INSTANCE PgPoolProofs WITH
    pc <- pPc, at <- pAt, reply <- pReply, pending <- pPending, stored <- pStored

SingleP == INSTANCE PgPoolProofs WITH
    PoolMax <- 1, MaxBreaks <- 1,
    pc <- pPc, at <- pAt, reply <- pReply, pending <- pPending, stored <- pStored

LEMMA SamePool ==
  /\ Pool!PgAssumption => PoolP!PgAssumption
  /\ Pool!Init => PoolP!Init
  /\ Pool!Next => PoolP!Next
  /\ Pool!vars = PoolP!vars
  /\ PoolP!TypeOK => Pool!TypeOK
  /\ PoolP!CleanConnections => Pool!CleanConnections
<1>1. Pool!PgAssumption => PoolP!PgAssumption
  BY DEF Pool!PgAssumption, PoolP!PgAssumption
<1>2. Pool!Init => PoolP!Init
  BY DEF Pool!Init, Pool!Calls, Pool!Conns, PoolP!Init, PoolP!Calls, PoolP!Conns
<1>3. Pool!Next => PoolP!Next
  BY DEF Pool!Next, Pool!Calls, Pool!Conns, Pool!Ask, Pool!Connect, Pool!ConnectTimesOut,
     Pool!Run, Pool!AnswerLost, Pool!Break, Pool!Replace, Pool!Query, Pool!QueryFails,
     Pool!Begin, Pool!BodyStatement, Pool!StatementFails, Pool!BodyThrows, Pool!Commit,
     Pool!Rollback, Pool!Release, Pool!Goto, Pool!Answer, Pool!Alive, Pool!Ends, Pool!Free,
     PoolP!Next, PoolP!Calls, PoolP!Conns, PoolP!Ask, PoolP!Connect, PoolP!ConnectTimesOut,
     PoolP!Run, PoolP!AnswerLost, PoolP!Break, PoolP!Replace, PoolP!Query, PoolP!QueryFails,
     PoolP!Begin, PoolP!BodyStatement, PoolP!StatementFails, PoolP!BodyThrows, PoolP!Commit,
     PoolP!Rollback, PoolP!Release, PoolP!Goto, PoolP!Answer, PoolP!Alive, PoolP!Ends,
     PoolP!Free
<1>4. Pool!vars = PoolP!vars
  BY DEF Pool!vars, PoolP!vars
<1>5. PoolP!TypeOK => Pool!TypeOK
  BY DEF Pool!TypeOK, Pool!Calls, Pool!Conns, PoolP!TypeOK, PoolP!Calls, PoolP!Conns
<1>6. PoolP!CleanConnections => Pool!CleanConnections
  BY DEF Pool!CleanConnections, Pool!Free, Pool!Calls, Pool!Conns, PoolP!CleanConnections,
     PoolP!Free, PoolP!Calls, PoolP!Conns
<1> QED BY <1>1, <1>2, <1>3, <1>4, <1>5, <1>6

LEMMA SameSingle ==
  /\ Single!PgAssumption => SingleP!PgAssumption
  /\ Single!Init => SingleP!Init
  /\ Single!Next => SingleP!Next
  /\ Single!vars = SingleP!vars
  /\ SingleP!TypeOK => Single!TypeOK
  /\ SingleP!CleanConnections => Single!CleanConnections
<1>1. Single!PgAssumption => SingleP!PgAssumption
  BY DEF Single!PgAssumption, SingleP!PgAssumption
<1>2. Single!Init => SingleP!Init
  BY DEF Single!Init, Single!Calls, Single!Conns, SingleP!Init, SingleP!Calls, SingleP!Conns
<1>3. Single!Next => SingleP!Next
  BY DEF Single!Next, Single!Calls, Single!Conns, Single!Ask, Single!Connect,
     Single!ConnectTimesOut, Single!Run, Single!AnswerLost, Single!Break, Single!Replace,
     Single!Query, Single!QueryFails, Single!Begin, Single!BodyStatement,
     Single!StatementFails, Single!BodyThrows, Single!Commit, Single!Rollback,
     Single!Release, Single!Goto, Single!Answer, Single!Alive, Single!Ends, Single!Free,
     SingleP!Next, SingleP!Calls, SingleP!Conns, SingleP!Ask, SingleP!Connect,
     SingleP!ConnectTimesOut, SingleP!Run, SingleP!AnswerLost, SingleP!Break,
     SingleP!Replace, SingleP!Query, SingleP!QueryFails, SingleP!Begin,
     SingleP!BodyStatement, SingleP!StatementFails, SingleP!BodyThrows, SingleP!Commit,
     SingleP!Rollback, SingleP!Release, SingleP!Goto, SingleP!Answer, SingleP!Alive,
     SingleP!Ends, SingleP!Free
<1>4. Single!vars = SingleP!vars
  BY DEF Single!vars, SingleP!vars
<1>5. SingleP!TypeOK => Single!TypeOK
  BY DEF Single!TypeOK, Single!Calls, Single!Conns, SingleP!TypeOK, SingleP!Calls, SingleP!Conns
<1>6. SingleP!CleanConnections => Single!CleanConnections
  BY DEF Single!CleanConnections, Single!Free, Single!Calls, Single!Conns,
     SingleP!CleanConnections, SingleP!Free, SingleP!Calls, SingleP!Conns
<1> QED BY <1>1, <1>2, <1>3, <1>4, <1>5, <1>6

\* Whatever is borrowed from the pool carries nothing of who had it before,
\* from a pool of any size and from one of a single connection
\* (PgDb.transaction).
THEOREM PoolLendsCleanConnections == MCSpec => []PoolIsSound
<1> DEFINE InPool == part # "single"
           InSingle == part = "single"
<1>1. MCSpec => [](InPool => Pool!TypeOK /\ Pool!CleanConnections)
  <2>1. MCInit /\ InPool => PoolP!Init
    BY SamePool DEF MCInit
  <2>2. InPool /\ [MCNext]_all => [PoolP!Next]_(PoolP!vars) /\ InPool'
    BY SamePool, OnePart DEF pool, PoolP!vars
  <2>3. ~InPool /\ [MCNext]_all => ~InPool'
    BY OnePart
  <2>4. PoolP!PgAssumption
    BY Assumed, SamePool
  <2>5. PoolP!Spec => []PoolP!TypeOK
    BY <2>4, PoolP!TypeCorrect
  <2>6. PoolP!Spec => []PoolP!CleanConnections
    BY <2>4, PoolP!ConnectionsComeBackClean
  <2>7. PoolP!TypeOK /\ PoolP!CleanConnections => Pool!TypeOK /\ Pool!CleanConnections
    BY SamePool
  <2> HIDE DEF InPool
  <2> QED BY <2>1, <2>2, <2>3, <2>5, <2>6, <2>7, PTL DEF MCSpec, PoolP!Spec
<1>2. MCSpec => [](InSingle => Single!TypeOK /\ Single!CleanConnections)
  <2>1. MCInit /\ InSingle => SingleP!Init
    BY SameSingle DEF MCInit
  <2>2. InSingle /\ [MCNext]_all => [SingleP!Next]_(SingleP!vars) /\ InSingle'
    BY SameSingle, OnePart DEF pool, SingleP!vars
  <2>3. ~InSingle /\ [MCNext]_all => ~InSingle'
    BY OnePart
  <2>4. SingleP!PgAssumption
    BY Assumed DEF Pool!PgAssumption, SingleP!PgAssumption
  <2>5. SingleP!Spec => []SingleP!TypeOK
    BY <2>4, SingleP!TypeCorrect
  <2>6. SingleP!Spec => []SingleP!CleanConnections
    BY <2>4, SingleP!ConnectionsComeBackClean
  <2>7. SingleP!TypeOK /\ SingleP!CleanConnections => Single!TypeOK /\ Single!CleanConnections
    BY SameSingle
  <2> HIDE DEF InSingle
  <2> QED BY <2>1, <2>2, <2>3, <2>5, <2>6, <2>7, PTL DEF MCSpec, SingleP!Spec
<1>3. (InPool => Pool!TypeOK /\ Pool!CleanConnections)
      /\ (InSingle => Single!TypeOK /\ Single!CleanConnections) => PoolIsSound
  BY DEF PoolIsSound, CleanConnections
<1> HIDE DEF InPool, InSingle
<1> QED BY <1>1, <1>2, <1>3, PTL

\* The PostgreSQL driver behind either pool does for its callers what DbClient
\* promises, losing answers only to connections that die (DbClient: PgDb).
THEOREM PoolsImplementContract == ASSUME MaxBreaks > 0 PROVE MCSpec => PoolContract
<1> DEFINE InPool == part # "single"
           InSingle == part = "single"
<1>1. PoolP!PgAssumption /\ SingleP!PgAssumption
  BY Assumed, SamePool DEF Pool!PgAssumption, SingleP!PgAssumption
<1>2. PoolP!Spec => PoolP!ContractSpec
  BY <1>1, PoolP!ImplementsContract
<1>3. SingleP!Spec => SingleP!ContractSpec
  BY <1>1, SingleP!ImplementsContract
<1>4. MCInit => Pool!Contract!Init
  BY DEF MCInit, Pool!Init, Single!Init, Pool!Calls, Single!Calls, Pool!Contract!Init
<1>5. [PoolP!Contract!Next]_(PoolP!Contract!vars) => [Pool!Contract!Next]_(Pool!Contract!vars)
  BY DEF Pool!Contract!Next, Pool!Contract!Succeed, Pool!Contract!Fail, Pool!Contract!Lose,
     Pool!Contract!FailLate, Pool!Contract!Apply, Pool!Contract!Untouched,
     Pool!Contract!Answer, Pool!Contract!WritesOf, Pool!Contract!vars, PoolP!Contract!Next,
     PoolP!Contract!Succeed, PoolP!Contract!Fail, PoolP!Contract!Lose,
     PoolP!Contract!FailLate, PoolP!Contract!Apply, PoolP!Contract!Untouched,
     PoolP!Contract!Answer, PoolP!Contract!WritesOf, PoolP!Contract!vars, Pool!Calls,
     PoolP!Calls
<1>6. [SingleP!Contract!Next]_(SingleP!Contract!vars) => [Pool!Contract!Next]_(Pool!Contract!vars)
  BY DEF Pool!Contract!Next, Pool!Contract!Succeed, Pool!Contract!Fail, Pool!Contract!Lose,
     Pool!Contract!FailLate, Pool!Contract!Apply, Pool!Contract!Untouched,
     Pool!Contract!Answer, Pool!Contract!WritesOf, Pool!Contract!vars,
     SingleP!Contract!Next, SingleP!Contract!Succeed, SingleP!Contract!Fail,
     SingleP!Contract!Lose, SingleP!Contract!FailLate, SingleP!Contract!Apply,
     SingleP!Contract!Untouched, SingleP!Contract!Answer, SingleP!Contract!WritesOf,
     SingleP!Contract!vars, Pool!Calls, SingleP!Calls
<1>7. /\ MCInit /\ InPool => PoolP!Init
      /\ InPool /\ [MCNext]_all => [PoolP!Next]_(PoolP!vars) /\ InPool'
  BY SamePool, OnePart DEF pool, PoolP!vars, MCInit
<1>8. /\ MCInit /\ InSingle => SingleP!Init
      /\ InSingle /\ [MCNext]_all => [SingleP!Next]_(SingleP!vars) /\ InSingle'
  BY SameSingle, OnePart DEF pool, SingleP!vars, MCInit
<1>9. InPool \/ InSingle
  OBVIOUS
<1> HIDE DEF InPool, InSingle
<1> QED
  BY <1>2, <1>3, <1>4, <1>5, <1>6, <1>7, <1>8, <1>9, PTL
     DEF MCSpec, PoolP!Spec, SingleP!Spec, PoolP!ContractSpec, SingleP!ContractSpec, PoolContract,
         Pool!ContractSpec, Pool!Contract!Spec, PoolP!Contract!Spec, SingleP!Contract!Spec

\* Whatever the statement: the n-th `?` outside quotes becomes $n, a doubled
\* quote does not end its literal, and every other character is kept (toPg).
THEOREM PlaceholdersAreConverted == MCSpec => []PlaceholdersNumbered
<1>1. TextInv => PlaceholdersNumbered
  BY ReadAsReferred DEF TextInv, PlaceholdersNumbered
<1> QED BY <1>1, TextHolds, PTL
===============================================================================
