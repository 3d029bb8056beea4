------------------------------ MODULE PgPoolProofs ------------------------------
(***************************************************************************)
(* Proofs about PgPool, for any calls, any size of the pool and any number *)
(* of connections that die.                                                *)
(*                                                                         *)
(* A connection is lent to one call at a time (Lent), and what is open on  *)
(* it follows from where that call is and whether the server end lives     *)
(* (Connections).  That makes pending exactly the writes of the one        *)
(* transaction when COMMIT is sent, so that what is stored agrees with     *)
(* what was answered (Answers).                                            *)
(***************************************************************************)
EXTENDS PgPool, TLAPS

Clean(k) == txn[k] = "none" /\ pending[k] = {}

Lent == \A c, d \in Calls : conn[c] # 0 /\ conn[c] = conn[d] => c = d

Connections ==
    /\ \A k \in Free \cup dead : Clean(k)
    /\ \A c \in Calls :
        /\ pc[c] \in {"begin", "query", "release"} => Clean(conn[c])
        /\ pc[c] = "body" /\ Alive(c) =>
              txn[conn[c]] = "open" /\ pending[conn[c]] = {c} \X (1..at[c])
        /\ pc[c] = "abort" => \A w \in pending[conn[c]] : w[1] = c

Answers ==
    /\ \A c \in Calls :
        /\ pc[c] = "query" => c \in Statements
        /\ pc[c] \in {"begin", "body", "abort"} => c \in Transactions
        /\ pc[c] \in {"idle", "waiting", "begin"} => at[c] = 0
        /\ reply[c] = "none" <=> pc[c] \notin {"release", "done"}
        /\ c \in unsure => pc[c] \in {"abort", "release", "done"}
    /\ \A w \in stored : reply[w[1]] = "ok" \/ w[1] \in unsure

IInv == TypeOK /\ Lent /\ Connections /\ Answers

LEMMA Initially == ASSUME PgAssumption, Init PROVE IInv
<1>1. TypeOK
  BY DEF PgAssumption, Init, TypeOK
<1>2. Lent /\ Connections /\ Answers
  BY DEF Init, Lent, Connections, Clean, Answers, Free
<1> QED BY <1>1, <1>2 DEF IInv

\* Who is between connect and release holds a connection of the pool.
LEMMA Holds ==
  ASSUME PgAssumption, IInv, NEW c \in Calls, pc[c] \notin {"idle", "waiting", "done"}
  PROVE  /\ conn[c] \in Conns /\ conn[c] # 0 /\ conn[c] \notin Free
         /\ \A d \in Calls : d # c => conn[d] # conn[c]
  BY DEF IInv, TypeOK, Lent, Conns, Free, PgAssumption

-------------------------------------------------------------------------------
(* The pool. *)

LEMMA AskKeeps ==
  ASSUME PgAssumption, IInv, NEW c \in Calls, Ask(c) PROVE IInv'
<1> USE DEF IInv, Ask, Goto
<1>1. TypeOK' BY DEF TypeOK
<1>2. Lent' /\ Answers' BY DEF Lent, Answers, TypeOK
<1>3. Connections' BY DEF Connections, Clean, Free, Alive, TypeOK
<1> QED BY <1>1, <1>2, <1>3

LEMMA ConnectKeeps ==
  ASSUME PgAssumption, IInv, NEW c \in Calls, Connect(c) PROVE IInv'
<1>1. PICK k \in Free : conn' = [conn EXCEPT ![c] = k]
  BY DEF Connect
<1>2. PICK to \in {"begin", "query"} :
          /\ pc' = [pc EXCEPT ![c] = to]
          /\ to = "begin" <=> c \in Transactions
  BY DEF Connect, Goto
<1>3. pc[c] = "waiting" /\ UNCHANGED <<at, reply, txn, pending, dead, stored, unsure, breaks>>
  BY DEF Connect
<1>4. k \in Conns /\ k \in 1..PoolMax /\ k # 0 /\ Clean(k) /\ \A d \in Calls : conn[d] # k
  BY <1>1 DEF IInv, Connections, Free, Conns, PgAssumption
<1>5. TypeOK'
  BY <1>1, <1>2, <1>3, <1>4 DEF IInv, TypeOK, PgAssumption
<1>6. Lent'
  BY <1>1, <1>4 DEF IInv, Lent, TypeOK
<1>7. Connections'
  <2>1. \A j \in (Free \cup dead)' : Clean(j)'
    <3>1. Free' \subseteq Free
      <4>1. conn[c] = 0 /\ \A j \in Conns : j # 0
        BY <1>3 DEF IInv, TypeOK, Conns, PgAssumption
      <4>2. \A d \in Calls : conn'[d] = conn[d] \/ d = c
        BY <1>1 DEF IInv, TypeOK
      <4> QED BY <4>1, <4>2 DEF Free
    <3> QED BY <1>3, <3>1 DEF IInv, Connections, Clean
  <2>2. ASSUME NEW d \in Calls
        PROVE  /\ pc'[d] \in {"begin", "query", "release"} => Clean(conn[d])'
               /\ pc'[d] = "body" /\ Alive(d)' =>
                    txn'[conn'[d]] = "open" /\ pending'[conn'[d]] = {d} \X (1..at'[d])
               /\ pc'[d] = "abort" => \A w \in pending'[conn'[d]] : w[1] = d
    <3>1. CASE d = c
      BY <1>1, <1>2, <1>3, <1>4, <3>1 DEF IInv, TypeOK, Clean
    <3>2. CASE d # c
      <4>1. pc'[d] = pc[d] /\ conn'[d] = conn[d]
        BY <1>1, <1>2, <3>2 DEF IInv, TypeOK
      <4> QED BY <1>3, <4>1 DEF IInv, Connections, Clean, Alive
    <3> QED BY <3>1, <3>2
  <2> QED BY <2>1, <2>2 DEF Connections
<1>8. Answers'
  BY <1>2, <1>3 DEF IInv, Answers, TypeOK, Calls
<1> QED BY <1>5, <1>6, <1>7, <1>8 DEF IInv

LEMMA TimeoutKeeps ==
  ASSUME PgAssumption, IInv, NEW c \in Calls, ConnectTimesOut(c) PROVE IInv'
<1> USE DEF IInv, ConnectTimesOut, Goto, Answer
<1>1. TypeOK' BY DEF TypeOK
<1>2. Lent' /\ Answers' BY DEF Lent, Answers, TypeOK
<1>3. Connections' BY DEF Connections, Clean, Free, Alive, TypeOK
<1> QED BY <1>1, <1>2, <1>3

LEMMA BreakKeeps ==
  ASSUME PgAssumption, IInv, NEW k \in Conns, Break(k) PROVE IInv'
<1>1. /\ dead' = dead \cup {k} /\ breaks < MaxBreaks /\ breaks' = breaks + 1
      /\ txn' = [txn EXCEPT ![k] = "none"] /\ pending' = [pending EXCEPT ![k] = {}]
      /\ UNCHANGED <<pc, conn, at, reply, stored, unsure>>
  BY DEF Break, Ends
<1>2. TypeOK'
  BY <1>1 DEF IInv, TypeOK, PgAssumption
<1>3. Lent' /\ Answers'
  BY <1>1 DEF IInv, Lent, Answers
<1>4. Connections'
  <2>1. \A j \in Conns : Clean(j)' <=> Clean(j) \/ j = k
    BY <1>1 DEF Clean, IInv, TypeOK
  <2>2. \A j \in (Free \cup dead)' : Clean(j)'
    BY <1>1, <2>1 DEF IInv, Connections, Free, TypeOK
  <2>3. ASSUME NEW c \in Calls
        PROVE  /\ pc'[c] \in {"begin", "query", "release"} => Clean(conn[c])'
               /\ pc'[c] = "body" /\ Alive(c)' =>
                    txn'[conn'[c]] = "open" /\ pending'[conn'[c]] = {c} \X (1..at'[c])
               /\ pc'[c] = "abort" => \A w \in pending'[conn'[c]] : w[1] = c
    <3>1. pc[c] \in {"begin", "query", "release", "body", "abort"} => conn[c] \in Conns
      BY Holds
    <3>2. pc'[c] \in {"begin", "query", "release"} => Clean(conn[c])'
      BY <1>1, <3>1 DEF IInv, Connections, Clean, TypeOK
    <3>3. pc'[c] = "body" /\ Alive(c)' =>
             txn'[conn'[c]] = "open" /\ pending'[conn'[c]] = {c} \X (1..at'[c])
      BY <1>1, <3>1 DEF IInv, Connections, Alive, TypeOK
    <3>4. pc'[c] = "abort" => \A w \in pending'[conn'[c]] : w[1] = c
      BY <1>1, <3>1 DEF IInv, Connections, TypeOK
    <3> QED BY <3>2, <3>3, <3>4
  <2> QED BY <2>2, <2>3 DEF Connections
<1> QED BY <1>2, <1>3, <1>4 DEF IInv

LEMMA ReplaceKeeps ==
  ASSUME PgAssumption, IInv, NEW k \in Conns, Replace(k) PROVE IInv'
<1> USE DEF IInv, Replace
<1>1. TypeOK' BY DEF TypeOK
<1>2. Lent' /\ Answers' BY DEF Lent, Answers
<1>3. Connections' BY DEF Connections, Clean, Free, Alive, TypeOK
<1> QED BY <1>1, <1>2, <1>3

LEMMA ReleaseKeeps ==
  ASSUME PgAssumption, IInv, NEW c \in Calls, Release(c) PROVE IInv'
<1>1. /\ pc[c] = "release" /\ pc' = [pc EXCEPT ![c] = "done"]
      /\ conn' = [conn EXCEPT ![c] = 0] /\ dead' = dead \ {conn[c]}
      /\ UNCHANGED <<at, reply, txn, pending, stored, unsure, breaks>>
  BY DEF Release, Goto
<1>2. conn[c] \in Conns /\ conn[c] # 0 /\ Clean(conn[c])
  BY <1>1, Holds DEF IInv, Connections
<1>3. TypeOK'
  BY <1>1 DEF IInv, TypeOK, PgAssumption
<1>4. Lent' /\ Answers'
  BY <1>1 DEF IInv, Lent, Answers, TypeOK
<1>5. Connections'
  <2>1. \A j \in (Free \cup dead)' : Clean(j)'
    BY <1>1, <1>2 DEF IInv, Connections, Free, Clean, TypeOK
  <2>2. \A d \in Calls : d # c /\ conn[d] # 0 => conn[d] # conn[c]
    BY <1>2 DEF IInv, Lent
  <2>3. \A d \in Calls : pc[d] = "body" => conn[d] # 0
    BY DEF IInv, TypeOK
  <2> QED BY <1>1, <2>1, <2>2, <2>3 DEF IInv, Connections, Clean, Alive, TypeOK
<1> QED BY <1>3, <1>4, <1>5 DEF IInv

-------------------------------------------------------------------------------
(* Statements and transactions. *)

\* A step of one call that touches no connection but its own.
LEMMA OwnConnection ==
  ASSUME PgAssumption, IInv, NEW c \in Calls, pc[c] \notin {"idle", "waiting", "done"},
         conn' = conn, \A d \in Calls : d # c => pc'[d] = pc[d] /\ at'[d] = at[d],
         \A k \in Conns : k # conn[c] => txn'[k] = txn[k] /\ pending'[k] = pending[k],
         dead \subseteq dead', dead' \subseteq dead \cup {conn[c]},
         conn[c] \in dead' => Clean(conn[c])',
         pc'[c] \in {"begin", "query", "release"} => Clean(conn[c])',
         pc'[c] = "body" /\ conn[c] \notin dead' =>
            txn'[conn[c]] = "open" /\ pending'[conn[c]] = {c} \X (1..at'[c]),
         pc'[c] = "abort" => \A w \in pending'[conn[c]] : w[1] = c
  PROVE  Connections'
<1>1. /\ conn[c] \in Conns /\ conn[c] \notin Free
      /\ \A d \in Calls : d # c => conn[d] # conn[c]
  BY Holds
<1>2. \A j \in (Free \cup dead)' : Clean(j)'
  BY <1>1 DEF IInv, Connections, Free, Clean, TypeOK
<1>3. ASSUME NEW d \in Calls, d # c
      PROVE  /\ pc'[d] \in {"begin", "query", "release"} => Clean(conn[d])'
             /\ pc'[d] = "body" /\ Alive(d)' =>
                  txn'[conn'[d]] = "open" /\ pending'[conn'[d]] = {d} \X (1..at'[d])
             /\ pc'[d] = "abort" => \A w \in pending'[conn'[d]] : w[1] = d
  <2>1. pc[d] \in {"begin", "query", "release", "body", "abort"} =>
           conn[d] \in Conns /\ conn[d] # conn[c]
    BY <1>1, <1>3, Holds
  <2> QED BY <1>3, <2>1 DEF IInv, Connections, Clean, Alive
<1>4. /\ pc'[c] \in {"begin", "query", "release"} => Clean(conn[c])'
      /\ pc'[c] = "body" /\ Alive(c)' =>
            txn'[conn'[c]] = "open" /\ pending'[conn'[c]] = {c} \X (1..at'[c])
      /\ pc'[c] = "abort" => \A w \in pending'[conn'[c]] : w[1] = c
  BY DEF Alive
<1> QED BY <1>2, <1>3, <1>4 DEF Connections

LEMMA QueryKeeps ==
  ASSUME PgAssumption, IInv, NEW c \in Calls, Query(c) \/ QueryFails(c) PROVE IInv'
<1>1. PICK r \in {"ok", "error"} :
          /\ reply' = [reply EXCEPT ![c] = r]
          /\ stored' \subseteq stored \cup {<<c, 1>>}
          /\ r = "error" => stored' = stored
  BY DEF Query, QueryFails, Answer
<1>2. /\ pc[c] = "query" /\ pc' = [pc EXCEPT ![c] = "release"]
      /\ UNCHANGED <<conn, at, txn, pending, dead, unsure, breaks>>
  BY DEF Query, QueryFails, Goto
<1>3. TypeOK'
  BY <1>1, <1>2 DEF IInv, TypeOK
<1>4. Lent'
  BY <1>2 DEF IInv, Lent
<1>5. Connections'
  BY <1>2, OwnConnection DEF IInv, Connections, Clean, TypeOK
<1>6. Answers'
  BY <1>1, <1>2 DEF IInv, Answers, TypeOK
<1> QED BY <1>3, <1>4, <1>5, <1>6 DEF IInv

LEMMA BeginKeeps ==
  ASSUME PgAssumption, IInv, NEW c \in Calls, Begin(c) PROVE IInv'
<1>1. /\ pc[c] = "begin" /\ pc' = [pc EXCEPT ![c] = "body"] /\ conn[c] \notin dead
      /\ txn' = [txn EXCEPT ![conn[c]] = "open"]
      /\ UNCHANGED <<conn, at, reply, pending, dead, stored, unsure, breaks>>
  BY DEF Begin, Goto, Alive
<1>2. conn[c] \in Conns
  BY <1>1, Holds
<1>3. TypeOK'
  BY <1>1, <1>2 DEF IInv, TypeOK
<1>4. Lent' /\ Answers'
  BY <1>1 DEF IInv, Lent, Answers, TypeOK
<1>5. pending[conn[c]] = {} /\ at[c] = 0
  BY <1>1 DEF IInv, Connections, Answers, Clean
<1>6. {c} \X (1..at'[c]) = {}
  BY <1>1, <1>5
<1>7. Connections'
  BY <1>1, <1>2, <1>5, <1>6, OwnConnection DEF IInv, TypeOK
<1> QED BY <1>3, <1>4, <1>7 DEF IInv

LEMMA BodyKeeps ==
  ASSUME PgAssumption, IInv, NEW c \in Calls, BodyStatement(c) PROVE IInv'
<1>1. /\ pc[c] = "body" /\ at[c] < BodySize /\ at' = [at EXCEPT ![c] = @ + 1]
      /\ conn[c] \notin dead
      /\ pending' = [pending EXCEPT ![conn[c]] = @ \cup {<<c, at[c] + 1>>}]
      /\ UNCHANGED <<pc, conn, reply, txn, dead, stored, unsure, breaks>>
  BY DEF BodyStatement, Alive
<1>2. /\ conn[c] \in Conns /\ at[c] \in 0..BodySize /\ at[c] \in Nat
      /\ txn[conn[c]] = "open" /\ pending[conn[c]] = {c} \X (1..at[c])
  BY <1>1, Holds DEF IInv, TypeOK, Connections, Alive, PgAssumption
<1>3. at' \in [Calls -> 0..BodySize] /\ pending' \in [Conns -> SUBSET (Calls \X Nat)]
  BY <1>1, <1>2 DEF IInv, TypeOK, PgAssumption
<1>4. TypeOK'
  BY <1>1, <1>3 DEF IInv, TypeOK
<1>5. Lent' /\ Answers'
  BY <1>1 DEF IInv, Lent, Answers, TypeOK
<1>6. pending'[conn[c]] = {c} \X (1..at'[c])
  <2>1. 1..(at[c] + 1) = (1..at[c]) \cup {at[c] + 1}
    BY <1>2
  <2>2. at'[c] = at[c] + 1 /\ pending'[conn[c]] = pending[conn[c]] \cup {<<c, at[c] + 1>>}
    BY <1>1, <1>2 DEF IInv, TypeOK
  <2> QED BY <1>2, <2>1, <2>2
<1>7. Connections'
  BY <1>1, <1>2, <1>6, OwnConnection DEF IInv, TypeOK
<1> QED BY <1>4, <1>5, <1>7 DEF IInv

\* A statement is refused, or the body throws: what is pending stays its own.
LEMMA AbortKeeps ==
  ASSUME PgAssumption, IInv, NEW c \in Calls, StatementFails(c) \/ BodyThrows(c) PROVE IInv'
<1>1. /\ pc[c] \in {"begin", "body"} /\ pc' = [pc EXCEPT ![c] = "abort"]
      /\ txn' \in {txn, [txn EXCEPT ![conn[c]] = IF @ = "open" THEN "failed" ELSE @]}
      /\ UNCHANGED <<conn, at, reply, pending, dead, stored, unsure, breaks>>
  BY DEF StatementFails, BodyThrows, Goto
<1>2. conn[c] \in Conns
  BY <1>1, Holds
<1>3. TypeOK'
  BY <1>1, <1>2 DEF IInv, TypeOK
<1>4. Lent' /\ Answers'
  BY <1>1 DEF IInv, Lent, Answers, TypeOK
<1>5. \A w \in pending[conn[c]] : w[1] = c
  BY <1>1 DEF IInv, Connections, Clean, Alive
<1>6. conn[c] \in dead => Clean(conn[c])'
  BY <1>1, <1>2 DEF IInv, Connections, Clean, TypeOK
<1>7. \A k \in Conns : k # conn[c] => txn'[k] = txn[k]
  BY <1>1, <1>2 DEF IInv, TypeOK
<1>8. Connections'
  BY <1>1, <1>5, <1>6, <1>7, OwnConnection DEF IInv, TypeOK
<1> QED BY <1>3, <1>4, <1>8 DEF IInv

\* What COMMIT makes permanent is the body of this transaction and all of it.
LEMMA OwnWrites ==
  ASSUME PgAssumption, IInv, NEW c \in Calls, pc[c] = "body", at[c] = BodySize, Alive(c)
  PROVE  pending[conn[c]] = {c} \X (1..BodySize)
  BY DEF IInv, Connections

LEMMA CommitKeeps ==
  ASSUME PgAssumption, IInv, NEW c \in Calls, Commit(c) PROVE IInv'
<1>1. /\ pc[c] = "body" /\ pc' = [pc EXCEPT ![c] = "release"]
      /\ at[c] = BodySize /\ Alive(c)
      /\ txn' = [txn EXCEPT ![conn[c]] = "none"]
      /\ pending' = [pending EXCEPT ![conn[c]] = {}]
      /\ reply' = [reply EXCEPT ![c] = "ok"]
      /\ stored' = stored \cup pending[conn[c]]
      /\ UNCHANGED <<conn, at, dead, unsure, breaks>>
  BY DEF Commit, Goto, Ends, Answer
<1>2. conn[c] \in Conns /\ \A w \in pending[conn[c]] : w[1] = c
  BY <1>1, Holds, OwnWrites
<1>3. TypeOK'
  BY <1>1, <1>2 DEF IInv, TypeOK
<1>4. Lent' /\ Answers'
  BY <1>1, <1>2 DEF IInv, Lent, Answers, TypeOK
<1>5. Clean(conn[c])'
  BY <1>1, <1>2 DEF IInv, TypeOK, Clean
<1>6. Connections'
  BY <1>1, <1>2, <1>5, OwnConnection DEF IInv, TypeOK
<1> QED BY <1>3, <1>4, <1>6 DEF IInv

LEMMA LostKeeps ==
  ASSUME PgAssumption, IInv, NEW c \in Calls, AnswerLost(c) PROVE IInv'
<1>1. /\ pc[c] \in {"query", "body"} /\ breaks < MaxBreaks /\ breaks' = breaks + 1
      /\ dead' = dead \cup {conn[c]} /\ unsure' = unsure \cup {c}
      /\ txn' = [txn EXCEPT ![conn[c]] = "none"]
      /\ pending' = [pending EXCEPT ![conn[c]] = {}]
      /\ UNCHANGED <<conn, at>>
  BY DEF AnswerLost, Ends
<1>2. PICK to \in {"release", "abort"} :
          /\ pc' = [pc EXCEPT ![c] = to]
          /\ to = "release" <=> pc[c] = "query"
          /\ IF to = "release" THEN reply' = [reply EXCEPT ![c] = "error"] ELSE reply' = reply
  BY DEF AnswerLost, Goto, Answer
<1>3. conn[c] \in Conns
  BY <1>1, Holds
<1>4. PICK W \in SUBSET ({c} \X Nat) : stored' = stored \cup W
  <2>1. CASE pc[c] = "query"
    <3>1. stored' = stored \cup {<<c, 1>>}
      BY <2>1 DEF AnswerLost
    <3>2. {<<c, 1>>} \in SUBSET ({c} \X Nat)
      OBVIOUS
    <3> QED BY <3>1, <3>2
  <2>2. CASE pc[c] # "query"
    <3>1. stored' = stored \cup pending[conn[c]]
      BY <2>2 DEF AnswerLost
    <3>2. pending[conn[c]] = {c} \X (1..BodySize)
      BY <2>2, OwnWrites DEF AnswerLost
    <3>3. {c} \X (1..BodySize) \in SUBSET ({c} \X Nat)
      BY DEF PgAssumption
    <3> QED BY <3>1, <3>2, <3>3
  <2> QED BY <2>1, <2>2
<1>5. TypeOK'
  BY <1>1, <1>2, <1>3, <1>4 DEF IInv, TypeOK, PgAssumption
<1>6. Lent'
  BY <1>1 DEF IInv, Lent
<1>7. Answers'
  BY <1>1, <1>2, <1>4 DEF IInv, Answers, TypeOK
<1>8. Clean(conn[c])'
  BY <1>1, <1>3 DEF IInv, TypeOK, Clean
<1>9. Connections'
  <2>1. pending'[conn[c]] = {}
    BY <1>1, <1>3 DEF IInv, TypeOK
  <2>2. \A k \in Conns : k # conn[c] => txn'[k] = txn[k] /\ pending'[k] = pending[k]
    BY <1>1, <1>3 DEF IInv, TypeOK
  <2>3. pc'[c] \in {"release", "abort"} /\ \A d \in Calls : d # c => pc'[d] = pc[d]
    BY <1>2 DEF IInv, TypeOK
  <2>4. /\ pc[c] \notin {"idle", "waiting", "done"} /\ conn' = conn /\ at' = at
        /\ dead \subseteq dead' /\ dead' \subseteq dead \cup {conn[c]}
    BY <1>1
  <2>5. \A d \in Calls : d # c => pc'[d] = pc[d] /\ at'[d] = at[d]
    BY <2>3, <2>4
  <2>6. /\ conn[c] \in dead' => Clean(conn[c])'
        /\ pc'[c] \in {"begin", "query", "release"} => Clean(conn[c])'
        /\ pc'[c] = "abort" => \A w \in pending'[conn[c]] : w[1] = c
    BY <1>8, <2>1
  <2>7. pc'[c] # "body"
    BY <2>3
  <2> QED BY <2>2, <2>4, <2>5, <2>6, <2>7, OwnConnection
<1> QED BY <1>5, <1>6, <1>7, <1>9 DEF IInv

LEMMA RollbackKeeps ==
  ASSUME PgAssumption, IInv, NEW c \in Calls, Rollback(c) PROVE IInv'
<1>1. /\ pc[c] = "abort" /\ pc' = [pc EXCEPT ![c] = "release"]
      /\ txn' = [txn EXCEPT ![conn[c]] = "none"]
      /\ pending' = [pending EXCEPT ![conn[c]] = {}]
      /\ reply' = [reply EXCEPT ![c] = "error"]
      /\ UNCHANGED <<conn, at, dead, stored, unsure, breaks>>
  BY DEF Rollback, Goto, Ends, Answer
<1>2. conn[c] \in Conns
  BY <1>1, Holds
<1>3. TypeOK'
  BY <1>1, <1>2 DEF IInv, TypeOK
<1>4. Lent' /\ Answers'
  BY <1>1 DEF IInv, Lent, Answers, TypeOK
<1>5. Clean(conn[c])'
  BY <1>1, <1>2 DEF IInv, TypeOK, Clean
<1>6. Connections'
  BY <1>1, <1>2, <1>5, OwnConnection DEF IInv, TypeOK
<1> QED BY <1>3, <1>4, <1>6 DEF IInv

-------------------------------------------------------------------------------
LEMMA Inductive == ASSUME PgAssumption PROVE Spec => []IInv
<1>1. Init => IInv
  BY Initially
<1>2. ASSUME IInv, [Next]_vars PROVE IInv'
  <2>1. ASSUME NEW c \in Calls,
               Ask(c) \/ Connect(c) \/ ConnectTimesOut(c) \/ Run(c) \/ AnswerLost(c)
        PROVE  IInv'
    BY <1>2, <2>1, AskKeeps, ConnectKeeps, TimeoutKeeps, QueryKeeps, BeginKeeps, BodyKeeps,
       AbortKeeps, CommitKeeps, RollbackKeeps, ReleaseKeeps, LostKeeps DEF Run
  <2>2. ASSUME NEW k \in Conns, Break(k) \/ Replace(k) PROVE IInv'
    BY <1>2, <2>2, BreakKeeps, ReplaceKeeps
  <2>3. CASE UNCHANGED vars
    BY <1>2, <2>3 DEF vars, IInv, TypeOK, Lent, Connections, Answers, Clean, Free, Alive
  <2> QED BY <1>2, <2>1, <2>2, <2>3 DEF Next
<1> QED BY <1>1, <1>2, PTL DEF Spec

\* The state stays well formed: who holds a connection is who is between connect
\* and release.
THEOREM TypeCorrect == ASSUME PgAssumption PROVE Spec => []TypeOK
<1>1. IInv => TypeOK
  BY DEF IInv
<1> QED BY <1>1, Inductive, PTL

\* No connection carries a transaction, or another's writes, to the next
\* borrower, although ROLLBACK itself may fail (PgDb.transaction).
THEOREM ConnectionsComeBackClean == ASSUME PgAssumption PROVE Spec => []CleanConnections
<1>1. ASSUME IInv PROVE CleanConnections
  <2>1. ASSUME NEW c \in Calls, conn[c] # 0
        PROVE  /\ \A w \in pending[conn[c]] : w[1] = c
               /\ pc[c] \in {"query", "begin"} => txn[conn[c]] = "none"
    <3>1. pc[c] \in {"begin", "query", "body", "abort", "release"}
      BY <1>1, <2>1 DEF IInv, TypeOK
    <3> QED BY <1>1, <3>1 DEF IInv, Connections, Clean, Alive
  <2> QED BY <1>1, <2>1 DEF IInv, Connections, Clean, CleanConnections
<1> QED BY <1>1, Inductive, PTL

-------------------------------------------------------------------------------
(* The contract of a driver. *)

\* A call that is not answered and not in doubt has left nothing behind.
LEMMA Unanswered ==
  ASSUME IInv, NEW c \in Calls, reply[c] = "none"
  PROVE  /\ c \notin unsure => Contract!Untouched(c)
         /\ \A r : reply' = [reply EXCEPT ![c] = r] => Contract!Answer(c, r)
  BY DEF IInv, Answers, Contract!Untouched, Contract!Answer

LEMMA ContractStep ==
  ASSUME PgAssumption, IInv, NEW c \in Calls,
         Ask(c) \/ Connect(c) \/ ConnectTimesOut(c) \/ Run(c) \/ AnswerLost(c)
  PROVE  [Contract!Next]_(Contract!vars)
<1>1. pc[c] \notin {"release", "done"} => reply[c] = "none"
  BY DEF IInv, Answers
<1>2. pc[c] \in {"waiting", "query", "body"} => c \notin unsure
  BY DEF IInv, Answers
<1>3. Contract!WritesOf(c) = {c} \X (1..(IF c \in Transactions THEN BodySize ELSE 1))
  BY DEF Contract!WritesOf
<1>4. pc[c] = "query" => Contract!WritesOf(c) = {<<c, 1>>}
  <2>1. ASSUME pc[c] = "query" PROVE c \notin Transactions
    BY <2>1 DEF IInv, Answers, PgAssumption
  <2> QED BY <1>3, <2>1
<1>5. pc[c] = "body" /\ at[c] = BodySize /\ Alive(c) =>
         Contract!WritesOf(c) = pending[conn[c]]
  <2>1. pc[c] = "body" => c \in Transactions
    BY DEF IInv, Answers
  <2> QED BY <1>3, <2>1, OwnWrites
<1>6. CASE \/ Ask(c) \/ Connect(c) \/ Release(c)
           \/ Begin(c) \/ BodyStatement(c) \/ StatementFails(c) \/ BodyThrows(c)
  BY <1>6 DEF Ask, Connect, Release, Begin, BodyStatement, StatementFails, BodyThrows,
              Contract!vars
<1>7. CASE ConnectTimesOut(c) \/ QueryFails(c)
  <2>1. Contract!Fail(c)
    BY <1>1, <1>2, <1>7, Unanswered
       DEF ConnectTimesOut, QueryFails, Answer, Contract!Fail
  <2> QED BY <2>1 DEF Contract!Next
<1>8. CASE Query(c)
  <2>1. Contract!Succeed(c)
    BY <1>1, <1>2, <1>4, <1>8, Unanswered
       DEF Query, Answer, Contract!Succeed, Contract!Apply
  <2> QED BY <2>1 DEF Contract!Next
<1>9. CASE Commit(c)
  <2>1. Contract!Succeed(c)
    BY <1>1, <1>2, <1>5, <1>9, Unanswered
       DEF Commit, Answer, Contract!Succeed, Contract!Apply
  <2> QED BY <2>1 DEF Contract!Next
<1>10. CASE Rollback(c)
  <2>1. reply[c] = "none" /\ reply' = [reply EXCEPT ![c] = "error"]
        /\ UNCHANGED <<stored, unsure>>
    BY <1>1, <1>10 DEF Rollback, Answer
  <2>2. c \in unsure => Contract!FailLate(c)
    BY <2>1, Unanswered DEF Contract!FailLate
  <2>3. c \notin unsure => Contract!Fail(c)
    BY <2>1, Unanswered DEF Contract!Fail
  <2> QED BY <2>2, <2>3 DEF Contract!Next
<1>11. CASE AnswerLost(c)
  <2>1. MaxBreaks > 0
    BY <1>11 DEF AnswerLost, IInv, TypeOK, PgAssumption
  <2>2. stored' = stored \cup Contract!WritesOf(c)
    BY <1>4, <1>5, <1>11 DEF AnswerLost
  <2>3. /\ reply[c] = "none" /\ c \notin unsure /\ unsure' = unsure \cup {c}
        /\ reply' = [reply EXCEPT ![c] = "error"] \/ reply' = reply
    BY <1>1, <1>2, <1>11 DEF AnswerLost, Answer
  <2>4. Contract!Lose(c)
    BY <2>1, <2>2, <2>3, Unanswered DEF Contract!Lose, Contract!Apply
  <2> QED BY <2>4 DEF Contract!Next
<1> QED BY <1>6, <1>7, <1>8, <1>9, <1>10, <1>11 DEF Run

\* Pool, COMMIT and ROLLBACK add up to what a handler is promised of DbClient,
\* whichever connections die where: a call is carried out whole or not at all,
\* and its answer is true unless the answer to its last message was lost.
THEOREM ImplementsContract == ASSUME PgAssumption PROVE Spec => ContractSpec
<1>1. Init => Contract!Init
  BY DEF Init, Contract!Init
<1>2. ASSUME IInv, [Next]_vars PROVE [Contract!Next]_(Contract!vars)
  <2>1. ASSUME NEW k \in Conns, Break(k) \/ Replace(k) PROVE UNCHANGED Contract!vars
    BY <2>1 DEF Break, Replace, Contract!vars
  <2>2. CASE UNCHANGED vars
    BY <2>2 DEF vars, Contract!vars
  <2> QED BY <1>2, <2>1, <2>2, ContractStep DEF Next
<1> QED BY <1>1, <1>2, Inductive, PTL DEF Spec, ContractSpec, Contract!Spec

===============================================================================
