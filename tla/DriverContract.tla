----------------------------- MODULE DriverContract -----------------------------
(***************************************************************************)
(* What the handlers may rely on whichever database is configured: the     *)
(* interface DbClient (server/pg-db.ts) that both drivers implement.  A    *)
(* call (a statement, or a transaction with its body) puts all of its      *)
(* writes into the database in one step, or none; it is answered once; and *)
(* the answer says what happened, except that a driver that talks to a     *)
(* server may lose the answer of a call that was carried out.  Nothing is  *)
(* said of connections, mutexes and ROLLBACK.                              *)
(***************************************************************************)
EXTENDS Naturals

CONSTANTS
    Calls,
    Size,       \* per call: how many writes it makes
    Lossy       \* the answer of a call can be lost

ContractAssumption ==
    /\ Size \in [Calls -> Nat \ {0}]
    /\ Lossy \in BOOLEAN

VARIABLES
    stored,     \* database: the writes <<call, n>> that are committed
    reply,      \* per call: none, ok, error
    lost        \* calls that were carried out without an answer

vars == <<stored, reply, lost>>

Init ==
    /\ stored = {}
    /\ reply = [c \in Calls |-> "none"]
    /\ lost = {}

WritesOf(c) == {c} \X (1..Size[c])

Untouched(c) == \A w \in stored : w[1] # c

Answer(c, r) ==
    /\ reply[c] = "none"
    /\ reply' = [reply EXCEPT ![c] = r]

Apply(c) ==
    /\ Untouched(c)
    /\ stored' = stored \cup WritesOf(c)

Succeed(c) == Apply(c) /\ Answer(c, "ok") /\ UNCHANGED lost

Fail(c) == Untouched(c) /\ Answer(c, "error") /\ UNCHANGED <<stored, lost>>

\* Carried out, and the answer is lost: at once or some time later the caller
\* is told an error.
Lose(c) ==
    /\ Lossy
    /\ reply[c] = "none"
    /\ Apply(c)
    /\ lost' = lost \cup {c}
    /\ Answer(c, "error") \/ UNCHANGED reply

FailLate(c) ==
    /\ c \in lost
    /\ Answer(c, "error")
    /\ UNCHANGED <<stored, lost>>

Next == \E c \in Calls : Succeed(c) \/ Fail(c) \/ Lose(c) \/ FailLate(c)

Spec == Init /\ [][Next]_vars
===============================================================================
