------------------------------- MODULE SupportChat -------------------------------
(***************************************************************************)
(* Writing to support through the bot (server/telegram.ts): /support and   *)
(* /paysupport arm the key support:<user> in the TTL store, and the next   *)
(* text message is stored as a support request and disarms it.             *)
(*                                                                         *)
(* One user.  Telegram posts each update to /api/webhooks/telegram until   *)
(* it gets a 2xx, over up to 40 connections, so updates of one chat may    *)
(* be handled at the same time; a handler that throws answers 500.  The    *)
(* user reads the bot's answers and acts on them.  A message and the kind  *)
(* of a request are not told apart.  Definitions named X_Fault are faulty  *)
(* variants of X, used by no action.                                       *)
(***************************************************************************)
EXTENDS Naturals, Sequences

CONSTANTS
    Commands,       \* /support and /paysupport messages
    Messages,       \* text messages that are not commands
    MaxFailures     \* statements, store calls and replies that may throw

Updates == Commands \cup Messages

SupportAssumption == Commands \cap Messages = {} /\ MaxFailures \in Nat

VARIABLES
    armed,      \* the key support:<user> exists
    requests,   \* per message: rows of support_requests holding it
    sent,       \* what the user has sent, in order
    pc,         \* per update: unsent, posted, set, read, insert, del, reply,
                \* unknown, failed, done
    told,       \* per update: what the user was answered, a set
    promised,   \* the user was told that the next message goes to support
    due,        \* messages sent on such a promise
    failures

vars == <<armed, requests, sent, pc, told, promised, due, failures>>

Init ==
    /\ armed = FALSE
    /\ requests = [m \in Messages |-> 0]
    /\ sent = <<>>
    /\ pc = [u \in Updates |-> "unsent"]
    /\ told = [u \in Updates |-> {}]
    /\ promised = FALSE
    /\ due = {}
    /\ failures = 0

Goto(u, to) == pc' = [pc EXCEPT ![u] = to]

-------------------------------------------------------------------------------
(* The user and Telegram *)

Send(u) ==
    /\ pc[u] = "unsent"
    /\ Goto(u, "posted")
    /\ sent' = Append(sent, u)
    /\ due' = IF promised /\ u \in Messages THEN due \cup {u} ELSE due
    /\ promised' = (promised /\ u \in Commands)
    /\ UNCHANGED <<armed, requests, told, failures>>

Precedes(u, v) == \E k \in DOMAIN sent : \E j \in 1..(k - 1) : sent[j] = u /\ sent[k] = v
Before(u) == {v \in Updates : Precedes(v, u)}
After(u)  == {v \in Updates : Precedes(u, v)}

\* bot.handleUpdate routes the update to its handler.
Deliver(u) ==
    /\ pc[u] \in {"posted", "failed"}
    /\ Goto(u, IF u \in Commands THEN "set" ELSE "read")
    /\ UNCHANGED <<armed, requests, sent, told, promised, due, failures>>

-------------------------------------------------------------------------------
(* /support, /paysupport *)

Arm(c) ==
    /\ pc[c] = "set"
    /\ armed' = TRUE
    /\ Goto(c, "reply")
    /\ UNCHANGED <<requests, sent, told, promised, due, failures>>

\* 'The next message will be forwarded'; one on its way counts as the next.
ReplyArmed(c) ==
    /\ pc[c] = "reply"
    /\ c \in Commands
    /\ Goto(c, "done")
    /\ told' = [told EXCEPT ![c] = @ \cup {"armed"}]
    /\ promised' = (promised \/ After(c) \cap Messages = {})
    /\ UNCHANGED <<armed, requests, sent, due, failures>>

-------------------------------------------------------------------------------
(* message:text *)

Read(m) ==
    /\ pc[m] = "read"
    /\ Goto(m, IF armed THEN "insert" ELSE "unknown")
    /\ UNCHANGED <<armed, requests, sent, told, promised, due, failures>>

\* The insert is not awaited, so that nobody sees it fail.
Insert_Unawaited(m) ==
    /\ pc[m] = "insert"
    /\ requests' \in {requests, [requests EXCEPT ![m] = @ + 1]}
    /\ Goto(m, "del")
    /\ UNCHANGED <<armed, sent, told, promised, due, failures>>

Insert(m) ==
    /\ pc[m] = "insert"
    /\ requests' = [requests EXCEPT ![m] = @ + 1]
    /\ Goto(m, "del")
    /\ UNCHANGED <<armed, sent, told, promised, due, failures>>

Disarm(m) ==
    /\ pc[m] = "del"
    /\ armed' = FALSE
    /\ Goto(m, "reply")
    /\ UNCHANGED <<requests, sent, told, promised, due, failures>>

\* 'The message has been passed on.'
ReplyStored(m) ==
    /\ pc[m] = "reply"
    /\ m \in Messages
    /\ Goto(m, "done")
    /\ told' = [told EXCEPT ![m] = @ \cup {"stored"}]
    /\ UNCHANGED <<armed, requests, sent, promised, due, failures>>

\* 'I understand the commands of the menu.'
ReplyUnknown(m) ==
    /\ pc[m] = "unknown"
    /\ Goto(m, "done")
    /\ told' = [told EXCEPT ![m] = @ \cup {"unknown"}]
    /\ UNCHANGED <<armed, requests, sent, promised, due, failures>>

-------------------------------------------------------------------------------
\* Any await throws; what ran before it stays.
Throws_Swallowed(u) ==
    /\ pc[u] \in {"set", "read", "insert", "del", "reply", "unknown"}
    /\ failures < MaxFailures
    /\ failures' = failures + 1
    /\ Goto(u, "done")
    /\ UNCHANGED <<armed, requests, sent, told, promised, due>>

Throws(u) ==
    /\ pc[u] \in {"set", "read", "insert", "del", "reply", "unknown"}
    /\ failures < MaxFailures
    /\ failures' = failures + 1
    /\ Goto(u, "failed")
    /\ UNCHANGED <<armed, requests, sent, told, promised, due>>

\* The key reaches its 600 s.
Expire ==
    /\ armed
    /\ armed' = FALSE
    /\ UNCHANGED <<requests, sent, pc, told, promised, due, failures>>

-------------------------------------------------------------------------------
Work(u) ==
    \/ Arm(u) \/ ReplyArmed(u)
    \/ Read(u) \/ Insert(u) \/ Disarm(u) \/ ReplyStored(u) \/ ReplyUnknown(u)

Next ==
    \/ \E u \in Updates : Send(u) \/ Deliver(u) \/ Work(u) \/ Throws(u)
    \/ Expire

\* Telegram posts an update when those before it are done, and the user writes
\* before the key expires.
HandleInTurn(u) ==
    \/ (\A v \in Before(u) : pc[v] = "done") /\ Deliver(u)
    \/ Work(u)
InTurn == \E u \in Updates : Send(u) \/ HandleInTurn(u) \/ Throws(u)

Spec == Init /\ [][Next]_vars

\* Telegram posts again; the event loop runs what is ready.
FairSpec == Spec /\ \A u \in Updates : WF_vars(HandleInTurn(u))

-------------------------------------------------------------------------------
(* Properties *)

\* Every variable holds a value the code can give it; what is on its way is
\* what was sent.
TypeOK ==
    /\ armed \in BOOLEAN
    /\ requests \in [Messages -> Nat]
    /\ sent \in Seq(Updates)
    /\ \A u \in Updates : pc[u] = "unsent" <=> \A k \in DOMAIN sent : sent[k] # u
    /\ pc \in [Updates -> {"unsent", "posted", "set", "read", "insert", "del", "reply",
                           "unknown", "failed", "done"}]
    /\ \A u \in Updates : pc[u] = "done" => told[u] # {}
    /\ told \in [Updates -> SUBSET {"armed", "stored", "unknown"}]
    /\ promised \in BOOLEAN
    /\ due \subseteq Messages
    /\ failures \in 0..MaxFailures

\* A user who is told that a message was passed on will get an answer: it is
\* stored, whichever attempts failed and whoever consumed the key.
StoredWhenTold == \A m \in Messages : "stored" \in told[m] => requests[m] > 0

\* The bot keeps its word: the message it asked for is not turned away.
PromiseKept == \A m \in due : "unknown" \in told[m] => requests[m] > 0

\* And it reaches support in the end, whatever fails on the way.
PromiseFulfilled == \A m \in Messages : m \in due ~> requests[m] > 0

\* Support gets a message once (it does not when the confirmation fails and the
\* update is repeated).
StoredOnce == \A m \in Messages : requests[m] <= 1
===============================================================================
