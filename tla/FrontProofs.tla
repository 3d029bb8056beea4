------------------------------- MODULE FrontProofs -------------------------------
(***************************************************************************)
(* Proofs about what meets the user, for any updates, messages, taps,      *)
(* windows, requests, callers and devices, and any values of the limits.   *)
(*                                                                         *)
(* Start-up.  The commands are set in order (Ordered); an update has as    *)
(* many requests at work as were cut, and one more while Telegram waits    *)
(* (Connected).                                                            *)
(*                                                                         *)
(* Support.  Updates handled one after the other (Turns) find the          *)
(* conversation as the previous one left it, so that the message the bot   *)
(* asked for finds it open or is stored already (Promise).                 *)
(*                                                                         *)
(* The switch.  The one tap at work (OneTap) knows what it has stored      *)
(* (TapKnows); without failures the taps that have stored are even or odd  *)
(* in number as the setting has changed or not (Counted).                  *)
(*                                                                         *)
(* Entry.  Effects that wait belong to the page on screen (Painted); the   *)
(* location is where the start parameter or the address leads, or the      *)
(* effects will make it so, until the user goes elsewhere (Deep, Direct,   *)
(* Followed).                                                              *)
(*                                                                         *)
(* Requests.  There are no more logins than requests that found their      *)
(* token refused (ClientInv); what is sent again carries a token that      *)
(* lives (Lives).                                                          *)
(*                                                                         *)
(* The limiter.  On Redis a window was opened by a request that passed,    *)
(* the key counts who passed in it, and in a window's length before it     *)
(* fewer than the limit did (RedisInv).  The memory store reads and writes *)
(* the counter as one step when requests come in turns of their own        *)
(* (MemoryInv).                                                            *)
(*                                                                         *)
(* Favourites.  The rows created are those taken away and the one left     *)
(* (Balance).  Of the devices at most one is open; at rest the cloud, or   *)
(* the device where there is none, holds what the user chose last          *)
(* (Current).                                                              *)
(***************************************************************************)
EXTENDS MCFront, FiniteSetTheorems, SequenceTheorems, TLAPS

-------------------------------------------------------------------------------
(* Counting in an instance is counting. *)

LEMMA SameCount ==
  \A S : /\ Switch!Cardinality(S) = Cardinality(S)
         /\ Client!Cardinality(S) = Cardinality(S)
         /\ Redis!Cardinality(S) = Cardinality(S)
         /\ Memory!Cardinality(S) = Cardinality(S)
         /\ List!Cardinality(S) = Cardinality(S)
  BY DEF Cardinality, Switch!Cardinality, Client!Cardinality, Redis!Cardinality,
         Memory!Cardinality, List!Cardinality

LEMMA SameFinite ==
  \A S : /\ Switch!IsFiniteSet(S) = IsFiniteSet(S)
         /\ Client!IsFiniteSet(S) = IsFiniteSet(S)
         /\ Redis!IsFiniteSet(S) = IsFiniteSet(S)
         /\ Memory!IsFiniteSet(S) = IsFiniteSet(S)
         /\ List!IsFiniteSet(S) = IsFiniteSet(S)
  BY DEF IsFiniteSet, Switch!IsFiniteSet, Client!IsFiniteSet, Redis!IsFiniteSet, Memory!IsFiniteSet,
         List!IsFiniteSet
-------------------------------------------------------------------------------
(* BotStartup: the start-up and the requests that wait for it. *)

\* The start-up has set every command it was to set so far.
Ordered ==
    /\ step = "init" => commands = 0
    /\ step = "commands" => commands < Calls
    /\ step \in {"menu", "webhook", "check"} => commands = Calls
    /\ status = "ready" => commands = Calls /\ (bHook = "ours" \/ moved)

\* Of the requests for an update at most one has an open connection, and it has
\* one exactly when Telegram has sent the update and waits for the answer.
Connected(u) ==
    /\ waiting[u] = cut[u] + (IF state[u] = "sent" THEN 1 ELSE 0)
    /\ cut[u] <= timeouts
    /\ state[u] = "confirmed" => handled[u] > 0

\* Who waits has not been looked at: what was handled or refused fits the status.
Judged ==
    /\ (\E u \in Posted : handled[u] > 0) => status = "ready"
    /\ refused # {} => status \in {"failed", "disabled"}

BotInv == Bot!TypeOK /\ Ordered /\ Judged /\ \A u \in Posted : Connected(u)

LEMMA BotInit == ASSUME Bot!Init, Bot!StartupAssumption PROVE BotInv
<1> USE DEF Bot!Init, Bot!StartupAssumption
<1>1. \A u \in Posted : /\ state[u] = "queued" /\ waiting[u] = 0 /\ cut[u] = 0 /\ handled[u] = 0
  OBVIOUS
<1>2. Bot!TypeOK
  <2>1. /\ status \in {"disabled", "initializing", "ready", "failed"}
        /\ step \in {"init", "commands", "menu", "webhook", "check", "end"}
        /\ status = "initializing" <=> step # "end"
    OBVIOUS
  <2>2. 0 \in 0..Calls /\ 0 \in 0..MaxFailures /\ 0 \in 0..MaxOthers /\ 0 \in 0..MaxTimeouts
        /\ 0 \in 0..MaxTimeouts + 1
    OBVIOUS
  <2>3. /\ waiting \in [Posted -> 0..MaxTimeouts + 1] /\ cut \in [Posted -> 0..MaxTimeouts]
        /\ handled \in [Posted -> Nat] /\ state \in [Posted -> {"queued", "sent", "confirmed"}]
    BY <2>2
  <2>4. /\ moved \in BOOLEAN /\ healthy \in BOOLEAN /\ refused \in SUBSET Posted
        /\ bHook \in {"ours", "other"}
    OBVIOUS
  <2>5. /\ commands \in 0..Calls /\ failures \in 0..MaxFailures /\ others \in 0..MaxOthers
        /\ timeouts \in 0..MaxTimeouts
    BY <2>2
  <2> HIDE DEF Bot!Init
  <2> QED BY <1>1, <2>1, <2>3, <2>4, <2>5 DEF Bot!TypeOK
<1>3. Ordered /\ Judged
  BY <1>1 DEF Ordered, Judged
<1>4. \A u \in Posted : Connected(u)
  BY <1>1 DEF Connected
<1> QED BY <1>2, <1>3, <1>4 DEF BotInv

\* A step of the start-up leaves Telegram's side alone.
LEMMA StartupKeeps ==
  ASSUME BotInv, Bot!StartupAssumption, Bot!Startup \/ Bot!StartupFails \/ Bot!OtherDeployment
                                        \/ Bot!Probe
  PROVE  BotInv'
<1> USE DEF Bot!StartupAssumption, BotInv
<1>1. Bot!TypeOK' /\ Ordered' /\ UNCHANGED <<timeouts, state, waiting, cut, handled, refused>>
      /\ (step = "end" => status' = status)
  <2>1. CASE Bot!BotInit
    BY <2>1 DEF Bot!BotInit, Bot!Goto, Bot!TypeOK, Ordered, Bot!counters, Bot!telegram
  <2>2. CASE Bot!SetCommands
    BY <2>2 DEF Bot!SetCommands, Bot!Goto, Bot!TypeOK, Ordered, Bot!counters, Bot!telegram
  <2>3. CASE Bot!SetMenuButton
    BY <2>3 DEF Bot!SetMenuButton, Bot!Goto, Bot!TypeOK, Ordered, Bot!counters, Bot!telegram
  <2>4. CASE Bot!SetWebhook
    BY <2>4 DEF Bot!SetWebhook, Bot!Goto, Bot!TypeOK, Ordered, Bot!counters, Bot!telegram
  <2>5. CASE Bot!CheckWebhook
    BY <2>5 DEF Bot!CheckWebhook, Bot!Verified, Bot!Goto, Bot!TypeOK, Ordered, Bot!counters,
                Bot!telegram
  <2>6. CASE Bot!StartupFails
    BY <2>6 DEF Bot!StartupFails, Bot!Caught, Bot!Goto, Bot!TypeOK, Ordered, Bot!telegram
  <2>7. CASE Bot!OtherDeployment
    <3>1. moved' \in BOOLEAN /\ (step = "end" => moved')
      BY <2>7 DEF Bot!OtherDeployment
    <3>2. /\ bHook' = "other" /\ others' \in 0..MaxOthers
          /\ UNCHANGED <<status, step, commands, failures, timeouts, state, waiting, cut,
                         handled, refused, healthy>>
      BY <2>7 DEF Bot!OtherDeployment, Bot!startup, Bot!telegram, Bot!TypeOK
    <3>3. Bot!TypeOK'
      BY <3>1, <3>2 DEF Bot!TypeOK
    <3>4. status = "ready" => step = "end"
      BY DEF Bot!TypeOK
    <3>5. Ordered'
      BY <3>1, <3>2, <3>4 DEF Ordered
    <3> QED BY <3>2, <3>3, <3>5
  <2>8. CASE Bot!Probe
    BY <2>8 DEF Bot!Probe, Bot!startup, Bot!counters, Bot!TypeOK, Ordered, Bot!telegram
  <2> QED BY <2>1, <2>2, <2>3, <2>4, <2>5, <2>6, <2>7, <2>8 DEF Bot!Startup
<1>2. Judged'
  BY <1>1 DEF Judged, Bot!TypeOK
<1>3. \A u \in Posted : Connected(u)'
  BY <1>1 DEF Connected
<1> QED BY <1>1, <1>2, <1>3

LEMMA PostKeeps ==
  ASSUME BotInv, Bot!StartupAssumption, NEW v \in Posted,
         Bot!Deliver(v) \/ Bot!RequestTimesOut(v)
  PROVE  BotInv'
<1> USE DEF Bot!StartupAssumption, BotInv
<1>1. UNCHANGED <<status, step, commands, bHook, failures, others, moved, handled, refused, healthy>>
  BY DEF Bot!Deliver, Bot!RequestTimesOut, Bot!startup, Bot!counters
<1>2. /\ timeouts' \in 0..MaxTimeouts /\ timeouts <= timeouts'
      /\ state' \in [Posted -> {"queued", "sent", "confirmed"}]
      /\ waiting' \in [Posted -> Nat] /\ cut' \in [Posted -> Nat]
      /\ \A u \in Posted : Connected(u)'
  <2>1. CASE Bot!Deliver(v)
    BY <2>1 DEF Bot!Deliver, Bot!counters, Bot!TypeOK, Connected
  <2>2. CASE Bot!RequestTimesOut(v)
    BY <2>2 DEF Bot!RequestTimesOut, Bot!TypeOK, Connected
  <2> QED BY <2>1, <2>2
<1>3. \A u \in Posted : /\ cut'[u] \in 0..MaxTimeouts /\ waiting'[u] \in 0..MaxTimeouts + 1
                        /\ cut'[u] <= waiting'[u]
  BY <1>2 DEF Connected
<1>4. Bot!TypeOK'
  BY <1>1, <1>2, <1>3 DEF Bot!TypeOK
<1>5. Ordered' /\ Judged'
  BY <1>1 DEF Ordered, Judged
<1> QED BY <1>2, <1>4, <1>5

LEMMA AnswerKeeps ==
  ASSUME BotInv, Bot!StartupAssumption, NEW v \in Posted, Bot!Refuse(v) \/ Bot!Handle(v)
  PROVE  BotInv'
<1> USE DEF Bot!StartupAssumption, BotInv
<1>1. UNCHANGED <<status, step, commands, bHook, failures, others, timeouts, moved, healthy>>
  BY DEF Bot!Refuse, Bot!Handle, Bot!startup, Bot!counters
<1>2. step = "end" /\ status # "initializing" /\ waiting[v] > 0
  BY DEF Bot!Refuse, Bot!Handle, Bot!BotReady, Bot!TypeOK
<1>3. /\ state' \in [Posted -> {"queued", "sent", "confirmed"}]
      /\ waiting' \in [Posted -> Nat] /\ cut' \in [Posted -> Nat]
      /\ handled' \in [Posted -> Nat] /\ refused' \in SUBSET Posted
      /\ \A u \in Posted : Connected(u)'
      /\ Judged'
  <2>1. CASE Bot!Refuse(v)
    BY <1>1, <1>2, <2>1 DEF Bot!Refuse, Bot!Unavailable, Bot!Leaves, Bot!Answered, Bot!TypeOK,
                     Connected, Judged
  <2>2. CASE Bot!Handle(v)
    BY <1>1, <1>2, <2>2 DEF Bot!Handle, Bot!Unavailable, Bot!Leaves, Bot!Answered, Bot!TypeOK,
                     Connected, Judged
  <2> QED BY <2>1, <2>2
<1>4. \A u \in Posted : /\ cut'[u] \in 0..MaxTimeouts /\ waiting'[u] \in 0..MaxTimeouts + 1
                        /\ cut'[u] <= waiting'[u]
  BY <1>1, <1>3 DEF Connected, Bot!TypeOK
<1>5. Bot!TypeOK'
  BY <1>1, <1>3, <1>4 DEF Bot!TypeOK
<1>6. Ordered'
  BY <1>1 DEF Ordered
<1> QED BY <1>3, <1>5, <1>6

LEMMA BotKeeps == ASSUME BotInv, Bot!StartupAssumption, Bot!Next \/ UNCHANGED startup PROVE BotInv'
<1>1. CASE UNCHANGED startup
  BY <1>1 DEF startup, BotInv, Bot!TypeOK, Ordered, Judged, Connected
<1>2. CASE Bot!Next
  BY <1>2, StartupKeeps, PostKeeps, AnswerKeeps DEF Bot!Next, Bot!Undisturbed
<1> QED BY <1>1, <1>2
-------------------------------------------------------------------------------
(* SupportChat: what is stored, and the order of the updates. *)

Kinds ==
    /\ \A c \in Commands : sPc[c] \notin {"read", "insert", "del", "unknown"}
    /\ \A m \in Messages : sPc[m] # "set"
    /\ \A u \in Chat!Updates : sPc[u] = "unsent" => sTold[u] = {}

SentOnce == \A j, k \in DOMAIN sent : sent[j] = sent[k] => j = k

\* From the insert on the message is stored.
Kept ==
    \A m \in Messages :
        sPc[m] \in {"del", "reply"} \/ "stored" \in sTold[m] => sRequests[m] > 0

ChatInv == Chat!TypeOK /\ Kinds /\ SentOnce /\ Kept

\* An update is looked at when those before it are done.
Seen(u) == sPc[u] \notin {"unsent", "posted"}
Turns == \A u \in Chat!Updates : Seen(u) => \A v \in Chat!Before(u) : sPc[v] = "done"

\* While the promise stands, and for a message sent on it until it is stored,
\* the key is there and no other message is about to take it.
Promise ==
    /\ \A c \in Commands : sPc[c] = "reply" => armed
    /\ promised => armed /\ \A m \in Messages : sPc[m] \in {"unsent", "done"}
    /\ \A m \in due :
        /\ sPc[m] # "unsent"
        /\ \A n \in Chat!Before(m) \cap Messages : sPc[n] = "done"
        /\ sRequests[m] = 0 => armed
        /\ sPc[m] \in {"unknown", "done"} \/ "unknown" \in sTold[m] => sRequests[m] > 0

LEMMA ChatInit == ASSUME Chat!Init, Chat!SupportAssumption PROVE ChatInv /\ Turns /\ Promise
<1> USE DEF Chat!Init, Chat!SupportAssumption
<1>1. sent \in Seq(Chat!Updates) /\ DOMAIN sent = {}
  OBVIOUS
<1>2. Chat!TypeOK
  <2>1. 0 \in 0..ChatFailures
    OBVIOUS
  <2>2. armed \in BOOLEAN /\ promised \in BOOLEAN
    OBVIOUS
  <2> QED BY <1>1, <2>1, <2>2 DEF Chat!TypeOK, Chat!Updates
<1>3. Kinds /\ SentOnce /\ Kept
  BY <1>1 DEF Kinds, SentOnce, Kept, Chat!Updates
<1>4. Turns /\ Promise
  BY DEF Turns, Seen, Promise, Chat!Updates
<1> QED BY <1>2, <1>3, <1>4 DEF ChatInv

\* A handler at work, whether it throws or not, and a key that expires.
Working(u) == sPc[u] \in {"set", "read", "insert", "del", "reply", "unknown"}

LEMMA PcTyped ==
  ASSUME Chat!TypeOK, NEW u \in Chat!Updates, sPc[u] # "unsent", NEW to,
         to \in {"posted", "set", "read", "insert", "del", "reply", "unknown", "failed", "done"},
         sPc' = [sPc EXCEPT ![u] = to], UNCHANGED <<sent, due>>,
         armed' \in BOOLEAN, promised' \in BOOLEAN,
         sRequests' \in [Messages -> Nat], sFailures' \in 0..ChatFailures,
         sTold' \in [Chat!Updates -> SUBSET {"armed", "stored", "unknown"}],
         \A v \in Chat!Updates : sTold[v] \subseteq sTold'[v],
         to = "done" => sTold'[u] # {}
  PROVE  Chat!TypeOK'
<1>1. /\ sPc' \in [Chat!Updates -> {"unsent", "posted", "set", "read", "insert", "del", "reply",
                                    "unknown", "failed", "done"}]
      /\ \A v \in Chat!Updates : /\ sPc'[v] = "unsent" <=> sPc[v] = "unsent"
                                 /\ sPc'[v] = "done" => sTold'[v] # {}
  BY DEF Chat!TypeOK
<1> QED BY <1>1 DEF Chat!TypeOK

LEMMA WorkKeeps ==
  ASSUME ChatInv, Chat!SupportAssumption, NEW u \in Chat!Updates,
         Chat!Deliver(u) \/ Chat!Work(u) \/ Chat!Throws(u)
  PROVE  /\ ChatInv' /\ UNCHANGED <<sent, due>>
         /\ sPc' = [sPc EXCEPT ![u] = sPc'[u]]
         /\ \/ Chat!Deliver(u) /\ sPc'[u] \in {"set", "read"}
            \/ Working(u) /\ Seen(u)'
<1> USE DEF ChatInv, Chat!TypeOK, Kinds, Kept, Chat!Goto, Chat!Updates, Chat!SupportAssumption
<1>1. CASE Chat!Deliver(u)
  <2> USE <1>1 DEF Chat!Deliver
  <2>1. UNCHANGED <<sent, due, armed, sRequests, sTold, promised, sFailures>>
    OBVIOUS
  <2>2. sPc'[u] \in {"set", "read"} /\ (u \in Commands <=> sPc'[u] = "set") /\ sPc[u] # "unsent"
    OBVIOUS
  <2>3. sPc' = [sPc EXCEPT ![u] = sPc'[u]]
    OBVIOUS
  <2> QED BY <2>1, <2>2, <2>3 DEF SentOnce
<1>2. CASE Chat!Throws(u)
  <2> USE <1>2 DEF Chat!Throws
  <2>1. UNCHANGED <<sent, due, armed, sRequests, sTold, promised>>
    OBVIOUS
  <2>2. sPc[u] # "unsent" /\ sPc' = [sPc EXCEPT ![u] = "failed"] /\ sFailures' \in 0..ChatFailures
    OBVIOUS
  <2> HIDE DEF Chat!Throws
  <2>4. Chat!TypeOK'
    BY <2>1, <2>2, PcTyped
  <2>5. Kinds' /\ SentOnce' /\ Kept'
    BY <2>1, <2>2 DEF SentOnce
  <2> QED BY <1>2, <2>1, <2>2, <2>4, <2>5 DEF Working, Seen, Chat!Throws
<1>3. CASE Chat!Arm(u)
  <2> USE <1>3 DEF Chat!Arm
  <2>1. UNCHANGED <<sent, due, sRequests, sTold, promised, sFailures>> /\ armed' \in BOOLEAN
    OBVIOUS
  <2>2. sPc[u] # "unsent" /\ sPc' = [sPc EXCEPT ![u] = "reply"] /\ u \in Commands /\ u \notin Messages
    OBVIOUS
  <2> HIDE DEF Chat!Arm
  <2>4. Chat!TypeOK'
    BY <2>1, <2>2, PcTyped
  <2>5. Kinds' /\ SentOnce' /\ Kept'
    BY <2>1, <2>2 DEF SentOnce
  <2> QED BY <1>3, <2>1, <2>2, <2>4, <2>5 DEF Working, Seen, Chat!Arm
<1>4. CASE Chat!ReplyArmed(u)
  <2> USE <1>4 DEF Chat!ReplyArmed
  <2>1. UNCHANGED <<sent, due, sRequests, armed, sFailures>> /\ promised' \in BOOLEAN
    OBVIOUS
  <2>2. /\ sPc' = [sPc EXCEPT ![u] = "done"] /\ sPc[u] = "reply" /\ u \in Commands /\ u \notin Messages
        /\ sTold' = [sTold EXCEPT ![u] = @ \cup {"armed"}]
    OBVIOUS
  <2> HIDE DEF Chat!ReplyArmed
  <2>3. /\ sTold' \in [Chat!Updates -> SUBSET {"armed", "stored", "unknown"}]
        /\ sTold'[u] # {} /\ \A v \in Chat!Updates : sTold[v] \subseteq sTold'[v]
    BY <2>2
  <2>4. Chat!TypeOK'
    BY <2>1, <2>2, <2>3, PcTyped
  <2>5. Kinds' /\ SentOnce' /\ Kept'
    BY <2>1, <2>2 DEF SentOnce
  <2> QED BY <1>4, <2>1, <2>2, <2>4, <2>5 DEF Working, Seen, Chat!ReplyArmed
<1>5. CASE Chat!Read(u)
  <2> USE <1>5 DEF Chat!Read
  <2>1. UNCHANGED <<sent, due, sRequests, armed, sTold, promised, sFailures>>
    OBVIOUS
  <2>2. sPc' = [sPc EXCEPT ![u] = sPc'[u]] /\ sPc'[u] \in {"insert", "unknown"} /\ u \in Messages
    OBVIOUS
  <2> QED BY <2>1, <2>2 DEF SentOnce, Working, Seen
<1>6. CASE Chat!Insert(u)
  <2> USE <1>6 DEF Chat!Insert
  <2>1. UNCHANGED <<sent, due, armed, sTold, promised, sFailures>>
    OBVIOUS
  <2>2. /\ sPc' = [sPc EXCEPT ![u] = "del"] /\ u \in Messages
        /\ sRequests' = [sRequests EXCEPT ![u] = @ + 1]
    OBVIOUS
  <2> QED BY <2>1, <2>2 DEF SentOnce, Working, Seen
<1>7. CASE Chat!Disarm(u)
  <2> USE <1>7 DEF Chat!Disarm
  <2>1. UNCHANGED <<sent, due, sRequests, sTold, promised, sFailures>> /\ armed' \in BOOLEAN
    OBVIOUS
  <2>2. sPc' = [sPc EXCEPT ![u] = "reply"] /\ u \in Messages
    OBVIOUS
  <2> QED BY <2>1, <2>2 DEF SentOnce, Working, Seen
<1>8. CASE Chat!ReplyStored(u)
  <2> USE <1>8 DEF Chat!ReplyStored
  <2>1. UNCHANGED <<sent, due, sRequests, armed, promised, sFailures>>
    OBVIOUS
  <2>2. /\ sPc' = [sPc EXCEPT ![u] = "done"] /\ sPc[u] = "reply" /\ u \in Messages
        /\ sTold' = [sTold EXCEPT ![u] = @ \cup {"stored"}]
    OBVIOUS
  <2> HIDE DEF Chat!ReplyStored
  <2>3. /\ sTold' \in [Chat!Updates -> SUBSET {"armed", "stored", "unknown"}]
        /\ sTold'[u] # {} /\ \A v \in Chat!Updates : sTold[v] \subseteq sTold'[v]
    BY <2>2
  <2>4. Chat!TypeOK'
    BY <2>1, <2>2, <2>3, PcTyped
  <2>5. Kinds' /\ SentOnce' /\ Kept'
    BY <2>1, <2>2 DEF SentOnce
  <2> QED BY <1>8, <2>1, <2>2, <2>4, <2>5 DEF Working, Seen, Chat!ReplyStored
<1>9. CASE Chat!ReplyUnknown(u)
  <2> USE <1>9 DEF Chat!ReplyUnknown
  <2>1. UNCHANGED <<sent, due, sRequests, armed, promised, sFailures>>
    OBVIOUS
  <2>2. /\ sPc' = [sPc EXCEPT ![u] = "done"] /\ sPc[u] = "unknown" /\ u \in Messages
        /\ sTold' = [sTold EXCEPT ![u] = @ \cup {"unknown"}]
    OBVIOUS
  <2> HIDE DEF Chat!ReplyUnknown
  <2>3. /\ sTold' \in [Chat!Updates -> SUBSET {"armed", "stored", "unknown"}]
        /\ sTold'[u] # {} /\ \A v \in Chat!Updates : sTold[v] \subseteq sTold'[v]
    BY <2>2
  <2>4. Chat!TypeOK'
    BY <2>1, <2>2, <2>3, PcTyped
  <2>5. Kinds' /\ SentOnce' /\ Kept'
    BY <2>1, <2>2 DEF SentOnce
  <2> QED BY <1>9, <2>1, <2>2, <2>4, <2>5 DEF Working, Seen, Chat!ReplyUnknown
<1> QED BY <1>1, <1>2, <1>3, <1>4, <1>5, <1>6, <1>7, <1>8, <1>9 DEF Chat!Work

LEMMA SendKeeps ==
  ASSUME ChatInv, Chat!SupportAssumption, NEW u \in Chat!Updates, Chat!Send(u)
  PROVE  /\ ChatInv'
         /\ sPc' = [sPc EXCEPT ![u] = "posted"] /\ sPc[u] = "unsent"
         /\ \A v, w \in Chat!Updates :
                Chat!Precedes(v, w)' <=> Chat!Precedes(v, w) \/ (w = u /\ sPc[v] # "unsent")
<1> DEFINE n == Len(sent)
<1>1. /\ sent \in Seq(Chat!Updates) /\ n \in Nat /\ DOMAIN sent = 1..n
      /\ \A v \in Chat!Updates : sPc[v] = "unsent" <=> \A k \in 1..n : sent[k] # v
  BY DEF ChatInv, Chat!TypeOK
<1>2. /\ sent' \in Seq(Chat!Updates) /\ DOMAIN sent' = 1..(n + 1)
      /\ sent'[n + 1] = u /\ \A k \in 1..n : sent'[k] = sent[k]
  BY <1>1, AppendProperties DEF Chat!Send
<1>3. /\ sPc' = [sPc EXCEPT ![u] = "posted"] /\ sPc[u] = "unsent"
      /\ UNCHANGED <<armed, sRequests, sTold, sFailures>>
      /\ due' \subseteq Messages /\ promised' \in BOOLEAN
  BY DEF Chat!Send, Chat!Goto, ChatInv, Chat!TypeOK
<1> HIDE DEF n
<1>4. 1..(n + 1) = (1..n) \cup {n + 1} /\ n + 1 \notin 1..n
  BY <1>1
<1>5. \A v \in Chat!Updates : sPc'[v] = "unsent" <=> \A k \in DOMAIN sent' : sent'[k] # v
  BY <1>1, <1>2, <1>3, <1>4 DEF ChatInv, Chat!TypeOK
<1>6. Chat!TypeOK'
  <2>1. /\ sPc' \in [Chat!Updates -> {"unsent", "posted", "set", "read", "insert", "del", "reply",
                                      "unknown", "failed", "done"}]
        /\ \A v \in Chat!Updates : sPc'[v] = "done" => sTold'[v] # {}
    BY <1>3 DEF ChatInv, Chat!TypeOK
  <2> QED BY <1>2, <1>3, <1>5, <2>1 DEF ChatInv, Chat!TypeOK
<1>7. SentOnce'
  BY <1>1, <1>2, <1>3, <1>4 DEF ChatInv, SentOnce
<1>8. Kinds' /\ Kept'
  BY <1>3 DEF ChatInv, Chat!TypeOK, Kinds, Kept, Chat!Updates
<1>9. ASSUME NEW v \in Chat!Updates, NEW w \in Chat!Updates
      PROVE  Chat!Precedes(v, w)' <=> Chat!Precedes(v, w) \/ (w = u /\ sPc[v] # "unsent")
  <2>1. Chat!Precedes(v, w)' <=>
            \E k \in DOMAIN sent' : \E j \in 1..(k - 1) : sent'[j] = v /\ sent'[k] = w
    BY DEF Chat!Precedes
  <2>2. Chat!Precedes(v, w) <=>
            \E k \in 1..n : \E j \in 1..(k - 1) : sent[j] = v /\ sent[k] = w
    BY <1>1 DEF Chat!Precedes
  <2>3. \A k \in 1..n : \A j \in 1..(k - 1) : j \in 1..n
    BY <1>1
  <2>4. (n + 1) - 1 = n
    BY <1>1
  <2> QED BY <1>1, <1>2, <1>4, <2>1, <2>2, <2>3, <2>4
<1> QED BY <1>3, <1>6, <1>7, <1>8, <1>9 DEF ChatInv

LEMMA ChatKeeps ==
  ASSUME ChatInv, Chat!SupportAssumption, Chat!Next \/ UNCHANGED support PROVE ChatInv'
<1>1. CASE UNCHANGED support
  <2> USE <1>1 DEF support, ChatInv
  <2>1. Chat!TypeOK' BY DEF Chat!TypeOK
  <2>2. Kinds' /\ SentOnce' /\ Kept' BY DEF Kinds, SentOnce, Kept
  <2> QED BY <2>1, <2>2
<1>2. CASE Chat!Expire
  <2> USE <1>2 DEF Chat!Expire, ChatInv
  <2>1. armed' \in BOOLEAN /\ UNCHANGED <<sRequests, sent, sPc, sTold, promised, due, sFailures>>
    OBVIOUS
  <2>2. Chat!TypeOK' BY <2>1 DEF Chat!TypeOK
  <2>3. Kinds' /\ SentOnce' /\ Kept' BY <2>1 DEF Kinds, SentOnce, Kept
  <2> QED BY <2>2, <2>3
<1> QED BY <1>1, <1>2, WorkKeeps, SendKeeps DEF Chat!Next

\* What the order of the updates gives: of two that were sent one precedes the
\* other, and who is at work has nobody else at work.
LEMMA Ordering ==
  ASSUME ChatInv, NEW v \in Chat!Updates, NEW w \in Chat!Updates, v # w,
         sPc[v] # "unsent", sPc[w] # "unsent"
  PROVE  Chat!Precedes(v, w) \/ Chat!Precedes(w, v)
<1>1. sent \in Seq(Chat!Updates) /\ DOMAIN sent = 1..Len(sent) /\ Len(sent) \in Nat
  BY DEF ChatInv, Chat!TypeOK
<1>2. PICK j \in 1..Len(sent) : sent[j] = v
  BY <1>1 DEF ChatInv, Chat!TypeOK
<1>3. PICK k \in 1..Len(sent) : sent[k] = w
  BY <1>1 DEF ChatInv, Chat!TypeOK
<1>4. j \in 1..(k - 1) \/ k \in 1..(j - 1)
  <2>1. j # k
    BY <1>2, <1>3
  <2>2. j \in Int /\ k \in Int /\ 1 <= j /\ 1 <= k
    BY <1>1
  <2> QED BY <2>1, <2>2
<1> QED BY <1>1, <1>2, <1>3, <1>4 DEF Chat!Precedes

LEMMA AtWorkAlone ==
  ASSUME ChatInv, Turns, NEW v \in Chat!Updates, Working(v), NEW w \in Chat!Updates, Working(w)
  PROVE  v = w
<1> SUFFICES ASSUME v # w PROVE FALSE
  OBVIOUS
<1>1. Chat!Precedes(v, w) \/ Chat!Precedes(w, v)
  BY Ordering DEF Working
<1>2. Seen(v) /\ Seen(w) /\ sPc[v] # "done" /\ sPc[w] # "done"
  BY DEF Working, Seen
<1> QED BY <1>1, <1>2 DEF Turns, Chat!Before

LEMMA TurnsKeep ==
  ASSUME ChatInv, Turns, Chat!SupportAssumption, Chat!InTurn PROVE Turns'
<1>1. PICK u \in Chat!Updates : Chat!Send(u) \/ Chat!HandleInTurn(u) \/ Chat!Throws(u)
  BY DEF Chat!InTurn
<1> SUFFICES ASSUME NEW v \in Chat!Updates, Seen(v)', NEW w \in Chat!Updates,
                    Chat!Precedes(w, v)'
             PROVE  sPc'[w] = "done"
  BY DEF Turns, Chat!Before
<1>2. CASE Chat!Send(u)
  <2>1. v # u /\ Seen(v)
    BY <1>2, SendKeeps DEF Seen, ChatInv, Chat!TypeOK
  <2>2. sPc[w] = "done" /\ w # u
    BY <1>2, <2>1, SendKeeps DEF Turns, Chat!Before
  <2> QED BY <1>2, <2>2, SendKeeps DEF ChatInv, Chat!TypeOK
<1>3. CASE Chat!HandleInTurn(u) \/ Chat!Throws(u)
  <2>1. /\ sPc' = [sPc EXCEPT ![u] = sPc'[u]] /\ sent' = sent
        /\ sPc[u] # "done"
    BY <1>3, WorkKeeps DEF Chat!HandleInTurn, Chat!Deliver, Working
  <2>2. Chat!Precedes(w, v)
    BY <2>1 DEF Chat!Precedes
  <2>3. CASE Seen(v)
    <3>1. sPc[w] = "done"
      BY <2>2, <2>3 DEF Turns, Chat!Before
    <3> QED BY <2>1, <3>1 DEF ChatInv, Chat!TypeOK
  <2>4. CASE ~Seen(v)
    <3>1. v = u
      BY <2>1, <2>4 DEF Seen, ChatInv, Chat!TypeOK
    <3>2. \A x \in Chat!Before(u) : sPc[x] = "done"
      BY <1>3, <2>4, <3>1 DEF Chat!HandleInTurn, Chat!Work, Chat!Arm, Chat!ReplyArmed, Chat!Read,
         Chat!Insert, Chat!Disarm, Chat!ReplyStored, Chat!ReplyUnknown, Chat!Throws, Seen
    <3>3. sPc[w] = "done"
      BY <2>2, <3>1, <3>2 DEF Chat!Before
    <3> QED BY <2>1, <3>3 DEF ChatInv, Chat!TypeOK
  <2> QED BY <2>3, <2>4
<1> QED BY <1>1, <1>2, <1>3

LEMMA PromiseSent ==
  ASSUME ChatInv, Turns, Promise, Chat!SupportAssumption, NEW u \in Chat!Updates, Chat!Send(u)
  PROVE  Promise'
<1> USE DEF Chat!Updates
<1>1. /\ UNCHANGED <<armed, sRequests, sTold>>
      /\ promised' = (promised /\ u \in Commands)
      /\ due' = IF promised /\ u \in Messages THEN due \cup {u} ELSE due
  BY DEF Chat!Send
<1>2. /\ sPc' = [sPc EXCEPT ![u] = "posted"] /\ sPc[u] = "unsent"
      /\ \A v \in Chat!Updates : v # u => sPc'[v] = sPc[v]
      /\ sPc'[u] = "posted"
  BY SendKeeps DEF ChatInv, Chat!TypeOK
<1>3. \A c \in Commands : sPc'[c] = "reply" => armed'
  BY <1>1, <1>2 DEF Promise
<1>4. promised' => armed' /\ \A m \in Messages : sPc'[m] \in {"unsent", "done"}
  <2>1. u \in Commands => u \notin Messages
    BY DEF Chat!SupportAssumption
  <2> QED BY <1>1, <1>2, <2>1 DEF Promise
<1>5. ASSUME NEW m \in due'
      PROVE  /\ sPc'[m] # "unsent"
             /\ \A n \in Chat!Before(m)' \cap Messages : sPc'[n] = "done"
             /\ sRequests'[m] = 0 => armed'
             /\ sPc'[m] \in {"unknown", "done"} \/ "unknown" \in sTold'[m] => sRequests'[m] > 0
  <2>1. m \in Messages
    BY SendKeeps DEF ChatInv, Chat!TypeOK
  <2>2. CASE m \in due
    <3>1. m # u
      BY <1>2, <2>2 DEF Promise
    <3>2. \A n \in Chat!Before(m)' : n \in Chat!Before(m)
      BY <2>1, <3>1, SendKeeps DEF Chat!Before
    <3>3. \A n \in Chat!Before(m)' \cap Messages : sPc[n] = "done" /\ n # u
      BY <1>2, <2>2, <3>2 DEF Promise
    <3>4. \A n \in Chat!Before(m)' \cap Messages : sPc'[n] = "done"
      BY <1>2, <3>3
    <3> QED BY <1>1, <1>2, <2>1, <2>2, <3>1, <3>4 DEF Promise
  <2>3. CASE m \notin due
    <3>1. m = u /\ promised
      BY <1>1, <2>3
    <3>2. \A n \in Chat!Before(m)' : ~Chat!Precedes(n, u) => sPc[n] # "unsent"
      BY <2>1, <3>1, SendKeeps DEF Chat!Before
    <3>3. \A n \in Chat!Updates : ~Chat!Precedes(n, u)
      BY <1>2 DEF Chat!Precedes, ChatInv, Chat!TypeOK
    <3>4. \A n \in Chat!Before(m)' \cap Messages : sPc'[n] = "done"
      BY <1>2, <3>1, <3>2, <3>3 DEF Promise
    <3>5. "unknown" \in sTold[m] => FALSE
      BY <1>2, <2>1, <3>1 DEF ChatInv, Kinds
    <3> QED BY <1>1, <1>2, <3>1, <3>4, <3>5 DEF Promise
  <2> QED BY <2>2, <2>3
<1> QED BY <1>3, <1>4, <1>5 DEF Promise

LEMMA PromiseWorked ==
  ASSUME ChatInv, Turns, Promise, Chat!SupportAssumption, NEW u \in Chat!Updates,
         Chat!HandleInTurn(u) \/ Chat!Throws(u)
  PROVE  Promise'
<1>1. /\ sPc' = [sPc EXCEPT ![u] = sPc'[u]] /\ sent' = sent /\ due' = due
      /\ sPc[u] \notin {"unsent", "done"} /\ sPc'[u] # "unsent"
      /\ \A v \in Chat!Updates : v # u => sPc'[v] = sPc[v]
      /\ sPc \in [Chat!Updates -> {"unsent", "posted", "set", "read", "insert", "del", "reply",
                                   "unknown", "failed", "done"}]
  <2>1. sPc \in [Chat!Updates -> {"unsent", "posted", "set", "read", "insert", "del", "reply",
                                  "unknown", "failed", "done"}]
    BY DEF ChatInv, Chat!TypeOK
  <2>2. Chat!Deliver(u) \/ Chat!Work(u) \/ Chat!Throws(u)
    BY DEF Chat!HandleInTurn
  <2>3. /\ sPc' = [sPc EXCEPT ![u] = sPc'[u]] /\ UNCHANGED <<sent, due>>
        /\ \/ Chat!Deliver(u) /\ sPc'[u] \in {"set", "read"}
           \/ Working(u) /\ Seen(u)'
    BY <2>2, WorkKeeps
  <2>4. sPc[u] \notin {"unsent", "done"} /\ sPc'[u] # "unsent"
    BY <2>3 DEF Chat!Deliver, Working, Seen
  <2>5. \A v \in Chat!Updates : v # u => sPc'[v] = sPc[v]
    BY <2>1, <2>3
  <2> QED BY <2>1, <2>3, <2>4, <2>5
<1> USE DEF Chat!Updates
<1>2. \A m \in Chat!Updates : Chat!Before(m)' = Chat!Before(m)
  BY <1>1 DEF Chat!Before, Chat!Precedes
<1>3. due \subseteq Messages /\ \A m \in Messages : m \notin Commands
  BY DEF ChatInv, Chat!TypeOK, Chat!SupportAssumption
\* The messages before one that is due are done, and so is one whose successor
\* is at work: neither is the one that disarms.
<1>4. ASSUME NEW m \in due, u \in Messages, Working(u), u # m
      PROVE  sRequests[m] > 0
  <2>1. Chat!Precedes(u, m) \/ Chat!Precedes(m, u)
    BY <1>1, <1>3, <1>4, Ordering DEF Promise
  <2>2. ~Chat!Precedes(u, m)
    BY <1>1, <1>3, <1>4 DEF Promise, Chat!Before
  <2>3. sPc[m] = "done"
    BY <1>3, <1>4, <2>1, <2>2 DEF Turns, Chat!Before, Seen, Working
  <2> QED BY <2>3 DEF Promise
\* A step that neither arms, disarms nor replies.
<1>5. ASSUME armed' = armed, promised' = promised,
             \A m \in Messages : /\ sRequests'[m] >= sRequests[m]
                                 /\ sRequests[m] \in Nat /\ sRequests'[m] \in Nat,
             u \in Commands /\ sPc'[u] = "reply" => armed,
             u \in Messages => /\ sPc'[u] \in {"unknown", "done"} => u \notin due \/ sRequests[u] > 0
                               /\ sPc'[u] # "done" => ~promised,
             \A m \in Messages : "unknown" \in sTold'[m] =>
                 "unknown" \in sTold[m] \/ (m = u /\ sPc[m] = "unknown")
      PROVE  Promise'
  <2>1. \A c \in Commands : sPc'[c] = "reply" => armed'
    BY <1>1, <1>5 DEF Promise
  <2>2. promised' => armed' /\ \A m \in Messages : sPc'[m] \in {"unsent", "done"}
    BY <1>1, <1>5 DEF Promise
  <2>3. ASSUME NEW m \in due
        PROVE  /\ sPc'[m] # "unsent"
               /\ \A n \in Chat!Before(m) \cap Messages : sPc'[n] = "done"
               /\ sRequests'[m] = 0 => armed'
               /\ sPc'[m] \in {"unknown", "done"} \/ "unknown" \in sTold'[m] => sRequests'[m] > 0
    <3>1. m \in Messages /\ sPc[m] # "unsent"
      BY <1>3 DEF Promise
    <3>2. \A n \in Chat!Before(m) \cap Messages : sPc'[n] = "done"
      BY <1>1 DEF Promise
    <3>3. sRequests'[m] = 0 => armed'
      BY <1>5, <3>1 DEF Promise
    <3>4. sPc'[m] \in {"unknown", "done"} \/ "unknown" \in sTold'[m] => sRequests[m] > 0
      BY <1>1, <1>5, <3>1 DEF Promise
    <3> QED BY <1>1, <1>5, <3>1, <3>2, <3>3, <3>4
  <2> QED BY <1>1, <1>2, <1>3, <2>1, <2>2, <2>3 DEF Promise
<1>6. sRequests \in [Messages -> Nat]
  BY DEF ChatInv, Chat!TypeOK
<1>7. CASE Chat!Throws(u)
  BY <1>1, <1>3, <1>5, <1>6, <1>7 DEF Chat!Throws, Chat!Goto, Promise
<1>8. CASE Chat!Deliver(u)
  BY <1>1, <1>3, <1>5, <1>6, <1>8 DEF Chat!Deliver, Chat!Goto, Promise
<1>9. CASE Chat!Read(u)
  BY <1>1, <1>3, <1>5, <1>6, <1>9 DEF Chat!Read, Chat!Goto, Promise, ChatInv, Kinds
<1>10. CASE Chat!Insert(u)
  BY <1>1, <1>3, <1>5, <1>6, <1>10 DEF Chat!Insert, Chat!Goto, Promise, ChatInv, Kinds
<1>11. CASE Chat!ReplyStored(u)
  BY <1>1, <1>3, <1>5, <1>6, <1>11 DEF Chat!ReplyStored, Chat!Goto, Promise, ChatInv, Kept,
                                    Chat!TypeOK
<1>12. CASE Chat!ReplyUnknown(u)
  BY <1>1, <1>3, <1>5, <1>6, <1>12 DEF Chat!ReplyUnknown, Chat!Goto, Promise, ChatInv,
                                    Chat!TypeOK, Kinds
<1>13. CASE Chat!Arm(u)
  BY <1>1, <1>2, <1>3, <1>13 DEF Chat!Arm, Promise, ChatInv, Kinds
<1>14. CASE Chat!ReplyArmed(u)
  <2>1. /\ UNCHANGED <<armed, sRequests>> /\ sPc[u] = "reply" /\ sPc'[u] = "done" /\ u \in Commands
        /\ promised' = (promised \/ Chat!After(u) \cap Messages = {})
        /\ \A m \in Messages : sTold'[m] = sTold[m]
    BY <1>1, <1>3, <1>14 DEF Chat!ReplyArmed, Chat!Goto, ChatInv, Chat!TypeOK
  <2>2. ASSUME Chat!After(u) \cap Messages = {}, NEW m \in Messages, sPc[m] # "unsent"
        PROVE  sPc[m] = "done"
    <3>1. m # u /\ ~Chat!Precedes(u, m)
      BY <1>3, <2>1, <2>2 DEF Chat!After
    <3>2. Chat!Precedes(m, u)
      BY <1>1, <2>2, <3>1, Ordering
    <3> QED BY <2>1, <3>2 DEF Turns, Chat!Before, Seen
  <2>3. armed /\ u \notin Messages
    BY <1>3, <2>1 DEF Promise
  <2> QED BY <1>1, <1>2, <1>3, <2>1, <2>2, <2>3 DEF Promise
<1>15. CASE Chat!Disarm(u)
  <2>1. /\ UNCHANGED <<sRequests, sTold, promised>> /\ ~armed' /\ u \in Messages
        /\ sPc[u] = "del" /\ sPc'[u] = "reply" /\ Working(u) /\ sRequests[u] > 0
    BY <1>15 DEF Chat!Disarm, Chat!Goto, ChatInv, Chat!TypeOK, Kinds, Kept, Working
  <2>2. ~promised
    BY <2>1 DEF Promise
  <2>3. ASSUME NEW c \in Commands, sPc'[c] = "reply" PROVE FALSE
    <3>1. c # u /\ sPc[c] = "reply"
      BY <1>1, <1>3, <2>1, <2>3
    <3> QED BY <2>1, <3>1, AtWorkAlone DEF Working
  <2>4. \A m \in due : sRequests[m] > 0
    BY <1>4, <2>1
  <2> QED BY <1>1, <1>2, <1>3, <2>1, <2>2, <2>3, <2>4 DEF Promise
<1> QED BY <1>7, <1>8, <1>9, <1>10, <1>11, <1>12, <1>13, <1>14, <1>15
        DEF Chat!HandleInTurn, Chat!Work

LEMMA TurnKeeps ==
  ASSUME ChatInv, Turns, Promise, Chat!SupportAssumption, Chat!InTurn \/ UNCHANGED support
  PROVE  Turns' /\ Promise'
<1>1. CASE UNCHANGED support
  BY <1>1 DEF support, Turns, Promise, Seen, Chat!Before, Chat!Precedes
<1>2. CASE Chat!InTurn
  BY <1>2, TurnsKeep, PromiseSent, PromiseWorked DEF Chat!InTurn
<1> QED BY <1>1, <1>2
-------------------------------------------------------------------------------
(* Notifications: taps are handled one at a time. *)

OneTap == \A s, t \in Switch!Busy : s = t

\* How far a tap has come tells what it has read, stored and said.
TapKnows(t) ==
    /\ nPc[t] = "set" => enabled[t] = Switch!Flipped(setting)
    /\ nPc[t] \in {"answer", "edit"} => setting = enabled[t]
    /\ nPc[t] = "edit" => nTold = enabled[t]

\* The message with the button is sent before the first tap.
Drawn ==
    /\ button = "none" => nTold = "none" /\ (drawing # "none" => drawing = Switch!Shown(setting))
    /\ button # "none" => drawing # "none"

SwitchInv ==
    /\ Switch!TypeOK /\ OneTap /\ Drawn
    /\ \A t \in Taps : TapKnows(t)
    /\ ButtonShowsSetting

LEMMA OneIsCounted ==
  ASSUME NEW S, \A s, t \in S : s = t PROVE Switch!Cardinality(S) <= 1
<1>1. CASE S = {}
  BY <1>1, FS_EmptySet, SameCount
<1>2. CASE S # {}
  <2>1. PICK t : t \in S
    BY <1>2
  <2>2. S = {t}
    BY <2>1
  <2>3. Cardinality({t}) = 1
    BY FS_Singleton
  <2> QED BY <2>2, <2>3, SameCount
<1> QED BY <1>1, <1>2

LEMMA SwitchInit == ASSUME Switch!Init, Switch!NotificationsAssumption PROVE SwitchInv
<1> USE DEF Switch!Init, Switch!NotificationsAssumption
<1>1. Switch!Busy = {}
  BY DEF Switch!Busy
<1>2. OneTap /\ Drawn /\ ButtonShowsSetting
  BY <1>1 DEF OneTap, Drawn, ButtonShowsSetting, Switch!ButtonShowsSetting
<1>3. Switch!TypeOK
  <2>1. 0 \in 0..TapFailures
    OBVIOUS
  <2> QED BY <1>2, <2>1, OneIsCounted DEF Switch!TypeOK, OneTap
<1>4. \A t \in Taps : TapKnows(t)
  BY DEF TapKnows
<1> QED BY <1>2, <1>3, <1>4 DEF SwitchInv

LEMMA SettingsKeep ==
  ASSUME SwitchInv, Switch!SettingsRead \/ Switch!SettingsReply PROVE SwitchInv'
<1>1. /\ UNCHANGED <<setting, nPc, enabled, nTold, nFailures>>
      /\ drawing' \in {"none", "on", "off"} /\ button' \in {"none", "on", "off"}
      /\ button = "none" /\ Drawn'
      /\ button' # "none" => button' = Switch!Shown(setting)
  BY DEF SwitchInv, Drawn, Switch!TypeOK, Switch!SettingsRead, Switch!SettingsReply, Switch!Shown
<1>2. Switch!Busy' = Switch!Busy /\ OneTap'
  BY <1>1 DEF Switch!Busy, OneTap, SwitchInv
<1>3. Switch!TypeOK'
  BY <1>1, <1>2 DEF Switch!TypeOK, SwitchInv
<1>4. ButtonShowsSetting'
  BY <1>1 DEF ButtonShowsSetting, Switch!ButtonShowsSetting, Switch!Shown, SwitchInv, Drawn
<1>5. \A t \in Taps : TapKnows(t)'
  BY <1>1 DEF TapKnows, SwitchInv
<1> QED BY <1>1, <1>2, <1>3, <1>4, <1>5 DEF SwitchInv

LEMMA TapKeeps ==
  ASSUME SwitchInv, Switch!NotificationsAssumption, NEW t \in Taps,
         \/ Switch!Send(t)
         \/ Switch!Handle(t)
         \/ Switch!Throws(t)
  PROVE  SwitchInv'
<1>1. /\ nPc' \in [Taps -> {"unsent", "posted", "set", "answer", "edit", "done"}]
      /\ \A s \in Taps \ {t} : nPc'[s] = nPc[s] /\ enabled'[s] = enabled[s]
      /\ enabled' \in [Taps -> {"none", "on", "off"}]
      /\ setting' \in {"none", "on", "off"} /\ nTold' \in {"none", "on", "off"}
      /\ button' \in {"none", "on", "off"} /\ drawing' = drawing
      /\ button # "none" /\ button' # "none"
      /\ nPc'[t] \notin {"unsent", "posted"} => enabled'[t] # "none"
      /\ nFailures' \in 0..TapFailures
  <2> USE DEF SwitchInv, Switch!TypeOK, Switch!Goto, Switch!Busy
  <2>1. CASE Switch!Send(t)
    BY <2>1 DEF Switch!Send
  <2>2. CASE Switch!Read(t)
    BY <2>2 DEF Switch!Read, Switch!Flipped
  <2>3. CASE Switch!Store(t)
    BY <2>3 DEF Switch!Store
  <2>4. CASE Switch!AnswerTap(t)
    BY <2>4 DEF Switch!AnswerTap
  <2>5. CASE Switch!Redraw(t)
    BY <2>5 DEF Switch!Redraw
  <2>6. CASE Switch!Throws(t)
    <3>1. nPc[t] \notin {"unsent", "posted"} /\ nFailures' \in 0..TapFailures
      BY <2>6 DEF Switch!Throws, Switch!NotificationsAssumption
    <3>2. button # "none"
      BY <3>1
    <3> QED BY <2>6, <3>1, <3>2 DEF Switch!Throws
  <2> QED BY <2>1, <2>2, <2>3, <2>4, <2>5, <2>6 DEF Switch!Handle
<1>2. /\ nPc'[t] \in {"set", "answer", "edit"} => Switch!Busy \subseteq {t}
      /\ \A s \in Taps \ {t} : nPc[s] \in {"set", "answer", "edit"} =>
            UNCHANGED <<setting, nTold>>
  BY DEF SwitchInv, OneTap, Switch!TypeOK, Switch!Goto, Switch!Busy, Switch!Send, Switch!Handle,
         Switch!Read, Switch!Store, Switch!AnswerTap, Switch!Redraw, Switch!Throws
<1>3. OneTap'
  BY <1>1, <1>2 DEF SwitchInv, OneTap, Switch!Busy
<1>4. Switch!TypeOK'
  <2>1. Switch!Cardinality(Switch!Busy)' <= 1
    BY <1>3, OneIsCounted DEF OneTap
  <2> QED BY <1>1, <2>1 DEF Switch!TypeOK, SwitchInv
<1>5. ASSUME NEW s \in Taps PROVE TapKnows(s)'
  <2>1. CASE s # t
    BY <1>1, <1>2, <2>1 DEF TapKnows, SwitchInv
  <2>2. CASE s = t
    BY <1>1, <2>2 DEF TapKnows, SwitchInv, Switch!TypeOK, Switch!Goto, Switch!Send, Switch!Handle,
         Switch!Read, Switch!Store, Switch!AnswerTap, Switch!Redraw, Switch!Throws
  <2> QED BY <2>1, <2>2
<1>6. ButtonShowsSetting'
  <2>1. CASE Switch!Redraw(t)
    BY <2>1 DEF Switch!Redraw, SwitchInv, TapKnows, ButtonShowsSetting, Switch!ButtonShowsSetting,
         Switch!Shown, Switch!TypeOK
  <2>2. CASE ~Switch!Redraw(t)
    <3>1. nPc'[t] \notin {"unsent", "done"}
      BY <2>2 DEF Switch!Send, Switch!Handle, Switch!Read, Switch!Store, Switch!AnswerTap,
           Switch!Throws, Switch!Goto, SwitchInv, Switch!TypeOK
    <3> QED BY <3>1 DEF ButtonShowsSetting, Switch!ButtonShowsSetting, Switch!AtRest
  <2> QED BY <2>1, <2>2
<1>7. Drawn'
  BY <1>1 DEF Drawn, SwitchInv
<1> QED BY <1>3, <1>4, <1>5, <1>6, <1>7 DEF SwitchInv

LEMMA SwitchKeeps == 
  ASSUME SwitchInv, Switch!NotificationsAssumption, Switch!Next \/ UNCHANGED switch
  PROVE  SwitchInv'
<1>1. CASE UNCHANGED switch
  <2> USE <1>1 DEF switch, SwitchInv
  <2>1. Switch!Busy' = Switch!Busy BY DEF Switch!Busy
  <2>2. OneTap' /\ Drawn' BY <2>1 DEF OneTap, Drawn
  <2>3. Switch!TypeOK' BY <2>1 DEF Switch!TypeOK
  <2>4. ButtonShowsSetting' BY DEF ButtonShowsSetting, Switch!ButtonShowsSetting, Switch!AtRest
  <2>5. \A t \in Taps : TapKnows(t)' BY DEF TapKnows
  <2> QED BY <2>2, <2>3, <2>4, <2>5
<1>2. CASE Switch!Next
  BY <1>2, SettingsKeep, TapKeeps DEF Switch!Next, Switch!Undisturbed
<1> QED BY <1>1, <1>2

\* When no call throws, each tap that has stored its setting has flipped it once.
Flips == {t \in Taps : nPc[t] \in {"answer", "edit", "done"}}
Even(S) == Cardinality(S) % 2 = 0
Counted ==
    button # "none" =>
        Switch!Shown(setting) = IF Even(Flips) THEN drawing ELSE Switch!Flipped(drawing)

LEMMA OneMore ==
  ASSUME NEW S, IsFiniteSet(S), NEW x, x \notin S
  PROVE  Even(S \cup {x}) <=> ~Even(S)
<1>1. Cardinality(S) \in Nat
  BY FS_CardinalityType
<1>2. Cardinality(S \cup {x}) = Cardinality(S) + 1
  BY FS_AddElement
<1>3. \A n \in Nat : (n + 1) % 2 = 0 <=> n % 2 # 0
  OBVIOUS
<1> QED BY <1>1, <1>2, <1>3 DEF Even

LEMMA CalmKeeps ==
  ASSUME SwitchInv, Counted, Switch!NotificationsAssumption,
         Switch!Undisturbed \/ UNCHANGED switch
  PROVE  Counted'
<1>1. IsFiniteSet(Flips)
  <2>1. IsFiniteSet(Taps)
    BY SameFinite DEF Switch!NotificationsAssumption
  <2> QED BY <2>1, FS_Subset DEF Flips
<1>2. CASE UNCHANGED switch
  BY <1>2 DEF switch, Counted, Flips
<1>3. CASE Switch!SettingsRead
  BY <1>3 DEF Switch!SettingsRead, Counted
<1>4. CASE Switch!SettingsReply
  <2>1. Flips = {} /\ Flips' = Flips
    BY <1>4 DEF Switch!SettingsReply, Flips, SwitchInv, Switch!TypeOK
  <2>2. Even({})
    BY FS_EmptySet DEF Even
  <2> QED BY <1>4, <2>1, <2>2 DEF Switch!SettingsReply, Counted, SwitchInv, Drawn
<1>5. ASSUME NEW t \in Taps, Switch!Store(t) PROVE Counted'
  <2>1. t \notin Flips /\ Flips' = Flips \cup {t}
    BY <1>5 DEF Switch!Store, Switch!Goto, Flips, SwitchInv, Switch!TypeOK
  <2>2. Even(Flips') <=> ~Even(Flips)
    BY <1>1, <2>1, OneMore
  <2>3. setting' = Switch!Flipped(setting) /\ UNCHANGED <<button, drawing>>
    BY <1>5 DEF Switch!Store, SwitchInv, TapKnows
  <2>4. /\ drawing \in {"none", "on", "off"} /\ setting \in {"none", "on", "off"}
        /\ button # "none" => drawing # "none"
    BY DEF SwitchInv, Drawn, Switch!TypeOK
  <2> QED BY <2>2, <2>3, <2>4 DEF Counted, Switch!Shown, Switch!Flipped
<1>6. ASSUME NEW t \in Taps,
             Switch!Send(t) \/ Switch!Read(t) \/ Switch!AnswerTap(t) \/ Switch!Redraw(t)
      PROVE  Counted'
  <2>1. Flips' = Flips
    BY <1>6 DEF Switch!Send, Switch!Read, Switch!AnswerTap, Switch!Redraw, Switch!Goto, Flips,
                SwitchInv, Switch!TypeOK
  <2>2. UNCHANGED <<setting, drawing>> /\ button # "none"
    BY <1>6 DEF Switch!Send, Switch!Read, Switch!AnswerTap, Switch!Redraw, SwitchInv,
                Switch!TypeOK
  <2> QED BY <2>1, <2>2 DEF Counted
<1> QED BY <1>2, <1>3, <1>4, <1>5, <1>6 DEF Switch!Undisturbed, Switch!Handle

LEMMA CalmCounts == ASSUME SwitchInv, Counted PROVE Switch!EveryTapCounts
<1> SUFFICES ASSUME Switch!AtRest, button # "none"
             PROVE  Switch!Shown(setting) = IF Switch!Cardinality(Switch!Done) % 2 = 0
                                            THEN drawing ELSE Switch!Flipped(drawing)
  BY DEF Switch!EveryTapCounts
<1>1. Switch!Done = Flips
  BY DEF Switch!AtRest, Switch!Done, Flips
<1> QED BY <1>1, SameCount DEF Counted, Even
-------------------------------------------------------------------------------
(* Entry: where the URL stands, whatever has navigated. *)

NoParam == Opened!NoParam
StartParam == Opened!StartParam
Inert(p) == Opened!Parse(p) \notin {"product", "category"}
Target(p) == CASE Opened!Parse(p) = "product"  -> "product"
               [] Opened!Parse(p) = "category" -> "search"
               [] OTHER                        -> "home"

\* Where the start parameter is, by the way the app was opened.
Ways ==
    /\ initParam = IF opened.by = "link" THEN opened.param ELSE NoParam
    /\ opened.by = "address" => opened.param = NoParam
    /\ url.startapp \in {opened.param, NoParam}
    /\ opened.by \in {"link", "address"} => url.startapp = NoParam

\* Effects wait for the page they belong to; once they have run no release
\* prefix is left, and no product or category in the query.
Painted ==
    /\ dirty => loaded /\ page = url
    /\ loaded /\ ~dirty => ~url.release /\ (Inert(initParam) => Inert(StartParam))

\* The page of the start parameter is reached, or will be.
Deep ==
    clicks = 0 /\ Opened!Survives =>
        \/ url.route = Target(opened.param) /\ ~url.release /\ loaded
        \/ /\ url.route = "home"
           /\ opened.by = "link" \/ (url.startapp = opened.param /\ ~url.release)
           /\ loaded /\ ~dirty => page.release

Direct ==
    clicks = 0 /\ opened.by = "address" /\ ~opened.at.release =>
        url.route = opened.at.route /\ (url.release => url.route = "home")

Followed ==
    clicks > 0 /\ Inert(initParam) =>
        /\ url.route = wish /\ (url.release => wish = "home")
        /\ Inert(StartParam)

EntryInv == Opened!TypeOK /\ Ways /\ Painted /\ Deep /\ Direct /\ Followed

\* The expressions of the client match what the server takes for a product or a
\* category, at every length.
LEMMA SameRules ==
  ASSUME NEW p \in Opened!Params, NEW from
  PROVE  /\ Opened!Parse(p) = "product"  =>
                Opened!DeepLink(p, from) = Opened!Url(FALSE, "product", NoParam)
         /\ Opened!Parse(p) = "category" =>
                Opened!DeepLink(p, from) = Opened!Url(FALSE, "search", NoParam)
         /\ Inert(p) => Opened!DeepLink(p, from) = from
<1> DEFINE length == p.rest + (CASE p.prefix = "product_"  -> 8
                                 [] p.prefix = "category_" -> 9
                                 [] p.prefix = "ref_"      -> 4
                                 [] OTHER                  -> 0)
<1>1. /\ p.prefix \in {"product_", "category_", "ref_", ""} /\ p.clean \in BOOLEAN
      /\ p.rest \in {0, 1, 55, 56, 57}
  BY DEF Opened!Params
<1>2. CASE p.prefix = "product_"
  <2>1. length = p.rest + 8
    BY <1>2
  <2> HIDE DEF length
  <2>2. /\ p.rest # 0 => (length \in 1..64 <=> p.rest \in 1..56)
        /\ p.rest \in 1..56 => p.rest # 0
    <3>1. \A n \in {0, 1, 55, 56, 57} : /\ n # 0 => (n + 8 \in 1..64 <=> n \in 1..56)
                                        /\ n \in 1..56 => n # 0
      OBVIOUS
    <3> QED BY <1>1, <2>1, <3>1
  <2>3. Opened!WellFormed(p) <=> p.clean /\ length \in 1..64
    BY <1>1 DEF Opened!WellFormed, length
  <2>4. /\ p.clean /\ p.rest \in 1..56 => Opened!Parse(p) = "product"
        /\ ~(p.clean /\ p.rest \in 1..56) => Opened!Parse(p) = "catalog"
    BY <1>1, <1>2, <2>2, <2>3 DEF Opened!Parse
  <2> QED BY <1>2, <2>4 DEF Opened!DeepLink, Inert, NoParam
<1>3. CASE p.prefix = "category_"
  <2>1. length = p.rest + 9
    BY <1>3
  <2> HIDE DEF length
  <2>2. /\ p.rest # 0 => (length \in 1..64 <=> p.rest \in 1..55)
        /\ p.rest \in 1..55 => p.rest # 0
    <3>1. \A n \in {0, 1, 55, 56, 57} : /\ n # 0 => (n + 9 \in 1..64 <=> n \in 1..55)
                                        /\ n \in 1..55 => n # 0
      OBVIOUS
    <3> QED BY <1>1, <2>1, <3>1
  <2>3. Opened!WellFormed(p) <=> p.clean /\ length \in 1..64
    BY <1>1 DEF Opened!WellFormed, length
  <2>4. /\ p.clean /\ p.rest \in 1..55 => Opened!Parse(p) = "category"
        /\ ~(p.clean /\ p.rest \in 1..55) => Opened!Parse(p) = "catalog"
    BY <1>1, <1>3, <2>2, <2>3 DEF Opened!Parse
  <2> QED BY <1>3, <2>4 DEF Opened!DeepLink, Inert, NoParam
<1>4. CASE p.prefix \in {"ref_", ""}
  BY <1>4 DEF Opened!DeepLink, Opened!Parse, Inert
<1> QED BY <1>1, <1>2, <1>3, <1>4

LEMMA NothingToOpen == Inert(NoParam) /\ NoParam \in Opened!Params
<1>1. NoParam.rest = 0 /\ NoParam \in Opened!Params
  BY DEF NoParam, Opened!NoParam, Opened!Params
<1> QED BY <1>1 DEF Inert, Opened!Parse

LEMMA Urls ==
  ASSUME NEW release \in BOOLEAN, NEW route \in Opened!Routes, NEW param \in Opened!Params
  PROVE  /\ Opened!Url(release, route, param) \in Opened!Urls
         /\ Opened!Url(release, route, param).release = release
         /\ Opened!Url(release, route, param).route = route
         /\ Opened!Url(release, route, param).startapp = param
BY DEF Opened!Url, Opened!Urls

LEMMA EntryInit == ASSUME Opened!Init, Opened!EntryAssumption PROVE EntryInv
<1>1. PICK param \in Opened!Params :
        \/ /\ opened = [by |-> "link", at |-> Opened!WebAppUrl(NoParam), param |-> param]
           /\ initParam = param
        \/ /\ opened = [by |-> "button", at |-> Opened!WebAppUrl(param), param |-> param]
           /\ initParam = NoParam
        \/ /\ opened = [by |-> "referral", at |-> Opened!Url(FALSE, "home", param), param |-> param]
           /\ initParam = NoParam
        \/ /\ param = NoParam
           /\ \E route \in Opened!Routes, release \in {FALSE, base = "path"} :
                 opened = [by |-> "address", at |-> Opened!Url(release, route, param),
                           param |-> param]
           /\ initParam = NoParam
  BY DEF Opened!Init, NoParam
<1>2. /\ url = opened.at /\ loaded = FALSE /\ page = Opened!Root /\ dirty = FALSE /\ clicks = 0
      /\ wish = "home" /\ base \in Bases /\ 0 \in 0..Clicks
  BY DEF Opened!Init, Opened!EntryAssumption
<1>3. "home" \in Opened!Routes /\ (base = "path") \in BOOLEAN
  BY DEF Opened!Routes
<1>4. Opened!Root \in Opened!Urls
  BY <1>3, NothingToOpen, Urls DEF Opened!Root, NoParam
<1>5. CASE opened = [by |-> "link", at |-> Opened!WebAppUrl(NoParam), param |-> param]
           /\ initParam = param
  <2>1. /\ opened.by = "link" /\ opened.param = param /\ url \in Opened!Urls
        /\ url.route = "home" /\ url.startapp = NoParam
    BY <1>2, <1>3, <1>5, NothingToOpen, Urls DEF Opened!WebAppUrl
  <2>2. Opened!TypeOK
    BY <1>2, <1>3, <1>4, <1>5, <2>1 DEF Opened!TypeOK
  <2> QED BY <1>2, <1>5, <2>1, <2>2 DEF EntryInv, Ways, Painted, Deep, Direct, Followed
<1>6. CASE opened = [by |-> "button", at |-> Opened!WebAppUrl(param), param |-> param]
           /\ initParam = NoParam
  <2>1. /\ opened.by = "button" /\ opened.param = param /\ url \in Opened!Urls
        /\ url.route = "home" /\ url.startapp = param /\ (url.release <=> base = "path")
    BY <1>2, <1>3, <1>6 DEF Opened!WebAppUrl, Opened!Url, Opened!Urls
  <2>2. Opened!TypeOK
    BY <1>2, <1>3, <1>4, <1>6, <2>1, NothingToOpen DEF Opened!TypeOK
  <2> QED BY <1>2, <1>6, <2>1, <2>2
          DEF EntryInv, Ways, Painted, Deep, Direct, Followed, Opened!Survives
<1>7. CASE opened = [by |-> "referral", at |-> Opened!Url(FALSE, "home", param), param |-> param]
           /\ initParam = NoParam
  <2>1. /\ opened.by = "referral" /\ opened.param = param /\ url \in Opened!Urls
        /\ url.route = "home" /\ url.startapp = param /\ ~url.release
    BY <1>2, <1>3, <1>7 DEF Opened!Url, Opened!Urls
  <2>2. Opened!TypeOK
    BY <1>2, <1>3, <1>4, <1>7, <2>1, NothingToOpen DEF Opened!TypeOK
  <2>3. Ways /\ Painted /\ Direct /\ Followed
    <3>1. initParam = NoParam /\ opened.by # "address" /\ opened.by # "link"
      BY <1>7, <2>1
    <3> QED BY <1>2, <2>1, <3>1 DEF Ways, Painted, Direct, Followed
  <2>4. Deep
    BY <1>2, <2>1 DEF Deep
  <2> QED BY <2>2, <2>3, <2>4 DEF EntryInv
<1>8. ASSUME NEW route \in Opened!Routes, NEW release \in {FALSE, base = "path"},
             opened = [by |-> "address", at |-> Opened!Url(release, route, param),
                       param |-> param],
             param = NoParam, initParam = NoParam
      PROVE  EntryInv
  <2>1. /\ opened.by = "address" /\ opened.param = NoParam /\ url \in Opened!Urls
        /\ url.route = route /\ url.startapp = NoParam /\ url.release = release
        /\ opened.at = url
    BY <1>2, <1>3, <1>8, NothingToOpen DEF Opened!Url, Opened!Urls
  <2>2. Opened!TypeOK
    BY <1>2, <1>3, <1>4, <1>8, <2>1, NothingToOpen DEF Opened!TypeOK
  <2> QED BY <1>2, <1>8, <2>1, <2>2
          DEF EntryInv, Ways, Painted, Deep, Direct, Followed, Opened!Survives
<1> QED BY <1>1, <1>5, <1>6, <1>7, <1>8

\* The server's answer to '/' leads to WEBAPP_URL without the parameter.
LEMMA EntryRedirects == ASSUME EntryInv, Opened!Redirect PROVE EntryInv'
<1>1. /\ ~loaded /\ ~url.release /\ url.route = "home" /\ base \in {"path", "query"}
      /\ url' = Opened!WebAppUrl(NoParam)
      /\ UNCHANGED <<base, opened, initParam, loaded, page, dirty, clicks, wish>>
  BY DEF Opened!Redirect, Opened!Redirects, Opened!AtRoot, NoParam
<1>2. url' \in Opened!Urls /\ url'.route = "home" /\ url'.startapp = NoParam
  BY <1>1, NothingToOpen DEF Opened!WebAppUrl, Opened!Url, Opened!Urls, Opened!Routes
<1>3. Opened!TypeOK' /\ Ways'
  BY <1>1, <1>2 DEF EntryInv, Opened!TypeOK, Ways, NoParam, Opened!NoParam
<1>4. Painted'
  BY <1>1 DEF EntryInv, Painted
<1>5. Deep' /\ Direct'
  BY <1>1, <1>2 DEF EntryInv, Deep, Direct, Opened!Survives
<1>6. Followed'
  <2>1. StartParam' = IF initParam # NoParam THEN initParam ELSE NoParam
    BY <1>1, <1>2 DEF StartParam, Opened!StartParam, NoParam, Opened!NoParam
  <2>2. Inert(initParam) => Inert(StartParam')
    BY <2>1
  <2> QED BY <1>1, <1>2, <2>2 DEF EntryInv, Followed, Inert
<1> QED BY <1>3, <1>4, <1>5, <1>6 DEF EntryInv

LEMMA EntryLoads == ASSUME EntryInv, Opened!Load PROVE EntryInv'
<1>1. /\ ~loaded /\ loaded' = TRUE /\ page' = url /\ dirty' = TRUE
      /\ UNCHANGED <<base, opened, initParam, url, clicks, wish, StartParam>>
  BY DEF Opened!Load, StartParam, Opened!StartParam
<1>2. Opened!TypeOK' /\ Ways' /\ Painted'
  BY <1>1 DEF EntryInv, Opened!TypeOK, Ways, Painted
<1>3. Deep' /\ Direct' /\ Followed'
  BY <1>1 DEF EntryInv, Deep, Direct, Followed, Opened!Survives
<1> QED BY <1>2, <1>3 DEF EntryInv

\* DeepLink navigates first and the catch-all route last.
LEMMA EntryEffects == ASSUME EntryInv, Opened!Effects PROVE EntryInv'
<1> DEFINE linked == Opened!DeepLink(StartParam, url)
<1>1. /\ loaded /\ dirty /\ page = url /\ dirty' = FALSE
      /\ url' = IF url.release THEN Opened!Root ELSE linked
      /\ UNCHANGED <<base, opened, initParam, loaded, page, clicks, wish>>
  BY DEF Opened!Effects, Opened!CatchAll, StartParam, EntryInv, Painted
<1>2. /\ url \in Opened!Urls /\ url.startapp \in Opened!Params /\ initParam \in Opened!Params
      /\ StartParam \in Opened!Params
      /\ StartParam = IF initParam # NoParam THEN initParam ELSE url.startapp
  BY DEF EntryInv, Opened!TypeOK, StartParam, Opened!StartParam, Opened!Urls, NoParam
<1>3. /\ Opened!Root \in Opened!Urls /\ ~Opened!Root.release /\ Opened!Root.route = "home"
      /\ Opened!Root.startapp = NoParam
  BY NothingToOpen DEF Opened!Root, Opened!Url, Opened!Urls, Opened!Routes, NoParam
<1>4. ASSUME NEW route \in {"product", "search"},
             linked = Opened!Url(FALSE, route, NoParam)
      PROVE  linked \in Opened!Urls /\ ~linked.release /\ linked.route = route
             /\ linked.startapp = NoParam
  BY <1>4, NothingToOpen DEF Opened!Url, Opened!Urls, Opened!Routes
<1>5. /\ Opened!Parse(StartParam) = "product"  => linked = Opened!Url(FALSE, "product", NoParam)
      /\ Opened!Parse(StartParam) = "category" => linked = Opened!Url(FALSE, "search", NoParam)
      /\ Inert(StartParam) => linked = url
  BY <1>2, SameRules
<1> HIDE DEF linked
\* Where this leads.
<1>6. /\ url' \in Opened!Urls /\ ~url'.release
      /\ url.release => url'.route = "home" /\ url'.startapp = NoParam
      /\ ~url.release /\ Inert(StartParam) => url' = url
      /\ ~url.release /\ ~Inert(StartParam) =>
            url'.route = Target(StartParam) /\ url'.startapp = NoParam
  <2>1. CASE url.release
    BY <1>1, <1>3, <2>1
  <2>2. CASE ~url.release /\ Inert(StartParam)
    BY <1>1, <1>2, <1>5, <2>2
  <2>3. CASE ~url.release /\ Opened!Parse(StartParam) = "product"
    <3>1. url' = linked /\ linked \in Opened!Urls /\ ~linked.release /\ linked.route = "product"
          /\ linked.startapp = NoParam
      BY <1>1, <1>4, <1>5, <2>3
    <3> QED BY <2>3, <3>1 DEF Inert, Target
  <2>4. CASE ~url.release /\ Opened!Parse(StartParam) = "category"
    <3>1. url' = linked /\ linked \in Opened!Urls /\ ~linked.release /\ linked.route = "search"
          /\ linked.startapp = NoParam
      BY <1>1, <1>4, <1>5, <2>4
    <3> QED BY <2>4, <3>1 DEF Inert, Target
  <2> QED BY <2>1, <2>2, <2>3, <2>4 DEF Inert
<1>7. StartParam' = IF initParam # NoParam THEN initParam ELSE url'.startapp
  BY <1>1 DEF StartParam, Opened!StartParam, NoParam, Opened!NoParam
<1>8. Inert(initParam) => Inert(StartParam')
  BY <1>2, <1>6, <1>7, NothingToOpen DEF Inert
<1>9. Opened!TypeOK' /\ Ways'
  <2>1. url'.startapp \in {url.startapp, NoParam}
    BY <1>6
  <2> QED BY <1>1, <1>6, <2>1 DEF EntryInv, Opened!TypeOK, Ways, NoParam, Opened!NoParam
<1>10. Painted'
  BY <1>1, <1>6, <1>8 DEF Painted, Inert
<1>11. Deep'
  <2> SUFFICES ASSUME clicks = 0, Opened!Survives
               PROVE  \/ url'.route = Target(opened.param) /\ ~url'.release /\ loaded'
                      \/ /\ url'.route = "home"
                         /\ opened.by = "link" \/ (url'.startapp = opened.param /\ ~url'.release)
                         /\ page'.release
    BY <1>1 DEF Deep, Opened!Survives, Target
  <2>1. CASE url.route = Target(opened.param) /\ ~url.release
    <3>1. CASE Inert(StartParam)
      BY <1>1, <1>6, <2>1, <3>1
    <3>2. CASE ~Inert(StartParam)
      <4>1. StartParam = opened.param
        BY <1>2, <3>2, NothingToOpen DEF EntryInv, Ways, Inert
      <4> QED BY <1>1, <1>6, <2>1, <3>2, <4>1
    <3> QED BY <3>1, <3>2
  <2>2. CASE /\ url.route = "home"
             /\ opened.by = "link" \/ (url.startapp = opened.param /\ ~url.release)
    <3>1. CASE url.release
      BY <1>1, <1>6, <2>2, <3>1
    <3>2. CASE ~url.release
      <4>1. StartParam = opened.param
        BY <1>2, <2>2 DEF EntryInv, Ways, Opened!Survives
      <4>2. Inert(StartParam) => Target(opened.param) = "home"
        BY <4>1 DEF Inert, Target
      <4> QED BY <1>1, <1>6, <2>2, <3>2, <4>1, <4>2
    <3> QED BY <3>1, <3>2
  <2> QED BY <1>1, <2>1, <2>2 DEF EntryInv, Deep
<1>12. Direct'
  <2> SUFFICES ASSUME clicks = 0, opened.by = "address", ~opened.at.release
               PROVE  url'.route = opened.at.route
    BY <1>1, <1>6 DEF Direct
  <2>1. StartParam = NoParam /\ Inert(StartParam)
    BY <1>2, NothingToOpen DEF EntryInv, Ways
  <2>2. url.route = opened.at.route /\ (url.release => url.route = "home")
    BY DEF EntryInv, Direct
  <2> QED BY <1>6, <2>1, <2>2
<1>13. Followed'
  <2> SUFFICES ASSUME clicks > 0, Inert(initParam)
               PROVE  url'.route = wish
    BY <1>1, <1>6, <1>8 DEF Followed, Inert
  <2>1. url.route = wish /\ (url.release => wish = "home") /\ Inert(StartParam)
    BY DEF EntryInv, Followed
  <2> QED BY <1>6, <2>1
<1> QED BY <1>9, <1>10, <1>11, <1>12, <1>13 DEF EntryInv

LEMMA EntryRenders == ASSUME EntryInv, Opened!Render PROVE EntryInv'
<1>1. /\ loaded /\ ~dirty /\ page' = url
      /\ UNCHANGED <<base, opened, initParam, loaded, url, clicks, wish, StartParam>>
      /\ dirty' = (Opened!PathOf(url) # Opened!PathOf(page))
  BY DEF Opened!Render, StartParam, Opened!StartParam
<1>2. dirty' \in BOOLEAN /\ (~dirty' => url.release = page.release)
  BY <1>1 DEF Opened!PathOf
<1> HIDE DEF Opened!PathOf
<1>3. Opened!TypeOK' /\ Ways' /\ Painted'
  BY <1>1, <1>2 DEF EntryInv, Opened!TypeOK, Ways, Painted
<1>4. Deep'
  <2>1. ~url.release
    BY <1>1 DEF EntryInv, Painted
  <2>2. clicks = 0 /\ Opened!Survives => url.route = Target(opened.param) \/ page.release
    BY <1>1 DEF EntryInv, Deep
  <2>3. clicks = 0 /\ Opened!Survives =>
          \/ url.route = Target(opened.param) /\ ~url.release /\ loaded
          \/ /\ url.route = "home"
             /\ opened.by = "link" \/ (url.startapp = opened.param /\ ~url.release)
             /\ page.release
    BY <1>1 DEF EntryInv, Deep
  <2> QED BY <1>1, <1>2, <2>1, <2>2, <2>3 DEF Deep, Opened!Survives, Target
<1>5. Direct' /\ Followed'
  BY <1>1 DEF EntryInv, Direct, Followed
<1> QED BY <1>3, <1>4, <1>5 DEF EntryInv

\* A link of the app, and a reload.
LEMMA EntryLeads ==
  ASSUME EntryInv, Opened!EntryAssumption, Opened!Click \/ Opened!Reload PROVE EntryInv'
<1>1. clicks' = clicks + 1 /\ clicks \in Nat /\ clicks' \in 0..Clicks /\ clicks' > 0
  <2>1. Clicks \in Nat /\ clicks \in 0..Clicks
    BY DEF EntryInv, Opened!TypeOK, Opened!EntryAssumption
  <2>2. clicks' = clicks + 1 /\ clicks < Clicks
    BY DEF Opened!Click, Opened!Reload
  <2> QED BY <2>1, <2>2
<1>2. /\ loaded /\ ~dirty /\ page = url /\ ~url.release /\ (Inert(initParam) => Inert(StartParam))
      /\ UNCHANGED <<base, opened, initParam, page, dirty>>
  BY DEF Opened!Click, Opened!Reload, Opened!Resting, EntryInv, Painted
<1>3. CASE Opened!Click
  <2>1. url' = Opened!Url(FALSE, wish', NoParam) /\ wish' \in Opened!Routes /\ loaded' = loaded
    BY <1>3 DEF Opened!Click, NoParam
  <2>2. url' \in Opened!Urls /\ ~url'.release /\ url'.route = wish' /\ url'.startapp = NoParam
    BY <2>1, NothingToOpen DEF Opened!Url, Opened!Urls
  <2>3. StartParam' = IF initParam # NoParam THEN initParam ELSE NoParam
    BY <1>2, <2>2 DEF StartParam, Opened!StartParam, NoParam, Opened!NoParam
  <2>4. Inert(initParam) => Inert(StartParam')
    BY <2>3
  <2>5. Opened!TypeOK' /\ Ways'
    BY <1>1, <1>2, <2>1, <2>2 DEF EntryInv, Opened!TypeOK, Ways, NoParam, Opened!NoParam
  <2>6. Painted' /\ Deep' /\ Direct' /\ Followed'
    BY <1>1, <1>2, <2>2, <2>4 DEF Painted, Deep, Direct, Followed, Inert
  <2> QED BY <2>5, <2>6 DEF EntryInv
<1>4. CASE Opened!Reload
  <2>1. loaded' = FALSE /\ wish' = url.route /\ url' = url /\ StartParam' = StartParam
    BY <1>2, <1>4 DEF Opened!Reload, StartParam, Opened!StartParam
  <2>2. url.route \in Opened!Routes
    BY DEF EntryInv, Opened!TypeOK, Opened!Urls
  <2>3. Opened!TypeOK' /\ Ways'
    BY <1>1, <1>2, <2>1, <2>2 DEF EntryInv, Opened!TypeOK, Ways
  <2>4. Painted' /\ Deep' /\ Direct' /\ Followed'
    BY <1>1, <1>2, <2>1 DEF Painted, Deep, Direct, Followed, Inert
  <2> QED BY <2>3, <2>4 DEF EntryInv
<1> QED BY <1>3, <1>4

LEMMA EntryKeeps ==
  ASSUME EntryInv, Opened!EntryAssumption, Opened!Next \/ UNCHANGED entry PROVE EntryInv'
<1>1. CASE UNCHANGED entry
  <2>1. UNCHANGED <<base, opened, initParam, loaded, url, page, dirty, clicks, wish, StartParam>>
    BY <1>1 DEF entry, StartParam, Opened!StartParam
  <2>2. Opened!TypeOK'
    BY <2>1 DEF EntryInv, Opened!TypeOK
  <2>3. Ways' /\ Painted' /\ Deep' /\ Direct' /\ Followed'
    BY <2>1 DEF EntryInv, Ways, Painted, Deep, Direct, Followed, Opened!Survives
  <2> QED BY <2>2, <2>3 DEF EntryInv
<1> QED BY <1>1, EntryRedirects, EntryLoads, EntryEffects, EntryRenders, EntryLeads
        DEF Opened!Next, Opened!Opening

LEMMA EntryHolds ==
  ASSUME EntryInv PROVE Opened!DeepLinkOpens /\ Opened!AddressOpens /\ Opened!LinksLead
<1>1. Opened!Resting => page = url /\ loaded /\ ~dirty /\ ~url.release
  BY DEF Opened!Resting, EntryInv, Painted
<1>2. Opened!DeepLinkOpens
  BY <1>1 DEF EntryInv, Deep, Opened!DeepLinkOpens, Target
<1>3. Opened!AddressOpens
  BY <1>1 DEF EntryInv, Direct, Opened!AddressOpens
<1>4. Opened!LinksLead
  BY <1>1 DEF EntryInv, Followed, Opened!LinksLead, Inert
<1> QED BY <1>2, <1>3, <1>4
-------------------------------------------------------------------------------
(* Login: the proofs of LoginProofs, for both pairs of clocks. *)

CloseP == INSTANCE LoginProofs WITH
    Tokens <- LoginTokens, Skew <- CloseSkew, Inclusive <- TRUE,
    now <- clock, refused <- denied

ApartP == INSTANCE LoginProofs WITH
    Tokens <- LoginTokens, Skew <- ApartSkew, Inclusive <- FALSE,
    now <- clock, refused <- denied

LEMMA SameClose ==
  /\ Close!LoginAssumption => CloseP!LoginAssumption
  /\ Close!Init => CloseP!Init
  /\ Close!Next => CloseP!Next
  /\ UNCHANGED access => UNCHANGED CloseP!vars
  /\ CloseP!TypeOK => Close!TypeOK
  /\ CloseP!AccessEnds => Close!AccessEnds
  /\ CloseP!RefusedOnlyWhenOld => Close!RefusedOnlyWhenOld
<1>1. Close!LoginAssumption => CloseP!LoginAssumption
  BY DEF Close!LoginAssumption, CloseP!LoginAssumption
<1>2. Close!Init => CloseP!Init
  BY DEF Close!Init, CloseP!Init
<1>3. Close!Next => CloseP!Next
  BY DEF Close!Next, Close!Tick, Close!Open, Close!Flaws, Close!Accepted, Close!LogIn, Close!Issue,
     Close!LoginFails, Close!Refuse, Close!Known, Close!Present, Close!Request, Close!Turned,
     Close!Logout, Close!keys,
     CloseP!Next, CloseP!Tick, CloseP!Open, CloseP!Flaws, CloseP!Accepted, CloseP!LogIn, CloseP!Issue,
     CloseP!LoginFails, CloseP!Refuse, CloseP!Known, CloseP!Present, CloseP!Request, CloseP!Turned,
     CloseP!Logout, CloseP!keys
<1>4. UNCHANGED access => UNCHANGED CloseP!vars
  BY DEF access, CloseP!vars, CloseP!keys
<1>5. CloseP!TypeOK => Close!TypeOK
  BY DEF CloseP!TypeOK, CloseP!Flaws, Close!TypeOK, Close!Flaws
<1>6. CloseP!AccessEnds => Close!AccessEnds
  BY DEF CloseP!AccessEnds, Close!AccessEnds
<1>7. CloseP!RefusedOnlyWhenOld => Close!RefusedOnlyWhenOld
  BY DEF CloseP!RefusedOnlyWhenOld, Close!RefusedOnlyWhenOld
<1> QED BY <1>1, <1>2, <1>3, <1>4, <1>5, <1>6, <1>7

LEMMA SameApart ==
  /\ Apart!LoginAssumption => ApartP!LoginAssumption
  /\ Close!Init => ApartP!Init
  /\ Apart!Next => ApartP!Next
  /\ UNCHANGED access => UNCHANGED ApartP!vars
  /\ ApartP!TypeOK => Close!TypeOK
  /\ ApartP!AccessEnds => Apart!AccessEnds
  /\ ApartP!RefusedOnlyWhenOld => Apart!RefusedOnlyWhenOld
<1>1. Apart!LoginAssumption => ApartP!LoginAssumption
  BY DEF Apart!LoginAssumption, ApartP!LoginAssumption
<1>2. Close!Init => ApartP!Init
  BY DEF Close!Init, ApartP!Init
<1>3. Apart!Next => ApartP!Next
  BY DEF Apart!Next, Apart!Tick, Apart!Open, Apart!Flaws, Apart!Accepted, Apart!LogIn, Apart!Issue,
     Apart!LoginFails, Apart!Refuse, Apart!Known, Apart!Present, Apart!Request, Apart!Turned,
     Apart!Logout, Apart!keys,
     ApartP!Next, ApartP!Tick, ApartP!Open, ApartP!Flaws, ApartP!Accepted, ApartP!LogIn, ApartP!Issue,
     ApartP!LoginFails, ApartP!Refuse, ApartP!Known, ApartP!Present, ApartP!Request, ApartP!Turned,
     ApartP!Logout, ApartP!keys
<1>4. UNCHANGED access => UNCHANGED ApartP!vars
  BY DEF access, ApartP!vars, ApartP!keys
<1>5. ApartP!TypeOK => Close!TypeOK
  BY DEF ApartP!TypeOK, ApartP!Flaws, Close!TypeOK, Close!Flaws
<1>6. ApartP!AccessEnds => Apart!AccessEnds
  BY DEF ApartP!AccessEnds, Apart!AccessEnds
<1>7. ApartP!RefusedOnlyWhenOld => Apart!RefusedOnlyWhenOld
  BY DEF ApartP!RefusedOnlyWhenOld, Apart!RefusedOnlyWhenOld
<1> QED BY <1>1, <1>2, <1>3, <1>4, <1>5, <1>6, <1>7
-------------------------------------------------------------------------------
(* Session: the requests that have asked for a login account for the tokens. *)

Renewed == {r \in ApiCalls : rPc[r] \notin {"idle", "sent", "refused"}}
Asking  == IF login = "sent" THEN 1 ELSE 0
Logins  == Cardinality(given \ {First}) + Asking

PcTypes == {"idle", "sent", "accepted", "refused", "waiting", "resent", "refused again", "ok",
            "failed"}

\* Tokens the client holds were given to it.
Held ==
    /\ token \in given \cup {NoToken} /\ loginTok \in given \cup {NoToken}
    /\ rTok \in [ApiCalls -> given \cup {NoToken}]

ClientTyped ==
    /\ rPc \in [ApiCalls -> PcTypes]
    /\ login \in {"none", "sent", "answered"}
    /\ login = "none" => \A r \in ApiCalls : rPc[r] # "waiting"
    /\ loggedOut \in BOOLEAN
    /\ given \subseteq Tokens /\ sessions \subseteq given

ClientInv ==
    /\ ClientTyped /\ Held /\ First \in given
    /\ login = "answered" => loginTok \in given
    /\ IsFiniteSet(given) /\ Logins <= Cardinality(Renewed)

\* While only the first token dies, the login gives one that lives, and every
\* request that is sent again carries it.
Lives ==
    /\ login = "answered" => loginTok \in sessions \ {First}
    /\ \A r \in ApiCalls :
        /\ rPc[r] = "resent" => rTok[r] \in sessions \ {First}
        /\ rPc[r] \notin {"failed", "refused again"}

LEMMA ClientTypes == ASSUME ClientInv PROVE Client!TypeOK
<1>1. \A t \in {token, loginTok} \cup {rTok[r] : r \in ApiCalls} : t \in given \cup {NoToken}
  BY DEF ClientInv, Held
<1>2. Client!Waiting # {} => login # "none"
  BY DEF Client!Waiting, ClientInv, ClientTyped
<1> QED BY <1>1, <1>2 DEF Client!TypeOK, ClientInv, ClientTyped, PcTypes

LEMMA ClientNumbers ==
  ASSUME IsFiniteSet(given), Client!SessionAssumption
  PROVE  /\ IsFiniteSet(ApiCalls) /\ IsFiniteSet(Renewed) /\ Cardinality(Renewed) \in Nat
         /\ IsFiniteSet(given \ {First}) /\ Cardinality(given \ {First}) \in Nat
<1>1. IsFiniteSet(ApiCalls)
  BY SameFinite DEF Client!SessionAssumption
<1>2. IsFiniteSet(Renewed)
  BY <1>1, FS_Subset DEF Renewed
<1>3. IsFiniteSet(given \ {First})
  BY FS_Subset
<1> QED BY <1>1, <1>2, <1>3, FS_CardinalityType

LEMMA ClientInit == ASSUME Client!Init, Client!SessionAssumption PROVE ClientInv /\ Lives
<1> USE DEF Client!Init, Client!SessionAssumption
<1>1. ClientTyped /\ Held /\ First \in given /\ login # "answered"
  BY DEF ClientTyped, Held, PcTypes
<1>2. Renewed = {} /\ given \ {First} = {} /\ Asking = 0
  BY DEF Renewed, Asking
<1>3. IsFiniteSet(given) /\ Cardinality({}) = 0
  BY FS_Singleton, FS_EmptySet
<1>4. Lives
  BY DEF Lives
<1> QED BY <1>1, <1>2, <1>3, <1>4 DEF ClientInv, Logins

\* More requests have renewed, and no login is asked for: the bound stays.
LEMMA BoundStays ==
  ASSUME ClientInv, Client!SessionAssumption, given' = given,
         login' = "sent" => login = "sent", Renewed \subseteq Renewed',
         IsFiniteSet(Renewed')
  PROVE  IsFiniteSet(given') /\ Logins' <= Cardinality(Renewed')
<1>1. IsFiniteSet(given) /\ Logins <= Cardinality(Renewed)
  BY DEF ClientInv
<1>2. Cardinality(Renewed) <= Cardinality(Renewed') /\ Cardinality(Renewed') \in Nat
  BY FS_Subset, FS_CardinalityType
<1>3. Cardinality(given \ {First}) \in Nat /\ Cardinality(Renewed) \in Nat
  BY <1>1, ClientNumbers
<1>4. Logins' <= Logins /\ Logins \in Nat /\ Logins' \in Nat
  BY <1>3 DEF Logins, Asking
<1> QED BY <1>1, <1>2, <1>3, <1>4

LEMMA RequestKeeps ==
  ASSUME ClientInv, Client!SessionAssumption, NEW r \in ApiCalls, Client!Send(r) \/ Client!Reply(r)
  PROVE  ClientInv'
<1>1. IsFiniteSet(ApiCalls) /\ IsFiniteSet(given)
  BY ClientNumbers DEF ClientInv
<1>2. IsFiniteSet(Renewed')
  BY <1>1, FS_Subset DEF Renewed
<1>3. /\ rPc \in [ApiCalls -> PcTypes] /\ login \in {"none", "sent", "answered"}
      /\ loggedOut \in BOOLEAN
  BY DEF ClientInv, ClientTyped
\* What a step on one request comes down to.
<1>4. ASSUME UNCHANGED given, NEW pc \in PcTypes, rPc' = [rPc EXCEPT ![r] = pc],
             rPc[r] \notin {"idle", "sent", "refused"} => pc \notin {"idle", "sent", "refused"},
             pc # "waiting", login' = login, loginTok' = loginTok, loggedOut' \in BOOLEAN,
             token' \in given \cup {NoToken}, rTok' \in [ApiCalls -> given \cup {NoToken}],
             sessions' \subseteq given
      PROVE  ClientInv'
  <2>1. rPc' \in [ApiCalls -> PcTypes] /\ \A s \in ApiCalls : s # r => rPc'[s] = rPc[s]
        /\ rPc'[r] = pc
    BY <1>3, <1>4
  <2>2. Renewed \subseteq Renewed'
    BY <1>4, <2>1 DEF Renewed
  <2>3. IsFiniteSet(given') /\ Logins' <= Cardinality(Renewed')
    BY <1>2, <1>4, <2>2, BoundStays
  <2>4. ClientTyped' /\ Held'
    BY <1>4, <2>1 DEF ClientInv, ClientTyped, Held
  <2> QED BY <1>4, <2>3, <2>4 DEF ClientInv
<1>5. token \in given \cup {NoToken} /\ rTok \in [ApiCalls -> given \cup {NoToken}]
      /\ sessions \subseteq given /\ NoToken \in given \cup {NoToken}
  BY DEF ClientInv, Held, ClientTyped
<1>6. CASE Client!Send(r)
  <2>1. rTok' \in [ApiCalls -> given \cup {NoToken}] /\ "sent" \in PcTypes
    BY <1>5, <1>6 DEF Client!Send, PcTypes
  <2> QED BY <1>3, <1>4, <1>5, <1>6, <2>1 DEF Client!Send, Client!Goto, Client!server
<1>7. CASE Client!Accept(r)
  <2>1. "accepted" \in PcTypes /\ sessions' \subseteq given
    BY <1>5, <1>7 DEF Client!Accept, PcTypes
  <2> QED BY <1>3, <1>4, <1>5, <1>7, <2>1 DEF Client!Accept, Client!Goto
<1>8. CASE Client!Refuse(r)
  <2>1. CASE rPc[r] = "sent"
    <3>1. "refused" \in PcTypes
      BY DEF PcTypes
    <3> QED BY <1>3, <1>4, <1>5, <1>8, <2>1, <3>1 DEF Client!Refuse, Client!Goto, Client!server
  <2>2. CASE rPc[r] = "resent"
    <3>1. "refused again" \in PcTypes
      BY DEF PcTypes
    <3> QED BY <1>3, <1>4, <1>5, <1>8, <2>2, <3>1 DEF Client!Refuse, Client!Goto, Client!server
  <2> QED BY <1>8, <2>1, <2>2 DEF Client!Refuse
<1>9. CASE Client!Answered(r) \/ Client!RefusedAgain(r)
  <2>1. /\ token' \in given \cup {NoToken} /\ loggedOut' \in BOOLEAN
        /\ UNCHANGED <<rTok, login, loginTok, sessions, given>>
    BY <1>3, <1>5, <1>9 DEF Client!Answered, Client!RefusedAgain, Client!Settle, Client!server
  <2>2. "ok" \in PcTypes /\ "failed" \in PcTypes
    BY DEF PcTypes
  <2>3. CASE Client!Answered(r)
    BY <1>3, <1>4, <1>5, <2>1, <2>2, <2>3 DEF Client!Answered, Client!Goto
  <2>4. CASE Client!RefusedAgain(r)
    BY <1>3, <1>4, <1>5, <2>1, <2>2, <2>4 DEF Client!RefusedAgain, Client!Goto
  <2> QED BY <1>9, <2>3, <2>4
<1>10. CASE Client!Renew(r)
  <2>1. /\ UNCHANGED <<rTok, loggedOut, loginTok, sessions, given>> /\ rPc[r] = "refused"
        /\ rPc' = [rPc EXCEPT ![r] = "waiting"] /\ token' = NoToken
        /\ login' = IF login = "none" THEN "sent" ELSE login
    BY <1>10 DEF Client!Renew, Client!Goto, Client!server
  <2>2. rPc' \in [ApiCalls -> PcTypes] /\ Renewed' = Renewed \cup {r} /\ r \notin Renewed
    BY <1>3, <2>1 DEF Renewed, PcTypes
  <2>3. ClientTyped' /\ Held'
    BY <1>3, <1>5, <2>1, <2>2 DEF ClientInv, ClientTyped, Held
  <2>4. Cardinality(Renewed') = Cardinality(Renewed) + 1
    BY <1>1, <2>2, ClientNumbers, FS_AddElement
  <2>5. Logins' <= Logins + 1 /\ Logins \in Nat /\ Logins' \in Nat
    BY <1>1, <1>3, <2>1, ClientNumbers DEF Logins, Asking
  <2>6. Logins' <= Cardinality(Renewed')
    BY <1>1, <2>4, <2>5, ClientNumbers DEF ClientInv
  <2>7. login' = "answered" => login = "answered"
    BY <2>1
  <2> QED BY <1>1, <2>1, <2>3, <2>6, <2>7 DEF ClientInv
<1> QED BY <1>6, <1>7, <1>8, <1>9, <1>10 DEF Client!Reply

LEMMA LoginKeeps ==
  ASSUME ClientInv, Client!SessionAssumption, Client!Relogin PROVE ClientInv'
<1>1. IsFiniteSet(ApiCalls) /\ IsFiniteSet(given)
  BY ClientNumbers DEF ClientInv
<1>2. IsFiniteSet(Renewed')
  BY <1>1, FS_Subset DEF Renewed
<1>3. rPc \in [ApiCalls -> PcTypes] /\ loggedOut \in BOOLEAN /\ given \subseteq Tokens
      /\ sessions \subseteq given
  BY DEF ClientInv, ClientTyped
<1>4. CASE Client!LoginServed
  <2> DEFINE t == Client!Fresh
  <2>1. \E x \in Tokens : x \notin given
    BY <1>3, <1>4 DEF Client!LoginServed
  <2>2. t \in Tokens /\ t \notin given
    BY <2>1 DEF Client!Fresh
  <2>3. /\ login = "sent" /\ login' = "answered" /\ loginTok' = t /\ given' = given \cup {t}
        /\ sessions' = sessions \cup {t} /\ UNCHANGED <<token, rPc, rTok, loggedOut>>
    BY <1>4 DEF Client!LoginServed
  <2> HIDE DEF t
  <2>4. IsFiniteSet(given') /\ First \in given /\ First # t
    BY <1>1, <2>2, <2>3, FS_AddElement DEF ClientInv
  <2>5. Cardinality(given' \ {First}) = Cardinality(given \ {First}) + 1
    <3>1. given' \ {First} = (given \ {First}) \cup {t} /\ t \notin given \ {First}
      BY <2>2, <2>3, <2>4
    <3> QED BY <1>1, <3>1, ClientNumbers, FS_AddElement
  <2>6. Logins' = Logins
    BY <1>1, <2>3, <2>5, ClientNumbers DEF Logins, Asking
  <2>7. Renewed' = Renewed
    BY <2>3 DEF Renewed
  <2>8. ClientTyped' /\ Held'
    BY <1>3, <2>2, <2>3 DEF ClientInv, ClientTyped, Held
  <2> QED BY <2>3, <2>4, <2>6, <2>7, <2>8 DEF ClientInv
<1>5. CASE Client!LoginAnswered
  <2>1. /\ login = "answered" /\ login' = "none" /\ token' = loginTok
        /\ rPc' = [r \in ApiCalls |-> IF rPc[r] = "waiting" THEN "resent" ELSE rPc[r]]
        /\ rTok' = [r \in ApiCalls |-> IF rPc[r] = "waiting" THEN loginTok ELSE rTok[r]]
        /\ UNCHANGED <<loggedOut, loginTok, sessions, given>>
    BY <1>5 DEF Client!LoginAnswered, Client!Waiting, Client!server
  <2>2. rPc' \in [ApiCalls -> PcTypes] /\ \A r \in ApiCalls : rPc'[r] # "waiting"
    BY <1>3, <2>1 DEF PcTypes
  <2>3. Renewed \subseteq Renewed'
    BY <2>1 DEF Renewed
  <2>4. ClientTyped' /\ Held'
    BY <2>1, <2>2 DEF ClientInv, ClientTyped, Held
  <2>5. IsFiniteSet(given') /\ Logins' <= Cardinality(Renewed')
    BY <1>2, <2>1, <2>3, BoundStays
  <2> QED BY <2>1, <2>4, <2>5 DEF ClientInv
<1>6. CASE Client!LoginFails
  <2>1. /\ login' = "none" /\ token' = NoToken
        /\ rPc' = [r \in ApiCalls |-> IF rPc[r] = "waiting" THEN "failed" ELSE rPc[r]]
        /\ loggedOut' \in BOOLEAN /\ UNCHANGED <<rTok, loginTok, sessions, given>>
    BY <1>3, <1>6 DEF Client!LoginFails, Client!Waiting, Client!server
  <2>2. rPc' \in [ApiCalls -> PcTypes] /\ \A r \in ApiCalls : rPc'[r] # "waiting"
    BY <1>3, <2>1 DEF PcTypes
  <2>3. Renewed \subseteq Renewed'
    BY <2>1 DEF Renewed
  <2>4. ClientTyped' /\ Held'
    BY <2>1, <2>2 DEF ClientInv, ClientTyped, Held
  <2>5. IsFiniteSet(given') /\ Logins' <= Cardinality(Renewed')
    BY <1>2, <2>1, <2>3, BoundStays
  <2> QED BY <2>1, <2>4, <2>5 DEF ClientInv
<1> QED BY <1>4, <1>5, <1>6 DEF Client!Relogin

LEMMA ClientKeeps ==
  ASSUME ClientInv, Client!SessionAssumption, Client!Next \/ UNCHANGED session PROVE ClientInv'
<1>1. IsFiniteSet(ApiCalls)
  BY ClientNumbers DEF ClientInv
<1>2. ASSUME UNCHANGED <<token, rPc, rTok, login, loginTok, given, loggedOut>>,
             sessions' \subseteq sessions
      PROVE  ClientInv'
  <2>1. UNCHANGED <<Renewed, Logins>>
    BY <1>2 DEF Renewed, Logins, Asking
  <2>2. ClientTyped' /\ Held'
    BY <1>2 DEF ClientInv, ClientTyped, Held
  <2> QED BY <1>2, <2>1, <2>2 DEF ClientInv
<1>3. CASE UNCHANGED session
  BY <1>2, <1>3 DEF session
<1>4. ASSUME NEW t \in Tokens, Client!Expire(t) PROVE ClientInv'
  BY <1>2, <1>4 DEF Client!Expire, Client!client
<1> QED BY <1>3, <1>4, RequestKeeps, LoginKeeps DEF Client!Next

LEMMA ClientHolds == ASSUME ClientInv, Client!SessionAssumption PROVE Client!LoginsBounded
<1> DEFINE S == {r \in ApiCalls : rPc[r] # "idle"}
<1>1. IsFiniteSet(S) /\ Renewed \subseteq S
  BY ClientNumbers, FS_Subset DEF Renewed, ClientInv
<1>2. Cardinality(Renewed) <= Cardinality(S) /\ Cardinality(S) \in Nat
      /\ Cardinality(Renewed) \in Nat
  BY <1>1, FS_Subset, FS_CardinalityType
<1>3. Logins <= Cardinality(Renewed) /\ Logins \in Nat
  BY ClientNumbers DEF ClientInv, Logins, Asking
<1> HIDE DEF S
<1>4. Logins <= Cardinality(S)
  BY <1>2, <1>3
<1> QED BY <1>4, SameCount DEF Client!LoginsBounded, Logins, Asking, S

LEMMA LivesOn ==
  ASSUME ClientInv, Lives, Client!Undisturbed \/ UNCHANGED session PROVE Lives'
<1>1. rPc \in [ApiCalls -> PcTypes] /\ rTok \in [ApiCalls -> given \cup {NoToken}]
      /\ sessions \subseteq given /\ First \in given /\ given \subseteq Tokens
  BY DEF ClientInv, ClientTyped, Held
<1>2. CASE UNCHANGED session
  BY <1>2 DEF session, Lives
<1>3. CASE Client!Expire(First)
  BY <1>3 DEF Client!Expire, Client!client, Lives
<1>4. CASE Client!LoginServed
  <2>1. \E x \in Tokens : x \notin given
    BY <1>1, <1>4 DEF Client!LoginServed
  <2>2. Client!Fresh \notin given
    BY <2>1 DEF Client!Fresh
  <2> QED BY <1>1, <1>4, <2>2 DEF Client!LoginServed, Lives
<1>5. CASE Client!LoginAnswered
  <2>1. /\ login = "answered" /\ login' = "none"
        /\ rPc' = [r \in ApiCalls |-> IF rPc[r] = "waiting" THEN "resent" ELSE rPc[r]]
        /\ rTok' = [r \in ApiCalls |-> IF rPc[r] = "waiting" THEN loginTok ELSE rTok[r]]
        /\ UNCHANGED sessions
    BY <1>5 DEF Client!LoginAnswered, Client!Waiting, Client!server
  <2> QED BY <2>1 DEF Lives
<1>6. ASSUME NEW r \in ApiCalls \ {LogoutCall}, Client!Send(r) \/ Client!Reply(r) PROVE Lives'
  <2>1. CASE Client!Send(r)
    BY <1>1, <2>1 DEF Client!Send, Client!Goto, Client!server, Lives
  <2>2. CASE Client!Accept(r)
    BY <1>1, <1>6, <2>2 DEF Client!Accept, Client!Goto, Lives
  <2>3. CASE Client!Refuse(r)
    <3>1. rPc[r] = "sent"
      BY <2>3 DEF Client!Refuse, Client!Authorized, Lives
    <3> QED BY <1>1, <2>3, <3>1 DEF Client!Refuse, Client!Goto, Client!server, Lives
  <2>4. CASE Client!Answered(r)
    BY <1>1, <2>4 DEF Client!Answered, Client!Goto, Client!server, Lives
  <2>5. CASE Client!Renew(r)
    BY <1>1, <2>5 DEF Client!Renew, Client!Goto, Client!server, Lives
  <2>6. CASE Client!RefusedAgain(r)
    BY <2>6 DEF Client!RefusedAgain, Lives
  <2> QED BY <1>6, <2>1, <2>2, <2>3, <2>4, <2>5, <2>6 DEF Client!Reply
<1> QED BY <1>2, <1>3, <1>4, <1>5, <1>6 DEF Client!Undisturbed

LEMMA UndisturbedIsNext == ASSUME Client!Undisturbed, Client!SessionAssumption PROVE Client!Next
BY DEF Client!Undisturbed, Client!Next, Client!Relogin, Client!SessionAssumption
-------------------------------------------------------------------------------
(* RateLimit: who was counted within the limit since the counter was made, and *)
(* in the window before, whether the answer arrived (Passers) or was lost. *)

Passers == {r \in Callers : lPc[r] \in {"passed", "wasted"}}
During(P, at, from, to) == {r \in P : at[r] \in from..to}
Counting(P, at, from, to) == Cardinality(During(P, at, from, to))

Opens == key.ends - Window
Full  == IF key.n <= Limit THEN key.n ELSE Limit
Burst == \A t \in 0..now : Counting(Passers, lAt, t - Window + 1, t) < 2 * Limit
Filled == \A r \in Callers : lPc[r] = "limited" =>
              Counting(Passers, lAt, lAt[r] - Window + 1, lAt[r]) >= Limit

\* Redis: the window was opened by a request within the limit, and counts those
\* in it; a window's length before it there were fewer than the limit.
RedisInv ==
    /\ Redis!TypeOK
    /\ \A r \in Callers : lPc[r] # "counting"
    /\ key = Redis!Absent => Passers = {}
    /\ key # Redis!Absent =>
        /\ \A r \in Passers : lAt[r] < key.ends
        /\ \E r \in Passers : lAt[r] = Opens
        /\ Counting(Passers, lAt, Opens, key.ends - 1) = Full
        /\ Counting(Passers, lAt, Opens - Window + 1, Opens - 1) < Limit
    /\ Burst /\ Filled

\* The memory store: requests in turns of their own read and write the counter
\* as one step.
MemoryInv ==
    /\ Redis!TypeOK
    /\ \A r \in Passers : lAt[r] >= 0 /\ lAt[r] < IF key = Redis!Absent THEN now ELSE key.ends
    /\ key # Redis!Absent => Counting(Passers, lAt, Opens, key.ends - 1) <= Full
    /\ \A r \in Callers : lPc[r] = "counting" =>
        /\ \A s \in Callers : lPc[s] = "counting" => r = s
        /\ \/ key = Redis!Absent /\ seen[r] = 0 /\ ends[r] < now
           \/ key # Redis!Absent /\ seen[r] = key.n /\ ends[r] = key.ends /\ key.ends >= now

LEMMA FiniteCount ==
  ASSUME NEW P, IsFiniteSet(P), NEW at, NEW from, NEW to
  PROVE  IsFiniteSet(During(P, at, from, to)) /\ Counting(P, at, from, to) \in Nat
BY FS_Subset, FS_CardinalityType DEF During, Counting

LEMMA EmptyCount == ASSUME NEW S, S = {} PROVE Cardinality(S) = 0
BY FS_EmptySet

\* A span that ends in or after a window holds fewer than two limits.
LEMMA Spans ==
  ASSUME NEW P, IsFiniteSet(P), NEW at, NEW opens \in Int, NEW t \in Int, opens <= t,
         Window \in Nat \ {0}, Limit \in Nat \ {0},
         \A r \in P : at[r] \in Int /\ at[r] < opens + Window,
         Counting(P, at, opens, opens + Window - 1) <= Limit,
         Counting(P, at, opens - Window + 1, opens - 1) < Limit
  PROVE  Counting(P, at, t - Window + 1, t) < 2 * Limit
<1> DEFINE A == During(P, at, opens - Window + 1, opens - 1)
           B == During(P, at, opens, opens + Window - 1)
           C == During(P, at, t - Window + 1, t)
<1>1. C \subseteq A \cup B
  BY DEF During
<1>2. IsFiniteSet(A) /\ IsFiniteSet(B) /\ IsFiniteSet(C)
  BY FiniteCount
<1>3. Cardinality(A) \in Nat /\ Cardinality(B) \in Nat /\ Cardinality(C) \in Nat
  BY <1>2, FS_CardinalityType
<1>4. Cardinality(A) < Limit /\ Cardinality(B) <= Limit
  BY DEF Counting
<1> HIDE DEF A, B, C
<1>5. IsFiniteSet(A \cup B) /\ Cardinality(A \cup B) = Cardinality(A) + Cardinality(B)
                                                        - Cardinality(A \cap B)
  BY <1>2, FS_Union
<1>6. Cardinality(A \cap B) \in Nat
  BY <1>2, FS_Subset, FS_CardinalityType
<1>7. Cardinality(C) <= Cardinality(A \cup B)
  BY <1>1, <1>5, FS_Subset
<1>8. Cardinality(C) < 2 * Limit
  BY <1>3, <1>4, <1>5, <1>6, <1>7
<1> QED BY <1>8 DEF C, Counting

LEMMA LimitInit == ASSUME Redis!Init, Redis!LimitAssumption PROVE RedisInv /\ MemoryInv
<1> USE DEF Redis!Init, Redis!LimitAssumption
<1>1. Redis!TypeOK
  <2>1. 0 \in 0..LimitHorizon /\ -1 \in -1..0 /\ -1 \in -1..LimitHorizon + Window
    OBVIOUS
  <2> QED BY <2>1 DEF Redis!TypeOK
<1>2. Passers = {} /\ key = Redis!Absent
  BY DEF Passers
<1>3. \A t \in 0..now : Counting({}, lAt, t - Window + 1, t) = 0
  BY EmptyCount DEF Counting, During
<1> QED BY <1>1, <1>2, <1>3 DEF RedisInv, MemoryInv, Burst, Filled

\* What the types say of the numbers.
LEMMA LimitNumbers ==
  ASSUME Redis!TypeOK, Redis!LimitAssumption
  PROVE  /\ now \in Nat /\ now <= LimitHorizon /\ LimitHorizon \in Nat
         /\ Window \in Nat /\ Window >= 1 /\ Limit \in Nat /\ Limit >= 1
         /\ IsFiniteSet(Callers) /\ IsFiniteSet(Passers)
         /\ key.n \in Nat /\ key.ends \in Int /\ Opens \in Int
         /\ \A r \in Callers : lAt[r] \in Int /\ lAt[r] >= -1 /\ lAt[r] <= now
         /\ \A r \in Callers : ends[r] \in Int /\ seen[r] \in Nat
         /\ key # Redis!Absent => key.n >= 1 /\ Window <= key.ends /\ key.ends <= now + Window
         /\ key = Redis!Absent => key.n = 0 /\ key.ends = -1
<1> USE DEF Redis!TypeOK, Redis!LimitAssumption
<1>1. Window \in Nat /\ Window >= 1 /\ Limit \in Nat /\ Limit >= 1 /\ LimitHorizon \in Nat
  OBVIOUS
<1>2. now \in Nat /\ now <= LimitHorizon
  BY <1>1
<1>3. /\ key # Redis!Absent => /\ key.n \in Nat /\ key.n >= 1 /\ key.ends \in Int
                               /\ Window <= key.ends /\ key.ends <= now + Window
      /\ key = Redis!Absent => key.n = 0 /\ key.ends = -1
  BY <1>1, <1>2 DEF Redis!Absent
<1>4. \A r \in Callers : lAt[r] \in Int /\ lAt[r] >= -1 /\ lAt[r] <= now
  BY <1>2
<1>5. \A r \in Callers : ends[r] \in Int /\ seen[r] \in Nat
  BY <1>1
<1>6. IsFiniteSet(Callers)
  BY SameFinite
<1>7. IsFiniteSet(Passers)
  BY <1>6, FS_Subset DEF Passers
<1> QED BY <1>1, <1>2, <1>3, <1>4, <1>5, <1>6, <1>7 DEF Opens

\* A request that is answered now.
LEMMA AnsweredNow ==
  ASSUME Redis!TypeOK, Redis!LimitAssumption, NEW r \in Callers, NEW count \in Nat,
         NEW over \in {"limited", "unavailable"}, NEW within \in {"passed", "wasted"},
         lPc' = [lPc EXCEPT ![r] = IF Redis!Exceeded(count) THEN over ELSE within],
         lAt' = [lAt EXCEPT ![r] = now], lPc[r] \in {"unsent", "counting"}, now' = now
  PROVE  /\ lPc' \in [Callers -> {"unsent", "counting", "passed", "limited", "unavailable", "wasted"}]
         /\ lAt' \in [Callers -> -1..now']
         /\ \A s \in Callers : s # r => lPc'[s] = lPc[s] /\ lAt'[s] = lAt[s]
         /\ lAt'[r] = now /\ r \notin Passers
         /\ IF count > Limit THEN lPc'[r] = over /\ Passers' = Passers
                             ELSE lPc'[r] = within /\ Passers' = Passers \cup {r}
<1>1. lAt \in [Callers -> -1..now] /\ now \in -1..now
      /\ lPc \in [Callers -> {"unsent", "counting", "passed", "limited", "unavailable", "wasted"}]
  BY LimitNumbers DEF Redis!TypeOK
<1>2. lAt' \in [Callers -> -1..now'] /\ lAt'[r] = now
      /\ \A s \in Callers : s # r => lPc'[s] = lPc[s] /\ lAt'[s] = lAt[s]
  BY <1>1
<1>3. lPc'[r] = IF count > Limit THEN over ELSE within
  BY <1>1 DEF Redis!Exceeded
<1>4. lPc' \in [Callers -> {"unsent", "counting", "passed", "limited", "unavailable", "wasted"}]
  BY <1>1
<1> QED BY <1>1, <1>2, <1>3, <1>4 DEF Passers

\* Spans that end before now do not see it.
LEMMA EarlierSpans ==
  ASSUME Redis!TypeOK, Redis!LimitAssumption, NEW r \in Callers,
         \A s \in Callers : s # r => lAt'[s] = lAt[s],
         lAt'[r] = now, r \notin Passers, Passers' \in {Passers, Passers \cup {r}},
         NEW from \in Int, NEW to \in Int, to < now
  PROVE  Counting(Passers', lAt', from, to) = Counting(Passers, lAt, from, to)
<1>1. During(Passers', lAt', from, to) = During(Passers, lAt, from, to)
  BY LimitNumbers DEF During, Passers
<1> QED BY <1>1 DEF Counting

\* A span that ends now gains the request, if it passes.
LEMMA SpansToNow ==
  ASSUME Redis!TypeOK, Redis!LimitAssumption, NEW r \in Callers,
         \A s \in Callers : s # r => lAt'[s] = lAt[s],
         lAt'[r] = now, r \notin Passers, Passers' \in {Passers, Passers \cup {r}},
         NEW from \in Int, NEW to \in Int, from <= now, now <= to
  PROVE  Counting(Passers', lAt', from, to) =
             Counting(Passers, lAt, from, to) + IF Passers' = Passers THEN 0 ELSE 1
<1> DEFINE D == During(Passers, lAt, from, to)
<1>1. During(Passers', lAt', from, to) = IF Passers' = Passers THEN D ELSE D \cup {r}
  BY LimitNumbers DEF During, Passers
<1>2. r \notin D
  BY DEF During
<1>3. IsFiniteSet(D) /\ Cardinality(D) \in Nat
  BY LimitNumbers, FiniteCount DEF Counting
<1> HIDE DEF D
<1>4. Cardinality(D \cup {r}) = Cardinality(D) + 1
  BY <1>2, <1>3, FS_AddElement
<1> QED BY <1>1, <1>3, <1>4 DEF Counting, D

\* What was passed in a span stays so.
LEMMA SpansGrow ==
  ASSUME Redis!TypeOK, Redis!LimitAssumption, NEW r \in Callers,
         \A s \in Callers : s # r => lAt'[s] = lAt[s],
         r \notin Passers, Passers' \in {Passers, Passers \cup {r}},
         NEW from, NEW to
  PROVE  Counting(Passers', lAt', from, to) >= Counting(Passers, lAt, from, to)
<1>1. During(Passers, lAt, from, to) \subseteq During(Passers', lAt', from, to)
  BY DEF During, Passers
<1>2. IsFiniteSet(Passers) /\ IsFiniteSet(Passers')
  BY LimitNumbers, FS_AddElement
<1>3. IsFiniteSet(During(Passers', lAt', from, to))
  BY <1>2, FiniteCount
<1> QED BY <1>1, <1>3, FS_Subset DEF Counting

LEMMA RedisTicks ==
  ASSUME RedisInv, Redis!LimitAssumption, Redis!Tick PROVE RedisInv'
<1>1. now < LimitHorizon /\ now' = now + 1 /\ UNCHANGED <<key, lPc, seen, ends, lAt>>
  BY DEF Redis!Tick
<1>2. Redis!TypeOK
  BY DEF RedisInv
<1>3. now' \in Nat /\ now' \in 0..LimitHorizon
  BY <1>1, <1>2, LimitNumbers
<1>4. Redis!TypeOK'
  <2>1. \A k : k \in Window..now + Window => k \in Window..now' + Window
    BY <1>1, <1>2, LimitNumbers
  <2>2. \A k : k \in -1..now => k \in -1..now'
    BY <1>1, <1>2, LimitNumbers
  <2> QED BY <1>1, <1>2, <1>3, <2>1, <2>2 DEF Redis!TypeOK, Redis!Absent
<1>5. UNCHANGED <<Passers, Opens, Full>> /\ Redis!Absent' = Redis!Absent
  BY <1>1 DEF Passers, Opens, Full, Redis!Absent
<1>6. Burst'
  <2> SUFFICES ASSUME NEW t \in 0..now' PROVE Counting(Passers, lAt, t - Window + 1, t) < 2 * Limit
    BY <1>1, <1>5 DEF Burst
  <2>1. CASE t \in 0..now
    BY <2>1 DEF Burst, RedisInv
  <2>2. CASE t \notin 0..now
    <3>1. t = now + 1
      BY <1>1, <1>2, <2>2, LimitNumbers
    <3>2. CASE key = Redis!Absent
      <4>1. During(Passers, lAt, t - Window + 1, t) = {}
        BY <3>2 DEF During, RedisInv
      <4> QED BY <1>2, <4>1, EmptyCount, LimitNumbers DEF Counting
    <3>3. CASE key # Redis!Absent
      <4>1. Opens <= t /\ key.ends = Opens + Window /\ key.ends - 1 = Opens + Window - 1
            /\ Full <= Limit /\ t \in Int
        BY <1>2, <3>1, <3>3, LimitNumbers DEF Opens, Full
      <4>2. \A r \in Passers : lAt[r] \in Int /\ lAt[r] < Opens + Window
        BY <1>2, <3>3, <4>1, LimitNumbers DEF RedisInv, Passers
      <4>3. /\ Counting(Passers, lAt, Opens, Opens + Window - 1) <= Limit
            /\ Counting(Passers, lAt, Opens - Window + 1, Opens - 1) < Limit
        BY <3>3, <4>1 DEF RedisInv
      <4>4. IsFiniteSet(Passers) /\ Opens \in Int /\ Window \in Nat \ {0} /\ Limit \in Nat \ {0}
        BY <1>2, LimitNumbers
      <4> QED BY <4>1, <4>2, <4>3, <4>4, Spans
    <3> QED BY <3>2, <3>3
  <2> QED BY <2>1, <2>2
<1>7. Filled'
  BY <1>1, <1>5 DEF Filled, RedisInv
<1> QED BY <1>1, <1>4, <1>5, <1>6, <1>7 DEF RedisInv

\* Redis counts a request in an open window.
LEMMA RedisCounts ==
  ASSUME RedisInv, Redis!LimitAssumption, NEW r \in Callers,
         NEW over \in {"limited", "unavailable"}, NEW within \in {"passed", "wasted"},
         Redis!Counted(r, over, within), now < key.ends
  PROVE  RedisInv'
<1> DEFINE count == key.n + 1
<1>1. Redis!TypeOK /\ key # Redis!Absent
  BY LimitNumbers DEF RedisInv
<1>2. /\ key' = [n |-> count, ends |-> key.ends] /\ UNCHANGED <<now, seen, ends>>
      /\ lPc' = [lPc EXCEPT ![r] = IF Redis!Exceeded(count) THEN over ELSE within]
      /\ lAt' = [lAt EXCEPT ![r] = now] /\ lPc[r] = "unsent"
  <2>1. count # 1
    BY <1>1, LimitNumbers
  <2> QED BY <2>1 DEF Redis!Counted, Redis!Live, Redis!EndsAt
<1>3. count \in Nat /\ count >= 2 /\ key.n \in Nat /\ key.n = count - 1
  BY <1>1, LimitNumbers
<1> HIDE DEF count
<1>4. /\ lPc' \in [Callers -> {"unsent", "counting", "passed", "limited", "unavailable", "wasted"}]
      /\ lAt' \in [Callers -> -1..now']
      /\ \A s \in Callers : s # r => lPc'[s] = lPc[s] /\ lAt'[s] = lAt[s]
      /\ lAt'[r] = now /\ r \notin Passers
      /\ IF count > Limit THEN lPc'[r] = over /\ Passers' = Passers
                          ELSE lPc'[r] = within /\ Passers' = Passers \cup {r}
  BY <1>1, <1>2, <1>3, AnsweredNow
<1>5. Passers' \in {Passers, Passers \cup {r}}
  BY <1>4
<1>6. /\ now \in Nat /\ Opens \in Int /\ Opens <= now /\ key.ends = Opens + Window
      /\ key.ends \in Int /\ Window \in Nat \ {0} /\ Limit \in Nat \ {0}
      /\ key'.n = count /\ key'.ends = key.ends /\ Opens' = Opens /\ key' # Redis!Absent
      /\ Redis!Absent' = Redis!Absent
  BY <1>1, <1>2, <1>3, LimitNumbers DEF Opens, Redis!Absent
<1>7. Redis!TypeOK'
  <2>1. key'.n \in Nat \ {0} /\ key'.ends \in Window..now' + Window
    BY <1>1, <1>2, <1>3, <1>6, LimitNumbers
  <2> QED BY <1>1, <1>2, <1>4, <2>1 DEF Redis!TypeOK
<1>8. /\ Counting(Passers', lAt', Opens, key.ends - 1) = Full'
      /\ Full' <= Limit
  <2>1. Counting(Passers', lAt', Opens, key.ends - 1) =
            Counting(Passers, lAt, Opens, key.ends - 1) + IF Passers' = Passers THEN 0 ELSE 1
    <3>1. Opens <= now /\ now <= key.ends - 1 /\ key.ends - 1 \in Int
      BY <1>6
    <3> QED BY <1>1, <1>4, <1>5, <1>6, <3>1, SpansToNow
  <2>2. Counting(Passers, lAt, Opens, key.ends - 1) = Full
    BY <1>1 DEF RedisInv
  <2>3. Passers' = Passers <=> count > Limit
    BY <1>4
  <2>4. Full' = IF count <= Limit THEN count ELSE Limit
    BY <1>6 DEF Full
  <2> QED BY <1>3, <1>6, <2>1, <2>2, <2>3, <2>4 DEF Full
<1>9. Counting(Passers', lAt', Opens - Window + 1, Opens - 1) < Limit
  <2>1. Counting(Passers', lAt', Opens - Window + 1, Opens - 1) =
            Counting(Passers, lAt, Opens - Window + 1, Opens - 1)
    <3>1. Opens - 1 < now /\ Opens - 1 \in Int /\ Opens - Window + 1 \in Int
      BY <1>6
    <3> QED BY <1>1, <1>4, <1>5, <3>1, EarlierSpans
  <2> QED BY <1>1, <2>1 DEF RedisInv
<1>10. \A s \in Passers' : lAt'[s] \in Int /\ lAt'[s] < key.ends
  BY <1>1, <1>4, <1>6, LimitNumbers DEF RedisInv, Passers
<1>11. \E s \in Passers' : lAt'[s] = Opens
  <2>1. PICK s \in Passers : lAt[s] = Opens
    BY <1>1 DEF RedisInv
  <2> QED BY <1>4, <1>5, <2>1 DEF Passers
<1>12. Burst'
  <2> SUFFICES ASSUME NEW t \in 0..now
               PROVE  Counting(Passers', lAt', t - Window + 1, t) < 2 * Limit
    BY <1>2 DEF Burst
  <2>1. t \in Int /\ t - Window + 1 \in Int /\ t <= now
    BY <1>6
  <2>2. CASE t < now
    <3>1. Counting(Passers', lAt', t - Window + 1, t) = Counting(Passers, lAt, t - Window + 1, t)
      BY <1>1, <1>4, <1>5, <2>1, <2>2, EarlierSpans
    <3> QED BY <3>1 DEF RedisInv, Burst
  <2>3. CASE t = now
    <3>1. IsFiniteSet(Passers')
      BY <1>1, <1>5, LimitNumbers, FS_AddElement
    <3>2. key.ends - 1 = Opens + Window - 1
      BY <1>6
    <3> QED BY <1>6, <1>8, <1>9, <1>10, <2>1, <2>3, <3>1, <3>2, Spans
  <2> QED BY <2>1, <2>2, <2>3, <1>6
<1>13. Filled'
  <2> SUFFICES ASSUME NEW s \in Callers, lPc'[s] = "limited"
               PROVE  Counting(Passers', lAt', lAt'[s] - Window + 1, lAt'[s]) >= Limit
    BY DEF Filled
  <2>1. CASE s # r
    <3>1. Counting(Passers, lAt, lAt[s] - Window + 1, lAt[s]) >= Limit
      BY <1>4, <2>1 DEF RedisInv, Filled
    <3>2. /\ Counting(Passers', lAt', lAt[s] - Window + 1, lAt[s])
               >= Counting(Passers, lAt, lAt[s] - Window + 1, lAt[s])
          /\ lAt'[s] = lAt[s]
      BY <1>1, <1>4, <1>5, <2>1, SpansGrow
    <3>3. IsFiniteSet(Passers) /\ IsFiniteSet(Passers')
      BY <1>1, <1>5, LimitNumbers, FS_AddElement
    <3>4. /\ Counting(Passers, lAt, lAt[s] - Window + 1, lAt[s]) \in Nat
          /\ Counting(Passers', lAt', lAt[s] - Window + 1, lAt[s]) \in Nat
      BY <3>3, FiniteCount
    <3> QED BY <1>6, <3>1, <3>2, <3>4
  <2>2. CASE s = r
    <3> DEFINE A == During(Passers', lAt', Opens, key.ends - 1)
               B == During(Passers', lAt', now - Window + 1, now)
    <3>1. count > Limit /\ Passers' = Passers /\ Full' = Limit
      BY <1>3, <1>4, <1>6, <2>2 DEF Full
    <3>2. A \subseteq B
      <4>1. \A p \in Passers' : lAt'[p] \in Int /\ lAt'[p] <= now
        BY <1>1, <1>4, <3>1, LimitNumbers DEF Passers
      <4> QED BY <1>6, <4>1 DEF During
    <3>3. IsFiniteSet(B)
      BY <1>1, <3>1, LimitNumbers, FiniteCount
    <3> HIDE DEF A, B
    <3>4. Cardinality(A) <= Cardinality(B) /\ Cardinality(B) \in Nat
      BY <3>2, <3>3, FS_Subset, FS_CardinalityType
    <3>5. Cardinality(A) = Limit
      BY <1>8, <3>1 DEF A, Counting
    <3>6. Cardinality(B) >= Limit
      BY <1>6, <3>4, <3>5
    <3> QED BY <1>4, <2>2, <3>6 DEF B, Counting
  <2> QED BY <2>1, <2>2
<1>14. \A s \in Callers : lPc'[s] # "counting"
  BY <1>4 DEF RedisInv
<1> QED BY <1>6, <1>7, <1>8, <1>9, <1>10, <1>11, <1>12, <1>13, <1>14 DEF RedisInv

\* The first request of a window makes its counter.
LEMMA RedisOpens ==
  ASSUME RedisInv, Redis!LimitAssumption, NEW r \in Callers,
         NEW over \in {"limited", "unavailable"}, NEW within \in {"passed", "wasted"},
         Redis!Counted(r, over, within), ~(now < key.ends)
  PROVE  RedisInv'
<1>1. Redis!TypeOK
  BY DEF RedisInv
<1>2. /\ key' = [n |-> 1, ends |-> now + Window] /\ UNCHANGED <<now, seen, ends>>
      /\ lPc' = [lPc EXCEPT ![r] = IF Redis!Exceeded(1) THEN over ELSE within]
      /\ lAt' = [lAt EXCEPT ![r] = now] /\ lPc[r] = "unsent"
  BY DEF Redis!Counted, Redis!Live, Redis!EndsAt, Redis!Absent
<1>3. /\ lPc' \in [Callers -> {"unsent", "counting", "passed", "limited", "unavailable", "wasted"}]
      /\ lAt' \in [Callers -> -1..now']
      /\ \A s \in Callers : s # r => lPc'[s] = lPc[s] /\ lAt'[s] = lAt[s]
      /\ lAt'[r] = now /\ r \notin Passers
      /\ lPc'[r] = within /\ Passers' = Passers \cup {r}
  <2>1. 1 \in Nat /\ ~(1 > Limit) /\ now' = now /\ lPc[r] \in {"unsent", "counting"}
    BY <1>1, <1>2, LimitNumbers
  <2> QED BY <1>1, <1>2, <2>1, AnsweredNow
<1>4. /\ now \in Nat /\ Window \in Nat \ {0} /\ Limit \in Nat \ {0} /\ Window >= 1 /\ Limit >= 1
      /\ key'.n = 1 /\ key'.ends = now + Window /\ Opens' = now /\ Full' = 1
      /\ key' # Redis!Absent /\ Redis!Absent' = Redis!Absent
      /\ IsFiniteSet(Passers) /\ IsFiniteSet(Passers')
  <2>1. IsFiniteSet(Passers) /\ IsFiniteSet(Passers')
    BY <1>1, <1>3, LimitNumbers, FS_AddElement
  <2>2. now \in Nat /\ Window \in Nat /\ Limit \in Nat /\ Window >= 1 /\ Limit >= 1
    BY <1>1, LimitNumbers
  <2> QED BY <1>2, <2>1, <2>2 DEF Opens, Full, Redis!Absent
<1>5. Redis!TypeOK'
  <2>1. key'.n \in Nat \ {0} /\ key'.ends \in Window..now' + Window
    BY <1>2, <1>4
  <2> QED BY <1>1, <1>2, <1>3, <2>1 DEF Redis!TypeOK
\* Those who passed before did so in the window before, or there is none.
<1>6. \A s \in Passers : lAt[s] \in Int /\ lAt[s] < now
  <2>1. \A s \in Passers : lAt[s] \in Int /\ lAt[s] < key.ends
    BY <1>1, LimitNumbers DEF RedisInv, Passers
  <2> QED BY <1>1, <1>4, <2>1, LimitNumbers
<1>7. Counting(Passers, lAt, now, now + Window - 1) = 0
  <2>1. During(Passers, lAt, now, now + Window - 1) = {}
    BY <1>4, <1>6 DEF During
  <2> QED BY <2>1, EmptyCount DEF Counting
<1>8. Counting(Passers', lAt', now, now + Window - 1) = 1
  <2>1. now <= now + Window - 1 /\ now + Window - 1 \in Int /\ now \in Int /\ now <= now
    BY <1>4
  <2>2. Passers' # Passers
    BY <1>3
  <2>3. Counting(Passers', lAt', now, now + Window - 1) =
          Counting(Passers, lAt, now, now + Window - 1) + IF Passers' = Passers THEN 0 ELSE 1
    BY <1>1, <1>3, <2>1, SpansToNow
  <2> QED BY <1>7, <2>2, <2>3
<1>9. Counting(Passers, lAt, now - Window + 1, now - 1) < Limit
  <2>1. CASE key = Redis!Absent
    <3>1. During(Passers, lAt, now - Window + 1, now - 1) = {}
      BY <2>1 DEF During, RedisInv
    <3> QED BY <1>4, <3>1, EmptyCount DEF Counting
  <2>2. CASE key # Redis!Absent
    <3> DEFINE A == During(Passers, lAt, now - Window + 1, now - 1)
               B == During(Passers, lAt, Opens, key.ends - 1)
    <3>1. PICK s \in Passers : lAt[s] = Opens
      BY <2>2 DEF RedisInv
    <3>2. /\ Opens \in Int /\ key.ends = Opens + Window /\ key.ends <= now
      BY <1>1, <1>4, LimitNumbers DEF Opens
    <3>3. \A p \in Passers : lAt[p] \in Int /\ lAt[p] < key.ends
      BY <1>1, <2>2, LimitNumbers DEF RedisInv, Passers
    <3>4. A \subseteq B /\ s \in B /\ s \notin A
      BY <1>4, <3>1, <3>2, <3>3 DEF During
    <3>5. IsFiniteSet(A) /\ IsFiniteSet(B)
      BY <1>4, FiniteCount
    <3>6. Cardinality(B) <= Limit
      <4>1. Cardinality(B) = Full
        BY <2>2 DEF RedisInv, Counting
      <4> QED BY <1>1, <1>4, <4>1, LimitNumbers DEF Full
    <3> HIDE DEF A, B
    <3>7. Cardinality(A) \in Nat /\ Cardinality(B) \in Nat
      BY <3>5, FS_CardinalityType
    <3>8. Cardinality(A) <= Cardinality(B) /\ (Cardinality(A) = Cardinality(B) => A = B)
      BY <3>4, <3>5, FS_Subset
    <3>9. Cardinality(A) < Limit
      BY <1>4, <3>4, <3>6, <3>7, <3>8
    <3> QED BY <3>9 DEF A, Counting
  <2> QED BY <2>1, <2>2
<1>10. Counting(Passers', lAt', now - Window + 1, now - 1) < Limit
  <2>1. now - 1 < now /\ now - 1 \in Int /\ now - Window + 1 \in Int
    BY <1>4
  <2>2. Counting(Passers', lAt', now - Window + 1, now - 1) =
            Counting(Passers, lAt, now - Window + 1, now - 1)
    BY <1>1, <1>3, <2>1, EarlierSpans
  <2> QED BY <1>9, <2>2
<1>11. \A s \in Passers' : lAt'[s] \in Int /\ lAt'[s] < now + Window
  BY <1>3, <1>4, <1>6 DEF Passers
<1>12. Burst'
  <2> SUFFICES ASSUME NEW t \in 0..now
               PROVE  Counting(Passers', lAt', t - Window + 1, t) < 2 * Limit
    BY <1>2 DEF Burst
  <2>1. t \in Int /\ t - Window + 1 \in Int /\ t <= now
    BY <1>4
  <2>2. CASE t < now
    <3>1. Counting(Passers', lAt', t - Window + 1, t) = Counting(Passers, lAt, t - Window + 1, t)
      BY <1>1, <1>3, <2>1, <2>2, EarlierSpans
    <3> QED BY <3>1 DEF RedisInv, Burst
  <2>3. CASE t = now
    <3>1. Counting(Passers', lAt', now, now + Window - 1) <= Limit
      BY <1>4, <1>8
    <3>2. now \in Int /\ now <= t
      BY <1>4, <2>3
    <3> QED BY <1>4, <1>10, <1>11, <2>1, <3>1, <3>2, Spans
  <2> QED BY <1>4, <2>1, <2>2, <2>3
<1>13. Filled'
  <2> SUFFICES ASSUME NEW s \in Callers, lPc'[s] = "limited"
               PROVE  Counting(Passers', lAt', lAt'[s] - Window + 1, lAt'[s]) >= Limit
    BY DEF Filled
  <2>1. s # r
    BY <1>3
  <2>2. Counting(Passers, lAt, lAt[s] - Window + 1, lAt[s]) >= Limit
    BY <1>3, <2>1 DEF RedisInv, Filled
  <2>3. /\ Counting(Passers', lAt', lAt[s] - Window + 1, lAt[s])
             >= Counting(Passers, lAt, lAt[s] - Window + 1, lAt[s])
        /\ lAt'[s] = lAt[s]
    BY <1>1, <1>3, <2>1, SpansGrow
  <2>4. /\ Counting(Passers, lAt, lAt[s] - Window + 1, lAt[s]) \in Nat
        /\ Counting(Passers', lAt', lAt[s] - Window + 1, lAt[s]) \in Nat
    BY <1>4, FiniteCount
  <2> QED BY <1>4, <2>2, <2>3, <2>4
<1>14. \A s \in Callers : lPc'[s] # "counting"
  BY <1>3 DEF RedisInv
<1>15. \E s \in Passers' : lAt'[s] = now
  BY <1>3
<1> QED BY <1>4, <1>5, <1>8, <1>10, <1>11, <1>12, <1>13, <1>14, <1>15 DEF RedisInv

LEMMA RedisKeeps ==
  ASSUME RedisInv, Redis!LimitAssumption, Redis!Next \/ UNCHANGED limiter PROVE RedisInv'
<1>1. CASE UNCHANGED limiter
  <2>1. UNCHANGED <<now, key, lPc, seen, ends, lAt, Passers, Opens, Full, Redis!Absent>>
    BY <1>1 DEF limiter, Passers, Opens, Full, Redis!Absent
  <2>2. Redis!TypeOK' /\ Burst' /\ Filled'
    BY <2>1 DEF RedisInv, Redis!TypeOK, Burst, Filled
  <2> QED BY <2>1, <2>2 DEF RedisInv
<1>2. ASSUME NEW r \in Callers, Redis!StoreFails(r) PROVE RedisInv'
  <2>1. /\ UNCHANGED <<now, key, seen, ends>> /\ lPc[r] = "unsent"
        /\ lPc' = [lPc EXCEPT ![r] = "unavailable"] /\ lAt' = [lAt EXCEPT ![r] = now]
        /\ Redis!TypeOK
    BY <1>2 DEF Redis!StoreFails, RedisInv
  <2>2. lAt \in [Callers -> -1..now] /\ now \in -1..now
        /\ lPc \in [Callers -> {"unsent", "counting", "passed", "limited", "unavailable", "wasted"}]
    BY <2>1, LimitNumbers DEF Redis!TypeOK
  <2>3. /\ lPc' \in [Callers -> {"unsent", "counting", "passed", "limited", "unavailable", "wasted"}]
        /\ lAt' \in [Callers -> -1..now'] /\ lPc'[r] = "unavailable" /\ r \notin Passers
        /\ \A s \in Callers : s # r => lPc'[s] = lPc[s] /\ lAt'[s] = lAt[s]
    BY <2>1, <2>2 DEF Passers
  <2>4. Redis!TypeOK' /\ UNCHANGED <<Opens, Full, Redis!Absent>>
    BY <2>1, <2>3 DEF Redis!TypeOK, Opens, Full, Redis!Absent
  <2>5. Passers' = Passers
    BY <2>3 DEF Passers
  <2>6. /\ \A p \in Passers : lAt'[p] = lAt[p]
        /\ \A s \in Callers : lPc'[s] = "limited" => lPc[s] = "limited" /\ lAt'[s] = lAt[s]
        /\ \A s \in Callers : lPc'[s] # "counting"
    BY <2>3 DEF Passers, RedisInv
  <2>7. ASSUME NEW from, NEW to
        PROVE  Counting(Passers', lAt', from, to) = Counting(Passers, lAt, from, to)
    BY <2>5, <2>6 DEF Counting, During
  <2> HIDE DEF Counting
  <2>8. Burst'
    BY <2>1, <2>7 DEF RedisInv, Burst
  <2>9. Filled'
    <3> SUFFICES ASSUME NEW s \in Callers, lPc'[s] = "limited"
                 PROVE  Counting(Passers', lAt', lAt'[s] - Window + 1, lAt'[s]) >= Limit
      BY DEF Filled
    <3>1. Counting(Passers, lAt, lAt[s] - Window + 1, lAt[s]) >= Limit /\ lAt'[s] = lAt[s]
      BY <2>6 DEF RedisInv, Filled
    <3> QED BY <2>7, <3>1
  <2>10. key' # Redis!Absent' =>
            /\ \A s \in Passers' : lAt'[s] < key'.ends
            /\ \E s \in Passers' : lAt'[s] = Opens'
            /\ Counting(Passers', lAt', Opens', key'.ends - 1) = Full'
            /\ Counting(Passers', lAt', Opens' - Window + 1, Opens' - 1) < Limit
    <3> SUFFICES ASSUME key # Redis!Absent
                 PROVE  /\ \A s \in Passers : lAt'[s] < key.ends
                        /\ \E s \in Passers : lAt'[s] = Opens
                        /\ Counting(Passers', lAt', Opens, key.ends - 1) = Full
                        /\ Counting(Passers', lAt', Opens - Window + 1, Opens - 1) < Limit
      BY <2>1, <2>4, <2>5
    <3> QED BY <2>6, <2>7 DEF RedisInv
  <2> QED BY <2>1, <2>4, <2>5, <2>6, <2>8, <2>9, <2>10 DEF RedisInv
<1>3. ASSUME NEW r \in Callers, Redis!Get(r) \/ Redis!Set(r) PROVE FALSE
  BY <1>3 DEF Redis!Get, Redis!Set, RedisInv
<1>4. ASSUME NEW r \in Callers, Redis!Incr(r) \/ Redis!IncrUnanswered(r) PROVE RedisInv'
  <2>1. Redis!Counted(r, "limited", "passed") \/ Redis!Counted(r, "unavailable", "wasted")
    BY <1>4 DEF Redis!Incr, Redis!IncrUnanswered
  <2>2. CASE Redis!Counted(r, "limited", "passed")
    BY <2>2, RedisCounts, RedisOpens
  <2>3. CASE Redis!Counted(r, "unavailable", "wasted")
    BY <2>3, RedisCounts, RedisOpens
  <2> QED BY <2>1, <2>2, <2>3
<1> QED BY <1>1, <1>2, <1>3, <1>4, RedisTicks DEF Redis!Next

-------------------------------------------------------------------------------
(* The memory store *)

LEMMA MemoryGets ==
  ASSUME MemoryInv, Redis!LimitAssumption, NEW r \in Callers, Memory!Get(r) PROVE MemoryInv'
<1>1. /\ UNCHANGED <<now, lAt>> /\ lPc[r] = "unsent" /\ lPc' = [lPc EXCEPT ![r] = "counting"]
      /\ \A s \in Callers : lPc[s] # "counting"
      /\ key' = IF key.ends < now THEN Redis!Absent ELSE key
      /\ seen' = [seen EXCEPT ![r] = IF key.ends < now THEN 0 ELSE key.n]
      /\ ends' = [ends EXCEPT ![r] = key.ends]
      /\ Redis!TypeOK /\ Redis!Absent' = Redis!Absent
  BY DEF Memory!Get, MemoryInv, Memory!Absent, Redis!Absent
<1>2. /\ now \in Nat /\ now <= LimitHorizon /\ LimitHorizon \in Nat
      /\ Window \in Nat /\ key.n \in Nat /\ key.ends \in Int
      /\ key # Redis!Absent => Window <= key.ends /\ key.ends <= now + Window
      /\ key = Redis!Absent => key.ends = -1
  BY <1>1, LimitNumbers
<1>3. /\ lPc' \in [Callers -> {"unsent", "counting", "passed", "limited", "unavailable", "wasted"}]
      /\ lPc'[r] = "counting" /\ Passers' = Passers
      /\ \A s \in Callers : s # r => lPc'[s] = lPc[s]
  BY <1>1 DEF Redis!TypeOK, Passers
<1>4. Redis!TypeOK'
  <2>1. seen' \in [Callers -> Nat] /\ ends' \in [Callers -> -1..LimitHorizon + Window]
    <3>1. key.ends \in -1..LimitHorizon + Window
      BY <1>2
    <3>2. (IF key.ends < now THEN 0 ELSE key.n) \in Nat
      BY <1>2
    <3> QED BY <1>1, <3>1, <3>2 DEF Redis!TypeOK
  <2> QED BY <1>1, <1>3, <2>1 DEF Redis!TypeOK
<1>5. seen'[r] = (IF key.ends < now THEN 0 ELSE key.n) /\ ends'[r] = key.ends
  BY <1>1 DEF Redis!TypeOK
<1>6. key.ends < now => key' = Redis!Absent
  BY <1>1
<1>7. ~(key.ends < now) => key' = key /\ key # Redis!Absent /\ key.ends >= now
  BY <1>1, <1>2
<1>8. \A p \in Passers' : lAt'[p] >= 0
                          /\ lAt'[p] < IF key' = Redis!Absent THEN now ELSE key'.ends
  <2>1. \A p \in Passers : lAt[p] \in Int
    BY <1>1, LimitNumbers DEF Passers
  <2>2. \A p \in Passers : lAt[p] >= 0 /\ lAt[p] < IF key = Redis!Absent THEN now ELSE key.ends
    BY DEF MemoryInv
  <2> QED BY <1>1, <1>2, <1>3, <1>6, <1>7, <2>1, <2>2
<1>9. key' # Redis!Absent => Counting(Passers, lAt, Opens', key'.ends - 1) <= Full'
  BY <1>6, <1>7 DEF MemoryInv, Opens, Full
<1> QED BY <1>1, <1>3, <1>4, <1>5, <1>6, <1>7, <1>8, <1>9 DEF MemoryInv

LEMMA MemorySets ==
  ASSUME MemoryInv, Redis!LimitAssumption, NEW r \in Callers, Memory!Set(r) PROVE MemoryInv'
<1> DEFINE count == seen[r] + 1
           until == IF ends[r] > now THEN ends[r] ELSE now + Window
<1>1. /\ UNCHANGED <<now, seen, ends>> /\ lPc[r] = "counting"
      /\ key' = [n |-> count, ends |-> until]
      /\ lPc' = [lPc EXCEPT ![r] = IF Redis!Exceeded(count) THEN "limited" ELSE "passed"]
      /\ lAt' = [lAt EXCEPT ![r] = now]
      /\ Redis!TypeOK
  BY DEF Memory!Set, Memory!KeptUntil, Memory!Exceeded, Redis!Exceeded, MemoryInv
<1>2. /\ now \in Nat /\ now <= LimitHorizon /\ LimitHorizon \in Nat /\ Window \in Nat /\ Window >= 1
      /\ Limit \in Nat /\ Limit >= 1 /\ key.n \in Nat /\ key.ends \in Int
      /\ seen[r] \in Nat /\ ends[r] \in Int /\ count \in Nat /\ count >= 1 /\ until \in Int
      /\ key # Redis!Absent => Window <= key.ends /\ key.ends <= now + Window
      /\ key = Redis!Absent => key.ends = -1
      /\ IsFiniteSet(Passers)
  BY <1>1, LimitNumbers
<1>3. /\ \A s \in Callers : lPc[s] = "counting" => r = s
      /\ \/ key = Redis!Absent /\ count = 1 /\ ends[r] < now
         \/ key # Redis!Absent /\ count = key.n + 1 /\ ends[r] = key.ends /\ key.ends >= now
  BY <1>1 DEF MemoryInv
<1> HIDE DEF count
<1>4. /\ lPc' \in [Callers -> {"unsent", "counting", "passed", "limited", "unavailable", "wasted"}]
      /\ lAt' \in [Callers -> -1..now']
      /\ \A s \in Callers : s # r => lPc'[s] = lPc[s] /\ lAt'[s] = lAt[s]
      /\ lAt'[r] = now /\ r \notin Passers
      /\ IF count > Limit THEN lPc'[r] = "limited" /\ Passers' = Passers
                          ELSE lPc'[r] = "passed" /\ Passers' = Passers \cup {r}
  BY <1>1, <1>2, AnsweredNow
<1>5. Passers' \in {Passers, Passers \cup {r}}
  BY <1>4
<1>6. until >= Window /\ until <= now + Window /\ until > now /\ until - Window <= now
      /\ now <= until - 1 /\ until - 1 \in Int /\ until - Window \in Int
  BY <1>2, <1>3
<1>7. key'.n = count /\ key'.ends = until /\ key' # Redis!Absent /\ Redis!Absent' = Redis!Absent
      /\ Opens' = until - Window /\ Full' = IF count <= Limit THEN count ELSE Limit
  <2>1. key'.n = count /\ key'.ends = until
    BY <1>1
  <2>2. key' # Redis!Absent
    BY <1>2, <2>1 DEF Redis!Absent
  <2> QED BY <2>1, <2>2 DEF Redis!Absent, Opens, Full
<1>8. Redis!TypeOK'
  <2>1. key'.n \in Nat \ {0} /\ key'.ends \in Window..now' + Window
    BY <1>1, <1>2, <1>6, <1>7
  <2> QED BY <1>1, <1>4, <2>1 DEF Redis!TypeOK
\* Those who passed before did so in this very window, or before it.
<1>9. \A p \in Passers : lAt[p] \in Int /\ lAt[p] >= 0
                         /\ lAt[p] < IF key = Redis!Absent THEN now ELSE key.ends
  BY <1>1, LimitNumbers DEF MemoryInv, Passers
<1>10. \A p \in Passers' : lAt'[p] >= 0 /\ lAt'[p] < until
  BY <1>2, <1>3, <1>4, <1>5, <1>6, <1>9 DEF Passers
<1> HIDE DEF until
<1>11. /\ Counting(Passers, lAt, until - Window, until - 1) \in Nat
       /\ Counting(Passers, lAt, until - Window, until - 1) <= count - 1
       /\ Counting(Passers, lAt, until - Window, until - 1) <= Limit
  <2>1. CASE key # Redis!Absent /\ key.ends > now
    <3>1. until = key.ends /\ count = key.n + 1
      BY <1>3, <2>1 DEF until
    <3>2. Counting(Passers, lAt, Opens, key.ends - 1) <= Full
      BY <2>1 DEF MemoryInv
    <3>3. Full <= Limit /\ Full <= count - 1 /\ Full \in Nat
      BY <1>2, <3>1 DEF Full
    <3>4. Counting(Passers, lAt, until - Window, until - 1) \in Nat
      BY <1>2, FiniteCount
    <3>5. Opens = until - Window
      BY <3>1 DEF Opens
    <3> QED BY <1>2, <3>1, <3>2, <3>3, <3>4, <3>5
  <2>2. CASE ~(key # Redis!Absent /\ key.ends > now)
    <3>1. until = now + Window /\ until - Window = now
      BY <1>2, <1>3, <2>2 DEF until
    <3>2. \A p \in Passers : lAt[p] < now
      BY <1>2, <1>3, <1>9, <2>2
    <3>3. During(Passers, lAt, until - Window, until - 1) = {}
      BY <1>2, <1>9, <3>1, <3>2 DEF During
    <3>4. Counting(Passers, lAt, until - Window, until - 1) = 0
      BY <3>3, EmptyCount DEF Counting
    <3> QED BY <1>2, <3>4
  <2> QED BY <2>1, <2>2
<1>12. Counting(Passers', lAt', Opens', key'.ends - 1) <= Full'
  <2>1. Counting(Passers', lAt', until - Window, until - 1) =
            Counting(Passers, lAt, until - Window, until - 1) + IF Passers' = Passers THEN 0 ELSE 1
    BY <1>1, <1>4, <1>5, <1>6, SpansToNow
  <2>2. count > Limit <=> Passers' = Passers
    BY <1>4
  <2> QED BY <1>2, <1>7, <1>11, <2>1, <2>2
<1>13. \A s \in Callers : lPc'[s] # "counting"
  BY <1>3, <1>4
<1> QED BY <1>7, <1>8, <1>10, <1>12, <1>13 DEF MemoryInv

LEMMA MemoryKeeps ==
  ASSUME MemoryInv, Redis!LimitAssumption, Memory!Next \/ UNCHANGED limiter PROVE MemoryInv'
<1>1. CASE UNCHANGED limiter
  <2>1. UNCHANGED <<now, key, lPc, seen, ends, lAt, Passers, Opens, Full, Redis!Absent>>
    BY <1>1 DEF limiter, Passers, Opens, Full, Redis!Absent
  <2>2. Redis!TypeOK'
    BY <2>1 DEF MemoryInv, Redis!TypeOK
  <2> QED BY <2>1, <2>2 DEF MemoryInv
<1>2. CASE Memory!Tick
  <2>1. /\ now < LimitHorizon /\ now' = now + 1 /\ UNCHANGED <<key, lPc, seen, ends, lAt>>
        /\ \A r \in Callers : lPc[r] # "counting"
        /\ UNCHANGED <<Passers, Opens, Full, Redis!Absent>> /\ Redis!TypeOK
    BY <1>2 DEF Memory!Tick, Passers, Opens, Full, Redis!Absent, MemoryInv
  <2>2. now \in Nat /\ Window \in Nat /\ LimitHorizon \in Nat
        /\ \A r \in Passers : lAt[r] \in Int /\ lAt[r] <= now
    BY <2>1, LimitNumbers DEF Passers
  <2>3. Redis!TypeOK'
    <3>1. \A k : k \in Window..now + Window => k \in Window..now' + Window
      BY <2>1, <2>2
    <3>2. (\A k : k \in -1..now => k \in -1..now') /\ now' \in 0..LimitHorizon
      BY <2>1, <2>2
    <3> QED BY <2>1, <3>1, <3>2 DEF Redis!TypeOK
  <2>4. \A r \in Passers : lAt[r] >= 0 /\ lAt[r] < IF key = Redis!Absent THEN now' ELSE key.ends
    BY <2>1, <2>2 DEF MemoryInv
  <2> QED BY <2>1, <2>3, <2>4 DEF MemoryInv
<1>3. ASSUME NEW r \in Callers,
             Memory!Incr(r) \/ Memory!IncrUnanswered(r) \/ Memory!StoreFails(r)
      PROVE  FALSE
  BY <1>3 DEF Memory!Incr, Memory!IncrUnanswered, Memory!Counted, Memory!StoreFails
<1> QED BY <1>1, <1>2, <1>3, MemoryGets, MemorySets DEF Memory!Next

\* What the checked properties say of both.
LEMMA LimitHolds ==
  ASSUME RedisInv \/ MemoryInv, Redis!LimitAssumption
  PROVE  Redis!TypeOK /\ Redis!WindowIsBounded
<1>1. Redis!TypeOK
  BY DEF RedisInv, MemoryInv
<1>2. Redis!WindowIsBounded <=> Counting(Passers, lAt, Opens, key.ends - 1) <= Limit
  <2>1. Redis!Taken(key.ends - Window, key.ends - 1) = During(Passers, lAt, Opens, key.ends - 1)
    BY DEF Redis!Taken, During, Passers, Opens
  <2> QED BY <2>1, SameCount DEF Redis!WindowIsBounded, Counting
<1>3. CASE key = Redis!Absent
  <2>1. During(Passers, lAt, Opens, key.ends - 1) = {}
    <3>1. \A p \in Passers : lAt[p] \in Int /\ lAt[p] >= 0
      BY <1>1, <1>3, LimitNumbers DEF RedisInv, MemoryInv, Passers
    <3> QED BY <1>1, <1>3, <3>1, LimitNumbers DEF During
  <2>2. Counting(Passers, lAt, Opens, key.ends - 1) = 0
    BY <2>1, EmptyCount DEF Counting
  <2> QED BY <1>1, <1>2, <2>2, LimitNumbers
<1>4. CASE key # Redis!Absent
  <2>1. Counting(Passers, lAt, Opens, key.ends - 1) <= Full
    <3>1. CASE MemoryInv
      BY <1>4, <3>1 DEF MemoryInv
    <3>2. CASE RedisInv
      <4>1. Counting(Passers, lAt, Opens, key.ends - 1) = Full
        BY <1>4, <3>2 DEF RedisInv
      <4> QED BY <1>1, <4>1, LimitNumbers DEF Full
    <3> QED BY <3>1, <3>2
  <2>2. Counting(Passers, lAt, Opens, key.ends - 1) \in Nat
    BY <1>1, LimitNumbers, FiniteCount
  <2>3. Counting(Passers, lAt, Opens, key.ends - 1) <= Limit
    BY <1>1, <2>1, <2>2, LimitNumbers DEF Full
  <2> QED BY <1>1, <1>2, <2>3
<1> QED BY <1>1, <1>3, <1>4

LEMMA RedisHolds ==
  ASSUME RedisInv PROVE Redis!BurstIsBounded /\ Redis!LimitedOnlyWhenFull
<1>1. \A from, to : Redis!Cardinality(Redis!Taken(from, to)) = Counting(Passers, lAt, from, to)
  <2>1. \A from, to : Redis!Taken(from, to) = During(Passers, lAt, from, to)
    BY DEF Redis!Taken, During, Passers
  <2> QED BY <2>1, SameCount DEF Counting
<1>2. Redis!BurstIsBounded
  BY <1>1 DEF Redis!BurstIsBounded, RedisInv, Burst
<1>3. Redis!LimitedOnlyWhenFull
  BY <1>1 DEF Redis!LimitedOnlyWhenFull, RedisInv, Filled
<1> QED BY <1>2, <1>3
-------------------------------------------------------------------------------
(* Favorites: the answers account for the row. *)

Created == {a \in Adds : fReply[a] = 201}
Taken   == {d \in Removes : fReply[d] = 200}
Balance == Cardinality(Created) = rows + Cardinality(Taken)

\* A request has an answer when it is done; one that removes is done in one step.
Answered ==
    /\ \A r \in List!Requests : fReply[r] # 0 => fPc[r] = "done"
    /\ \A r \in Removes : fPc[r] \in {"idle", "done"}

ListInv == List!TypeOK /\ Answered /\ Balance /\ List!AddTakesEffect

\* The two databases differ in the answer to a conflict.
LEMMA SameList ==
  ASSUME NEW r
  PROVE  /\ LiveList!Requests = List!Requests
         /\ LiveList!AddRead(r) => List!AddRead(r)
         /\ LiveList!AddInsert(r) => List!AddInsert(r)
         /\ LiveList!AddConflicts(r) => List!AddConflicts(r)
         /\ LiveList!Remove(r) => List!Remove(r)
BY DEF LiveList!Requests, List!Requests, LiveList!AddRead, List!AddRead,
   LiveList!AddInsert, List!AddInsert, LiveList!AddConflicts, List!AddConflicts,
   LiveList!Remove, List!Remove, LiveList!Duplicate, List!Duplicate,
   LiveList!Answer, List!Answer, LiveList!Goto, List!Goto

LEMMA ListInit ==
  ASSUME List!Init, List!FavoritesAssumption PROVE ListInv /\ List!AddingIsIdempotent
<1> USE DEF List!Init, List!FavoritesAssumption, List!Requests
<1>1. List!TypeOK /\ Answered /\ List!AddTakesEffect /\ List!AddingIsIdempotent
  BY DEF List!TypeOK, Answered, List!AddTakesEffect, List!AddingIsIdempotent
<1>2. Created = {} /\ Taken = {}
  BY DEF Created, Taken
<1> QED BY <1>1, <1>2, FS_EmptySet DEF ListInv, Balance

LEMMA ListKeeps ==
  ASSUME ListInv, List!FavoritesAssumption,
         List!Next \/ LiveList!Next \/ UNCHANGED listed
  PROVE  ListInv'
<1> USE DEF List!Requests
<1>1. /\ rows \in 0..1 /\ Adds \cap Removes = {}
      /\ fPc \in [List!Requests -> {"idle", "insert", "conflict", "done"}]
      /\ fReply \in [List!Requests -> {0, 200, 201, 404, 500}]
  BY DEF ListInv, List!TypeOK, List!FavoritesAssumption
<1>2. IsFiniteSet(Created) /\ IsFiniteSet(Taken)
  <2>1. IsFiniteSet(List!Requests)
    BY SameFinite DEF List!FavoritesAssumption
  <2> QED BY <2>1, FS_Subset DEF Created, Taken
<1>3. Cardinality(Created) \in Nat /\ Cardinality(Taken) \in Nat
  BY <1>2, FS_CardinalityType
\* A step that answers nothing.
<1>4. ASSUME UNCHANGED <<rows, fReply>>,
             fPc' \in [List!Requests -> {"idle", "insert", "conflict", "done"}],
             \A r \in List!Requests : fPc[r] = "done" <=> fPc'[r] = "done",
             \A r \in Removes : fPc'[r] \in {"idle", "done"},
             rows = 1 \/ \A r \in Adds : fPc'[r] = "conflict" => fPc[r] = "conflict"
      PROVE  ListInv'
  <2>1. Created' = Created /\ Taken' = Taken
    BY <1>4 DEF Created, Taken
  <2>2. List!AddTakesEffect'
    <3> SUFFICES ASSUME NEW a \in Adds, fPc'[a] \in {"conflict", "done"}, rows # 1
                 PROVE  \E d \in Removes : fReply[d] = 200
      BY <1>4 DEF List!AddTakesEffect
    <3>1. fPc[a] \in {"conflict", "done"}
      BY <1>4
    <3> QED BY <3>1 DEF ListInv, List!AddTakesEffect
  <2> QED BY <1>4, <2>1, <2>2 DEF ListInv, List!TypeOK, Answered, Balance
\* A step that answers a request.
<1>5. ASSUME NEW r \in List!Requests, NEW code \in {200, 201, 404, 500}, List!Answer(r, code),
             fPc[r] # "done"
      PROVE  /\ fPc' = [fPc EXCEPT ![r] = "done"] /\ fReply' = [fReply EXCEPT ![r] = code]
             /\ fReply[r] = 0 /\ Answered'
             /\ fPc' \in [List!Requests -> {"idle", "insert", "conflict", "done"}]
             /\ fReply' \in [List!Requests -> {0, 200, 201, 404, 500}]
  BY <1>1, <1>5 DEF List!Answer, List!Goto, ListInv, Answered
<1>6. CASE UNCHANGED listed
  BY <1>1, <1>4, <1>6 DEF listed, ListInv, Answered
<1>7. ASSUME NEW r \in List!Requests, List!AddRead(r) PROVE ListInv'
  BY <1>1, <1>4, <1>7 DEF List!AddRead, List!Goto, ListInv, Answered
<1>8. ASSUME NEW r \in List!Requests, List!AddConflicts(r) PROVE ListInv'
  BY <1>1, <1>4, <1>8 DEF List!AddConflicts, List!Duplicate, List!Goto, ListInv, Answered
<1>9. ASSUME NEW r \in List!Requests, List!AddInsert(r) PROVE ListInv'
  <2>1. /\ rows = 0 /\ rows' = 1 /\ r \in Adds /\ List!Answer(r, 201) /\ fPc[r] # "done"
    BY <1>1, <1>9 DEF List!AddInsert, List!Duplicate, ListInv, Answered
  <2>2. Created' = Created \cup {r} /\ r \notin Created /\ Taken' = Taken
    BY <1>1, <1>5, <2>1 DEF Created, Taken
  <2>3. Balance'
    <3>1. Cardinality(Created') = Cardinality(Created) + 1
      BY <1>2, <2>2, FS_AddElement
    <3>2. Cardinality(Taken') = Cardinality(Taken) /\ Cardinality(Created) = Cardinality(Taken)
      BY <1>3, <2>1, <2>2 DEF Balance, ListInv
    <3> QED BY <1>3, <2>1, <3>1, <3>2 DEF Balance
  <2>4. List!AddTakesEffect'
    BY <2>1 DEF List!AddTakesEffect
  <2> QED BY <1>5, <2>1, <2>3, <2>4 DEF ListInv, List!TypeOK
<1>10. ASSUME NEW r \in List!Requests, List!Conflict(r) \/ LiveList!Conflict(r)
       PROVE  ListInv'
  <2>1. PICK code \in {200, 500} :
          rows' = rows /\ r \in Adds /\ List!Answer(r, code) /\ fPc[r] = "conflict"
    BY <1>1, <1>10 DEF List!Conflict, LiveList!Conflict, List!Recognised,
       LiveList!Recognised, List!Answer, LiveList!Answer, List!Goto, LiveList!Goto,
       ListInv, Answered
  <2>2. Created' = Created /\ Taken' = Taken
    BY <1>1, <1>5, <2>1 DEF Created, Taken
  <2>3. List!AddTakesEffect'
    <3>1. rows = 1 \/ \E d \in Removes : fReply[d] = 200
      BY <2>1 DEF List!AddTakesEffect, ListInv
    <3>2. \A d \in Removes : fReply'[d] = fReply[d]
      BY <1>1, <1>5, <2>1
    <3> QED BY <2>1, <3>1, <3>2 DEF List!AddTakesEffect
  <2> QED BY <1>1, <1>5, <2>1, <2>2, <2>3 DEF ListInv, List!TypeOK, Balance
<1>11. ASSUME NEW r \in List!Requests, List!Remove(r) PROVE ListInv'
  <2> DEFINE code == IF rows > 0 THEN 200 ELSE 404
  <2>1. rows' = 0 /\ r \in Removes /\ r \notin Adds /\ List!Answer(r, code) /\ fPc[r] # "done"
    BY <1>1, <1>11 DEF List!Remove
  <2>2. code \in {200, 201, 404, 500} /\ (code = 200 <=> rows = 1) /\ (rows = 0 \/ rows = 1)
    BY <1>1
  <2> HIDE DEF code
  <2>3. Created' = Created /\ Taken' = (IF rows = 1 THEN Taken \cup {r} ELSE Taken) /\ r \notin Taken
    BY <1>1, <1>5, <2>1, <2>2 DEF Created, Taken
  <2>4. Balance'
    <3>1. CASE rows = 1
      <4>1. Cardinality(Taken') = Cardinality(Taken) + 1
        BY <1>2, <2>3, <3>1, FS_AddElement
      <4>2. Cardinality(Created') = Cardinality(Created)
            /\ Cardinality(Created) = 1 + Cardinality(Taken)
        BY <2>3, <3>1 DEF Balance, ListInv
      <4> QED BY <1>3, <2>1, <4>1, <4>2 DEF Balance
    <3>2. CASE rows = 0
      BY <1>3, <2>1, <2>3, <3>2 DEF Balance, ListInv
    <3> QED BY <2>2, <3>1, <3>2
  <2>5. List!AddTakesEffect'
    <3>1. CASE rows = 1
      <4>1. fReply'[r] = 200
        BY <1>1, <1>5, <2>1, <2>2, <3>1
      <4> QED BY <2>1, <4>1 DEF List!AddTakesEffect
    <3>2. CASE rows = 0
      <4>1. \A a \in Adds : fPc'[a] = fPc[a]
        BY <1>1, <1>5, <2>1, <2>2
      <4>2. \A d \in Removes : fReply[d] = 200 => fReply'[d] = 200
        BY <1>1, <1>5, <2>1, <2>2
      <4> QED BY <3>2, <4>1, <4>2 DEF List!AddTakesEffect, ListInv
    <3> QED BY <2>2, <3>1, <3>2
  <2> QED BY <1>5, <2>1, <2>2, <2>4, <2>5 DEF ListInv, List!TypeOK
<1>12. CASE List!Next
  BY <1>7, <1>8, <1>9, <1>10, <1>11, <1>12 DEF List!Next
<1>13. CASE LiveList!Next
  <2>1. PICK r \in List!Requests :
          \/ LiveList!AddRead(r) \/ LiveList!AddInsert(r) \/ LiveList!AddConflicts(r)
          \/ LiveList!Conflict(r) \/ LiveList!Remove(r)
    BY <1>13, SameList DEF LiveList!Next
  <2> QED BY <2>1, SameList, <1>7, <1>8, <1>9, <1>10, <1>11
<1> QED BY <1>6, <1>12, <1>13

\* SQLite's conflict is recognised.
LEMMA ListIdempotent ==
  ASSUME ListInv, List!FavoritesAssumption, List!AddingIsIdempotent,
         List!Next \/ UNCHANGED listed
  PROVE  List!AddingIsIdempotent'
<1> USE DEF List!Requests, List!AddingIsIdempotent
<1>1. /\ Adds \cap Removes = {}
      /\ fPc \in [List!Requests -> {"idle", "insert", "conflict", "done"}]
      /\ fReply \in [List!Requests -> {0, 200, 201, 404, 500}]
  BY DEF ListInv, List!TypeOK, List!FavoritesAssumption
<1>2. CASE UNCHANGED listed
  BY <1>2 DEF listed
<1>3. ASSUME NEW r \in List!Requests, List!AddRead(r) \/ List!AddConflicts(r)
      PROVE  List!AddingIsIdempotent'
  BY <1>1, <1>3 DEF List!AddRead, List!AddConflicts, List!Goto
<1>4. ASSUME NEW r \in List!Requests, NEW code \in {200, 201, 404}, List!Answer(r, code),
             r \in Adds => code # 404
      PROVE  List!AddingIsIdempotent'
  BY <1>1, <1>4 DEF List!Answer, List!Goto
<1>5. ASSUME NEW r \in List!Requests, List!AddInsert(r) PROVE List!AddingIsIdempotent'
  BY <1>4, <1>5 DEF List!AddInsert
<1>6. ASSUME NEW r \in List!Requests, List!Conflict(r) PROVE List!AddingIsIdempotent'
  BY <1>4, <1>6 DEF List!Conflict, List!Recognised
<1>7. ASSUME NEW r \in List!Requests, List!Remove(r) PROVE List!AddingIsIdempotent'
  BY <1>1, <1>4, <1>7 DEF List!Remove
<1> QED BY <1>2, <1>3, <1>5, <1>6, <1>7 DEF List!Next
-------------------------------------------------------------------------------
(* DeviceStore: what the requests on their way are. *)

CloudCalls == [op : {"get", "set"}, value : SUBSET Items]

\* The next request asks CloudStorage for the value.
Gets(q) == q # << >> /\ q[1].op = "get"
Waits(q, a) == a # {} \/ Gets(q)
AllSet(q) == \A k \in 1..Len(q) : q[k].op = "set"

\* It is asked at most once, first of all; n is the number of taps.
Queued(q, a, n) ==
    /\ q \in Seq(CloudCalls)
    /\ \A k \in 2..Len(q) : q[k].op = "set"
    /\ Gets(q) => q[1] = Device!Get /\ a = {}
    /\ Len(q) <= (IF Waits(q, a) THEN 2 ELSE 3) + n

DeviceTyped ==
    /\ hook \in {"favorites", "preferences"}
    /\ cloud \in SUBSET SUBSET Items
    /\ local \in [Devices -> SUBSET Items]
    /\ open \in SUBSET Devices
    /\ shown \in [Devices -> SUBSET Items]
    /\ answer \in [Devices -> SUBSET SUBSET Items]
    /\ requests \in [Devices -> Seq(CloudCalls)]
    /\ wanted \in SUBSET Items
    /\ taps \in Nat /\ taps <= MaxTaps
    /\ faults \in Nat /\ faults <= MaxFaults
    /\ erased \in SUBSET Devices

DeviceInv ==
    /\ DeviceTyped
    /\ \A d \in Devices : Queued(requests[d], answer[d], taps)
    /\ \A d \in Devices : d \notin open => answer[d] = {} /\ requests[d] = << >>

\* What a queue is after a step.
LEMMA Asks ==
  ASSUME NEW v \in SUBSET Items, NEW n \in Nat, hook \in {"favorites", "preferences"}
  PROVE  /\ Queued(Device!FirstRequests(v), {}, n)
         /\ Gets(Device!FirstRequests(v))
         /\ Device!FirstRequests(v)[1] = Device!Get
         /\ hook = "favorites" => Len(Device!FirstRequests(v)) = 1
         /\ hook = "preferences" => /\ Len(Device!FirstRequests(v)) = 2
                                    /\ Device!FirstRequests(v)[2] = Device!SetTo(v)
<1>1. Device!Get \in CloudCalls /\ Device!SetTo(v) \in CloudCalls /\ {} \in SUBSET Items
  BY DEF Device!Get, Device!SetTo, CloudCalls
<1>2. Device!Get.op = "get" /\ Device!SetTo(v).op = "set"
  BY DEF Device!Get, Device!SetTo
<1>3. CASE hook = "favorites"
  <2> DEFINE q == <<Device!Get>>
  <2>1. q \in Seq(CloudCalls) /\ Len(q) = 1 /\ q[1] = Device!Get /\ q # << >>
    BY <1>1
  <2>2. Device!FirstRequests(v) = q
    BY <1>3 DEF Device!FirstRequests
  <2> HIDE DEF q
  <2>3. Gets(q) /\ \A k \in 2..Len(q) : q[k].op = "set"
    BY <1>2, <2>1 DEF Gets
  <2>4. Queued(q, {}, n)
    BY <2>1, <2>3 DEF Queued, Waits
  <2> QED BY <1>3, <2>1, <2>2, <2>3, <2>4
<1>4. CASE hook = "preferences"
  <2> DEFINE q == <<Device!Get, Device!SetTo(v)>>
  <2>1. q \in Seq(CloudCalls) /\ Len(q) = 2 /\ q[1] = Device!Get /\ q[2] = Device!SetTo(v)
        /\ q # << >>
    BY <1>1
  <2>2. Device!FirstRequests(v) = q
    BY <1>4 DEF Device!FirstRequests
  <2> HIDE DEF q
  <2>3. Gets(q) /\ \A k \in 2..Len(q) : q[k].op = "set"
    BY <1>2, <2>1 DEF Gets
  <2>4. Queued(q, {}, n)
    BY <2>1, <2>3 DEF Queued, Waits
  <2> QED BY <1>4, <2>1, <2>2, <2>3, <2>4
<1> QED BY <1>3, <1>4

LEMMA Nothing ==
  ASSUME NEW n \in Nat PROVE Queued(<< >>, {}, n)
<1>1. << >> \in Seq(CloudCalls) /\ Len(<< >>) = 0
  BY EmptySeq
<1> QED BY <1>1 DEF Queued, Gets, Waits

LEMMA Serves ==
  ASSUME NEW q \in Seq(CloudCalls), q # << >>, NEW a, NEW n \in Nat, Queued(q, a, n)
  PROVE  /\ Head(q) = q[1] /\ Head(q) \in CloudCalls /\ Tail(q) \in Seq(CloudCalls)
         /\ AllSet(Tail(q))
         /\ \A c : c = a \/ Gets(q) => Queued(Tail(q), c, n)
         /\ Tail(q) = << >> => Head(q) = q[Len(q)]
         /\ Tail(q) # << >> => Tail(q)[Len(Tail(q))] = q[Len(q)]
<1>1. /\ Head(q) = q[1] /\ Head(q) \in CloudCalls /\ Tail(q) \in Seq(CloudCalls)
      /\ Len(Tail(q)) = Len(q) - 1 /\ \A k \in 1..Len(Tail(q)) : Tail(q)[k] = q[k + 1]
      /\ Len(q) \in Nat /\ Len(q) >= 1 /\ Len(Tail(q)) \in Nat
      /\ Tail(q) # << >> => Len(Tail(q)) >= 1
      /\ Tail(q) = << >> => Len(Tail(q)) = 0
  <2>1. Len(q) \in Nat \ {0} /\ Head(q) = q[1]
    BY EmptySeq
  <2>2. /\ Head(q) \in CloudCalls /\ Tail(q) \in Seq(CloudCalls) /\ Len(Tail(q)) = Len(q) - 1
        /\ \A k \in 1..Len(Tail(q)) : Tail(q)[k] = q[k + 1]
    BY HeadTailProperties
  <2>3. /\ Len(Tail(q)) \in Nat /\ (Tail(q) # << >> => Len(Tail(q)) \in Nat \ {0})
        /\ (Tail(q) = << >> => Len(Tail(q)) = 0)
    BY <2>2, EmptySeq, LenProperties
  <2> QED BY <2>1, <2>2, <2>3
<1> DEFINE t == Tail(q)
<1> HIDE DEF t
<1>2. ASSUME NEW k \in 1..Len(t) PROVE t[k].op = "set"
  <2>1. k + 1 \in 2..Len(q) /\ t[k] = q[k + 1]
    BY <1>1 DEF t
  <2> QED BY <2>1 DEF Queued
<1>3. ~Gets(t)
  <2>1. t # << >> => 1 \in 1..Len(t)
    BY <1>1 DEF t
  <2> QED BY <1>2, <2>1 DEF Gets
<1>4. ASSUME NEW c, c = a \/ Gets(q) PROVE Queued(t, c, n)
  <2>1. \A k \in 2..Len(t) : t[k].op = "set"
    BY <1>1, <1>2 DEF t
  <2>2. Len(t) <= 2 + n
    BY <1>1 DEF Queued, t
  <2>3. CASE Gets(q)
    <3>1. Len(t) <= 1 + n
      BY <1>1, <2>3 DEF Queued, Waits, t
    <3> QED BY <1>1, <1>3, <2>1, <3>1 DEF Queued, Waits, t
  <2>4. CASE c = a
    <3>1. a # {} => Len(t) <= 1 + n
      BY <1>1 DEF Queued, Waits, t
    <3> QED BY <1>1, <1>3, <2>1, <2>2, <2>4, <3>1 DEF Queued, Waits, t
  <2> QED BY <1>4, <2>3, <2>4
<1>5. t # << >> => t[Len(t)] = q[Len(q)]
  <2>1. t # << >> => Len(t) \in 1..Len(t) /\ Len(t) + 1 = Len(q)
    BY <1>1 DEF t
  <2> QED BY <1>1, <2>1 DEF t
<1>6. t = << >> => Head(q) = q[Len(q)]
  BY <1>1 DEF t
<1> QED BY <1>1, <1>2, <1>4, <1>5, <1>6 DEF AllSet, t

LEMMA Sets ==
  ASSUME NEW q \in Seq(CloudCalls), NEW a, NEW n \in Nat, Queued(q, a, n), NEW v \in SUBSET Items
  PROVE  /\ Append(q, Device!SetTo(v)) \in Seq(CloudCalls)
         /\ Queued(Append(q, Device!SetTo(v)), a, n + 1)
         /\ a # {} => Queued(Append(q, Device!SetTo(v)), {}, n)
         /\ AllSet(q) => AllSet(Append(q, Device!SetTo(v)))
         /\ Append(q, Device!SetTo(v)) # << >>
         /\ Append(q, Device!SetTo(v))[Len(Append(q, Device!SetTo(v)))] = Device!SetTo(v)
<1> DEFINE s == Device!SetTo(v)
           t == Append(q, s)
<1>1. s \in CloudCalls /\ s.op = "set"
  BY DEF Device!SetTo, CloudCalls
<1> HIDE DEF s
<1>2. /\ t \in Seq(CloudCalls) /\ t # << >> /\ Len(t) = Len(q) + 1 /\ Len(q) \in Nat
      /\ t[Len(t)] = s /\ \A k \in 1..Len(q) : t[k] = q[k]
      /\ q # << >> => Len(q) >= 1
      /\ q = << >> => Len(q) = 0
  BY <1>1, AppendProperties, EmptySeq, LenProperties
<1> HIDE DEF t
<1>3. \A k \in 2..Len(t) : t[k].op = "set"
  <2>1. \A k \in 2..Len(t) : k \in 2..Len(q) \/ k = Len(t)
    BY <1>2
  <2>2. \A k \in 2..Len(q) : k \in 1..Len(q)
    BY <1>2
  <2> QED BY <1>1, <1>2, <2>1, <2>2 DEF Queued
<1>4. Gets(t) <=> Gets(q)
  <2>1. q # << >> => 1 \in 1..Len(q)
    BY <1>2
  <2>2. q = << >> => t[1] = s
    BY <1>2
  <2> QED BY <1>1, <1>2, <2>1, <2>2 DEF Gets
<1>5. Gets(q) => t[1] = Device!Get /\ a = {}
  <2>1. q # << >> => 1 \in 1..Len(q)
    BY <1>2
  <2> QED BY <1>2, <2>1 DEF Gets, Queued
<1>6. Queued(t, a, n + 1)
  BY <1>2, <1>3, <1>4, <1>5 DEF Queued, Waits
<1>7. a # {} => Queued(t, {}, n)
  BY <1>2, <1>3, <1>4, <1>5 DEF Queued, Waits
<1>8. AllSet(q) => AllSet(t)
  <2>1. \A k \in 1..Len(t) : k \in 1..Len(q) \/ k = Len(t)
    BY <1>2
  <2> QED BY <1>1, <1>2, <2>1 DEF AllSet
<1> QED BY <1>2, <1>6, <1>7, <1>8 DEF t, s

LEMMA DeviceInit == ASSUME Device!Init, Device!DeviceAssumption PROVE DeviceInv
<1> USE DEF Device!Init, Device!DeviceAssumption
<1>1. << >> \in Seq(CloudCalls) /\ Queued(<< >>, {}, 0)
  BY EmptySeq, Nothing
<1> QED BY <1>1 DEF DeviceInv, DeviceTyped

\* The step of one device, and what the types ask of it.
Alone(d) ==
    /\ requests' = [requests EXCEPT ![d] = requests'[d]]
    /\ answer' = [answer EXCEPT ![d] = answer'[d]]

Fits(d) ==
    /\ answer'[d] \in SUBSET SUBSET Items
    /\ d \notin open' => answer'[d] = {} /\ requests'[d] = << >>
    /\ \A e \in Devices : e # d => (e \in open' <=> e \in open)
    /\ hook' = hook
    /\ taps' \in Nat /\ taps <= taps' /\ taps' <= MaxTaps
    /\ faults' \in Nat /\ faults' <= MaxFaults
    /\ cloud' \in SUBSET SUBSET Items
    /\ local' \in [Devices -> SUBSET Items] /\ shown' \in [Devices -> SUBSET Items]
    /\ open' \in SUBSET Devices /\ wanted' \in SUBSET Items /\ erased' \in SUBSET Devices

LEMMA OneDevice ==
  ASSUME DeviceInv, NEW d \in Devices, Alone(d), Fits(d), Queued(requests'[d], answer'[d], taps')
  PROVE  DeviceInv'
<1>1. requests'[d] \in Seq(CloudCalls)
  BY DEF Queued
<1>2. /\ requests' \in [Devices -> Seq(CloudCalls)]
      /\ answer' \in [Devices -> SUBSET SUBSET Items]
      /\ \A e \in Devices : e # d => requests'[e] = requests[e] /\ answer'[e] = answer[e]
  BY <1>1 DEF DeviceInv, DeviceTyped, Alone, Fits
<1>3. DeviceTyped'
  BY <1>2 DEF DeviceInv, DeviceTyped, Alone, Fits
<1>4. ASSUME NEW e \in Devices PROVE Queued(requests'[e], answer'[e], taps')
  <2>1. CASE e = d
    BY <2>1
  <2>2. CASE e # d
    <3>1. Queued(requests[e], answer[e], taps) /\ taps \in Nat
      BY DEF DeviceInv, DeviceTyped
    <3>2. Len(requests[e]) \in Nat
      BY <3>1, LenProperties DEF Queued
    <3>3. taps' \in Nat /\ taps <= taps'
      BY DEF Fits
    <3> QED BY <1>2, <2>2, <3>1, <3>2, <3>3 DEF Queued
  <2> QED BY <2>1, <2>2
<1>5. \A e \in Devices : e \notin open' => answer'[e] = {} /\ requests'[e] = << >>
  BY <1>2 DEF DeviceInv, Fits
<1> QED BY <1>3, <1>4, <1>5 DEF DeviceInv

LEMMA Replaced ==
  ASSUME DeviceInv, NEW d \in Devices, NEW q
  PROVE  [requests EXCEPT ![d] = q][d] = q /\ [answer EXCEPT ![d] = q][d] = q
         /\ [answer EXCEPT ![d] = answer[d]] = answer
         /\ [requests EXCEPT ![d] = requests[d]] = requests
BY DEF DeviceInv, DeviceTyped

LEMMA DeviceNumbers ==
  ASSUME DeviceInv, NEW d \in Devices
  PROVE  /\ taps \in Nat /\ taps <= MaxTaps /\ faults \in Nat /\ faults <= MaxFaults
         /\ requests[d] \in Seq(CloudCalls) /\ answer[d] \in SUBSET SUBSET Items
         /\ Queued(requests[d], answer[d], taps)
         /\ hook \in {"favorites", "preferences"} /\ cloud \in SUBSET SUBSET Items
         /\ local \in [Devices -> SUBSET Items] /\ shown \in [Devices -> SUBSET Items]
         /\ open \in SUBSET Devices /\ wanted \in SUBSET Items /\ erased \in SUBSET Devices
BY DEF DeviceInv, DeviceTyped

LEMMA OpensAndCloses ==
  ASSUME DeviceInv, NEW d \in Devices,
         Device!Open(d) \/ Device!Close(d) \/ Device!Erase(d)
  PROVE  DeviceInv'
<1>0. /\ taps \in Nat /\ taps <= MaxTaps /\ faults \in Nat /\ faults <= MaxFaults
      /\ requests[d] \in Seq(CloudCalls) /\ answer[d] \in SUBSET SUBSET Items
      /\ Queued(requests[d], answer[d], taps)
      /\ hook \in {"favorites", "preferences"} /\ cloud \in SUBSET SUBSET Items
      /\ local \in [Devices -> SUBSET Items] /\ shown \in [Devices -> SUBSET Items]
      /\ open \in SUBSET Devices /\ wanted \in SUBSET Items /\ erased \in SUBSET Devices
      /\ {} \in SUBSET SUBSET Items
  BY DeviceNumbers
<1> USE <1>0
<1>1. CASE Device!Open(d)
  <2>1. /\ requests' = [requests EXCEPT ![d] = Device!FirstRequests(local[d])]
        /\ answer' = [answer EXCEPT ![d] = {}] /\ open' = open \cup {d}
        /\ shown' = [shown EXCEPT ![d] = local[d]] /\ shown' \in [Devices -> SUBSET Items]
        /\ UNCHANGED <<hook, cloud, local, wanted, taps, faults, erased>>
    BY <1>1 DEF Device!Open, Device!Mount
  <2>2. Queued(Device!FirstRequests(local[d]), {}, taps)
    BY Asks
  <2>3. requests'[d] = Device!FirstRequests(local[d]) /\ answer'[d] = {} /\ d \in open'
    BY <2>1, Replaced
  <2>4. Alone(d) /\ Fits(d)
    <3>1. Alone(d)
      BY <2>1, <2>3 DEF Alone
    <3>2. Fits(d)
      BY <2>1, <2>3 DEF Fits
    <3> QED BY <3>1, <3>2
  <2> QED BY <2>1, <2>2, <2>3, <2>4, OneDevice
<1>2. CASE Device!Close(d)
  <2>1. /\ requests' = [requests EXCEPT ![d] = << >>] /\ answer' = [answer EXCEPT ![d] = {}]
        /\ open' = open \ {d}
        /\ UNCHANGED <<hook, cloud, local, shown, wanted, taps, faults, erased>>
    BY <1>2 DEF Device!Close
  <2>2. requests'[d] = << >> /\ answer'[d] = {}
    BY <2>1, Replaced
  <2>3. Alone(d) /\ Fits(d)
    <3>1. Alone(d)
      BY <2>1, <2>2 DEF Alone
    <3>2. Fits(d)
      BY <2>1, <2>2 DEF Fits
    <3> QED BY <3>1, <3>2
  <2>4. Queued(<< >>, {}, taps)
    BY Nothing
  <2> QED BY <2>1, <2>2, <2>3, <2>4, OneDevice
<1>3. CASE Device!Erase(d)
  <2>1. /\ requests' = [requests EXCEPT ![d] = Device!FirstRequests({})] /\ d \in open
        /\ answer' = [answer EXCEPT ![d] = {}] /\ wanted' = {} /\ erased' = erased \cup {d}
        /\ local' \in [Devices -> SUBSET Items] /\ shown' \in [Devices -> SUBSET Items]
        /\ UNCHANGED <<hook, cloud, open, taps, faults>>
    BY <1>3 DEF Device!Erase, Device!Mount
  <2>2. Queued(Device!FirstRequests({}), {}, taps)
    BY Asks
  <2>3. requests'[d] = Device!FirstRequests({}) /\ answer'[d] = {}
    BY <2>1, Replaced
  <2>4. Alone(d) /\ Fits(d)
    <3>1. Alone(d)
      BY <2>1, <2>3 DEF Alone
    <3>2. Fits(d)
      BY <2>1, <2>3 DEF Fits
    <3> QED BY <3>1, <3>2
  <2> QED BY <2>1, <2>2, <2>3, <2>4, OneDevice
<1> QED BY <1>1, <1>2, <1>3

LEMMA ShowsAndTaps ==
  ASSUME DeviceInv, Device!DeviceAssumption, NEW d \in Devices,
         Device!Loaded(d) \/ \E x \in Items : Device!Tap(d, x)
  PROVE  DeviceInv'
<1>0. /\ taps \in Nat /\ taps <= MaxTaps /\ faults \in Nat /\ faults <= MaxFaults
      /\ requests[d] \in Seq(CloudCalls) /\ answer[d] \in SUBSET SUBSET Items
      /\ Queued(requests[d], answer[d], taps)
      /\ hook \in {"favorites", "preferences"} /\ cloud \in SUBSET SUBSET Items
      /\ local \in [Devices -> SUBSET Items] /\ shown \in [Devices -> SUBSET Items]
      /\ open \in SUBSET Devices /\ wanted \in SUBSET Items /\ erased \in SUBSET Devices
      /\ {} \in SUBSET SUBSET Items
  BY DeviceNumbers
<1> USE <1>0
<1>1. CASE Device!Loaded(d)
  <2>1. PICK v \in answer[d] :
          /\ shown' = [shown EXCEPT ![d] = v]
          /\ IF hook = "favorites" THEN UNCHANGED <<local, requests>> ELSE
              /\ local' = [local EXCEPT ![d] = v]
              /\ requests' = [requests EXCEPT ![d] = Append(@, Device!SetTo(v))]
    BY <1>1 DEF Device!Loaded
  <2>2. /\ d \in open /\ answer[d] # {} /\ answer' = [answer EXCEPT ![d] = {}]
        /\ UNCHANGED <<hook, cloud, open, wanted, taps, faults, erased>>
    BY <1>1 DEF Device!Loaded
  <2>3. v \in SUBSET Items /\ shown' \in [Devices -> SUBSET Items]
        /\ local' \in [Devices -> SUBSET Items]
    BY <2>1
  <2>4. CASE hook = "favorites"
    <3>1. requests' = [requests EXCEPT ![d] = requests[d]]
      BY <2>1, <2>4, Replaced
    <3>2. Queued(requests[d], {}, taps)
      <4>1. Queued(requests[d], answer[d], taps) /\ Len(requests[d]) \in Nat
        BY LenProperties
      <4> QED BY <2>2, <4>1 DEF Queued, Waits
    <3>3. requests'[d] = requests[d] /\ answer'[d] = {}
      BY <2>2, <3>1, Replaced
    <3>4. Alone(d) /\ Fits(d)
      <4>1. Alone(d)
        BY <2>2, <2>3, <3>1, <3>3 DEF Alone
      <4>2. Fits(d)
        BY <2>2, <2>3, <3>1, <3>3 DEF Fits
      <4> QED BY <4>1, <4>2
    <3> QED BY <2>2, <3>2, <3>3, <3>4, OneDevice
  <2>5. CASE hook # "favorites"
    <3>1. requests' = [requests EXCEPT ![d] = Append(requests[d], Device!SetTo(v))]
      BY <2>1, <2>5
    <3>2. Queued(Append(requests[d], Device!SetTo(v)), {}, taps)
      BY <2>2, <2>3, Sets
    <3>3. requests'[d] = Append(requests[d], Device!SetTo(v)) /\ answer'[d] = {}
      BY <2>2, <3>1, Replaced
    <3>4. Alone(d) /\ Fits(d)
      <4>1. Alone(d)
        BY <2>2, <2>3, <3>1, <3>3 DEF Alone
      <4>2. Fits(d)
        BY <2>2, <2>3, <3>1, <3>3 DEF Fits
      <4> QED BY <4>1, <4>2
    <3> QED BY <2>2, <3>2, <3>3, <3>4, OneDevice
  <2> QED BY <2>4, <2>5
<1>2. ASSUME NEW x \in Items, Device!Tap(d, x) PROVE DeviceInv'
  <2> DEFINE v == Device!Flip(shown[d], x)
  <2>1. v \in SUBSET Items
    BY DEF Device!Flip
  <2>2. /\ shown' = [shown EXCEPT ![d] = v] /\ d \in open /\ taps < MaxTaps /\ taps' = taps + 1
        /\ local' = [local EXCEPT ![d] = shown'[d]]
        /\ requests' = [requests EXCEPT ![d] = Append(@, Device!SetTo(shown'[d]))]
        /\ wanted' \in SUBSET Items /\ erased' = {}
        /\ UNCHANGED <<hook, cloud, open, answer, faults>>
    BY <1>2 DEF Device!Tap, Device!Changed
  <2> HIDE DEF v
  <2>3. shown'[d] = v /\ shown' \in [Devices -> SUBSET Items]
        /\ local' \in [Devices -> SUBSET Items]
    BY <2>1, <2>2
  <2>4. requests' = [requests EXCEPT ![d] = Append(requests[d], Device!SetTo(v))]
    BY <2>2, <2>3
  <2>5. answer' = [answer EXCEPT ![d] = answer[d]]
    BY <2>2, Replaced
  <2>6. MaxTaps \in Nat /\ taps' \in Nat /\ taps <= taps' /\ taps' <= MaxTaps
    BY <2>2 DEF Device!DeviceAssumption
  <2>7. Queued(Append(requests[d], Device!SetTo(v)), answer[d], taps')
    BY <2>1, <2>2, Sets
  <2>8. requests'[d] = Append(requests[d], Device!SetTo(v)) /\ answer'[d] = answer[d]
    BY <2>2, <2>4, Replaced
  <2>9. Alone(d) /\ Fits(d)
    <3>1. Alone(d)
      BY <2>2, <2>3, <2>4, <2>5, <2>6, <2>8 DEF Alone
    <3>2. Fits(d)
      BY <2>2, <2>3, <2>4, <2>5, <2>6, <2>8 DEF Fits
    <3> QED BY <3>1, <3>2
  <2> QED BY <2>7, <2>8, <2>9, OneDevice
<1> QED BY <1>1, <1>2

LEMMA CloudServes ==
  ASSUME DeviceInv, Device!DeviceAssumption, NEW d \in Devices,
         Device!Serve(d) \/ Device!ServeFails(d)
  PROVE  DeviceInv'
<1>0. /\ taps \in Nat /\ taps <= MaxTaps /\ faults \in Nat /\ faults <= MaxFaults
      /\ requests[d] \in Seq(CloudCalls) /\ answer[d] \in SUBSET SUBSET Items
      /\ Queued(requests[d], answer[d], taps)
      /\ hook \in {"favorites", "preferences"} /\ cloud \in SUBSET SUBSET Items
      /\ local \in [Devices -> SUBSET Items] /\ shown \in [Devices -> SUBSET Items]
      /\ open \in SUBSET Devices /\ wanted \in SUBSET Items /\ erased \in SUBSET Devices
      /\ {} \in SUBSET SUBSET Items
  BY DeviceNumbers
<1> USE <1>0
<1>1. /\ requests[d] # << >> /\ requests' = [requests EXCEPT ![d] = Tail(requests[d])]
      /\ UNCHANGED <<hook, local, open, shown, wanted, taps, erased>> /\ d \in open
  BY DEF Device!Serve, Device!ServeFails, DeviceInv
<1>2. /\ Head(requests[d]) = requests[d][1] /\ Head(requests[d]) \in CloudCalls
      /\ \A c : c = answer[d] \/ Gets(requests[d]) => Queued(Tail(requests[d]), c, taps)
  BY <1>1, Serves
<1>3. CASE Device!Serve(d)
  <2>1. CASE Head(requests[d]).op = "get"
    <3>1. answer' = [answer EXCEPT ![d] = cloud] /\ UNCHANGED <<cloud, faults>>
      BY <1>3, <2>1 DEF Device!Serve
    <3>2. Queued(Tail(requests[d]), cloud, taps)
      BY <1>1, <1>2, <2>1 DEF Gets
    <3>3. requests'[d] = Tail(requests[d]) /\ answer'[d] = cloud
      BY <1>1, <3>1, Replaced
    <3>4. Alone(d) /\ Fits(d)
      <4>1. Alone(d)
        BY <1>1, <3>1, <3>3 DEF Alone
      <4>2. Fits(d)
        BY <1>1, <3>1, <3>3 DEF Fits
      <4> QED BY <4>1, <4>2
    <3> QED BY <1>1, <3>2, <3>3, <3>4, OneDevice
  <2>2. CASE Head(requests[d]).op # "get"
    <3>1. cloud' = {Head(requests[d]).value} /\ UNCHANGED <<answer, faults>>
      BY <1>3, <2>2 DEF Device!Serve
    <3>2. cloud' \in SUBSET SUBSET Items
      BY <1>2, <3>1 DEF CloudCalls
    <3>3. answer' = [answer EXCEPT ![d] = answer[d]]
      BY <3>1, Replaced
    <3>4. requests'[d] = Tail(requests[d]) /\ answer'[d] = answer[d]
      BY <1>1, <3>1, Replaced
    <3>5. Alone(d) /\ Fits(d)
      <4>1. Alone(d)
        BY <1>1, <3>1, <3>2, <3>3, <3>4 DEF Alone
      <4>2. Fits(d)
        BY <1>1, <3>1, <3>2, <3>3, <3>4 DEF Fits
      <4> QED BY <4>1, <4>2
    <3> QED BY <1>1, <1>2, <3>4, <3>5, OneDevice
  <2> QED BY <2>1, <2>2
<1>4. CASE Device!ServeFails(d)
  <2>1. UNCHANGED <<cloud, answer>> /\ faults < MaxFaults /\ faults' = faults + 1
    BY <1>4 DEF Device!ServeFails
  <2>2. answer' = [answer EXCEPT ![d] = answer[d]]
    BY <2>1, Replaced
  <2>3. faults' \in Nat /\ faults' <= MaxFaults
    BY <2>1 DEF Device!DeviceAssumption
  <2>4. requests'[d] = Tail(requests[d]) /\ answer'[d] = answer[d]
    BY <1>1, <2>1, Replaced
  <2>5. Alone(d) /\ Fits(d)
    <3>1. Alone(d)
      BY <1>1, <2>1, <2>2, <2>3, <2>4 DEF Alone
    <3>2. Fits(d)
      BY <1>1, <2>1, <2>2, <2>3, <2>4 DEF Fits
    <3> QED BY <3>1, <3>2
  <2> QED BY <1>1, <1>2, <2>4, <2>5, OneDevice
<1> QED BY <1>3, <1>4

LEMMA DeviceKeeps ==
  ASSUME DeviceInv, Device!DeviceAssumption, Device!Next \/ UNCHANGED device PROVE DeviceInv'
<1>1. CASE UNCHANGED device
  BY <1>1 DEF device, DeviceInv, DeviceTyped
<1> QED BY <1>1, OpensAndCloses, ShowsAndTaps, CloudServes DEF Device!Next

LEMMA DeviceTypes == ASSUME DeviceInv, Device!DeviceAssumption PROVE Device!TypeOK
<1>1. ASSUME NEW d \in Devices
      PROVE  /\ Len(requests[d]) <= 3 + MaxTaps
             /\ \A i \in DOMAIN requests[d] :
                   requests[d][i] \in [op : {"get", "set"}, value : SUBSET Items]
             /\ d \notin open => Device!AtRest(d)
  <2>1. Queued(requests[d], answer[d], taps) /\ requests[d] \in Seq(CloudCalls) /\ taps \in Nat
        /\ taps <= MaxTaps
    BY DeviceNumbers
  <2>2. Len(requests[d]) \in Nat /\ DOMAIN requests[d] = 1..Len(requests[d])
        /\ MaxTaps \in Nat
    BY <2>1, LenProperties DEF Device!DeviceAssumption
  <2>3. \A i \in DOMAIN requests[d] : requests[d][i] \in CloudCalls
    BY <2>1, <2>2, ElementOfSeq
  <2>4. d \notin open => Device!AtRest(d)
    BY DEF DeviceInv, Device!AtRest
  <2> QED BY <2>1, <2>2, <2>3, <2>4 DEF Queued, CloudCalls
<1>2. taps \in 0..MaxTaps /\ faults \in 0..MaxFaults
  BY DEF DeviceInv, DeviceTyped, Device!DeviceAssumption
<1> QED BY <1>1, <1>2 DEF Device!TypeOK, DeviceInv, DeviceTyped

-------------------------------------------------------------------------------
(* Devices used in turns: the value is where the next device will find it. *)

\* CloudStorage holds what the user has chosen, or nothing yet.
Settled == cloud = {wanted} \/ (cloud = {} /\ taps = 0)

\* An open app has asked for the value; has been answered; or shows it, and
\* has stored it or is about to.
Asked(d) == requests[d] = Device!FirstRequests(shown[d]) /\ answer[d] = {} /\ Settled
Told(d)  == /\ answer[d] = {wanted}
            /\ IF hook = "favorites" THEN requests[d] = << >> /\ Settled ELSE AllSet(requests[d])
Known(d) == /\ shown[d] = wanted /\ answer[d] = {} /\ AllSet(requests[d])
            /\ IF requests[d] = << >> THEN Settled
               ELSE requests[d][Len(requests[d])] = Device!SetTo(wanted)

Current ==
    /\ \A d, e \in open : d = e
    /\ \A d \in open : Asked(d) \/ Told(d) \/ Known(d)
    /\ open = {} => Settled
    /\ taps = 0 => wanted = {} /\ \A d \in Devices : local[d] = {} /\ shown[d] = {}

LEMMA CurrentInit == ASSUME Device!Init PROVE Current
BY DEF Device!Init, Current, Settled

\* One app is open: what holds of it holds of all.
LEMMA OneIsOpen ==
  ASSUME Current, NEW d \in open, open' = open, Asked(d)' \/ Told(d)' \/ Known(d)',
         taps' = 0 => wanted' = {} /\ \A e \in Devices : local'[e] = {} /\ shown'[e] = {}
  PROVE  Current'
BY DEF Current

LEMMA EmptySets == AllSet(<< >>)
<1>1. Len(<< >>) = 0
  BY EmptySeq
<1> QED BY <1>1 DEF AllSet

LEMMA TurnOpens == ASSUME DeviceInv, Current, NEW d \in Devices, open = {}, Device!Open(d) PROVE Current'
<1>1. /\ requests' = [requests EXCEPT ![d] = Device!FirstRequests(local[d])]
      /\ answer' = [answer EXCEPT ![d] = {}] /\ open' = {d}
      /\ shown' = [shown EXCEPT ![d] = local[d]]
      /\ UNCHANGED <<hook, cloud, local, wanted, taps, faults, erased>>
  BY DEF Device!Open, Device!Mount
<1>2. /\ requests'[d] = Device!FirstRequests(local[d]) /\ answer'[d] = {}
      /\ shown'[d] = local[d] /\ \A e \in Devices : e # d => shown'[e] = shown[e]
  BY <1>1, Replaced DEF DeviceInv, DeviceTyped
<1>3. Settled /\ Settled'
  BY <1>1 DEF Current, Settled
<1>4. Asked(d)'
  BY <1>1, <1>2, <1>3 DEF Asked, Device!FirstRequests
<1> QED BY <1>1, <1>2, <1>4 DEF Current

LEMMA TurnCloses ==
  ASSUME DeviceInv, Current, NEW d \in Devices, Device!AtRest(d), Device!Close(d) PROVE Current'
<1>1. d \in open /\ open' = open \ {d} /\ UNCHANGED <<hook, cloud, local, shown, wanted, taps>>
  BY DEF Device!Close
<1>2. answer[d] = {} /\ requests[d] = << >>
  BY DEF Device!AtRest
<1>3. Settled
  BY <1>1, <1>2 DEF Current, Asked, Told, Known
<1>4. open' = {}
  BY <1>1 DEF Current
<1> QED BY <1>1, <1>3, <1>4 DEF Current, Settled

LEMMA TurnShows ==
  ASSUME DeviceInv, Current, NEW d \in Devices, Device!Loaded(d) PROVE Current'
<1>1. PICK v \in answer[d] :
        /\ shown' = [shown EXCEPT ![d] = v]
        /\ IF hook = "favorites" THEN UNCHANGED <<local, requests>> ELSE
            /\ local' = [local EXCEPT ![d] = v]
            /\ requests' = [requests EXCEPT ![d] = Append(@, Device!SetTo(v))]
  BY DEF Device!Loaded
<1>2. /\ d \in open /\ answer[d] # {} /\ answer' = [answer EXCEPT ![d] = {}]
      /\ UNCHANGED <<hook, cloud, open, wanted, taps, faults, erased>>
  BY DEF Device!Loaded
<1>3. Told(d)
  BY <1>2 DEF Current, Asked, Known
<1>4. v = wanted /\ answer'[d] = {} /\ shown'[d] = wanted
  BY <1>1, <1>2, <1>3, Replaced DEF Told, DeviceInv, DeviceTyped
<1>5. requests[d] \in Seq(CloudCalls) /\ Queued(requests[d], answer[d], taps) /\ taps \in Nat
      /\ wanted \in SUBSET Items
  BY DeviceNumbers
<1>6. Known(d)'
  <2>1. CASE hook = "favorites"
    <3>1. requests'[d] = << >> /\ Settled'
      BY <1>1, <1>2, <1>3, <2>1 DEF Told, Settled
    <3> QED BY <1>2, <1>4, <3>1, EmptySets DEF Known
  <2>2. CASE hook # "favorites"
    <3>1. requests'[d] = Append(requests[d], Device!SetTo(wanted))
      <4>1. requests' = [requests EXCEPT ![d] = Append(requests[d], Device!SetTo(wanted))]
        BY <1>1, <1>4, <2>2
      <4> QED BY <4>1, Replaced
    <3>2. AllSet(requests[d])
      BY <1>3, <2>2 DEF Told
    <3>3. AllSet(requests'[d]) /\ requests'[d] # << >>
          /\ requests'[d][Len(requests'[d])] = Device!SetTo(wanted)
      BY <1>5, <3>1, <3>2, Sets
    <3>4. Device!SetTo(wanted)' = Device!SetTo(wanted)
      BY <1>2 DEF Device!SetTo
    <3> QED BY <1>2, <1>4, <3>3, <3>4 DEF Known
  <2> QED BY <2>1, <2>2
<1>7. taps' = 0 => wanted' = {} /\ \A e \in Devices : local'[e] = {} /\ shown'[e] = {}
  <2> SUFFICES ASSUME taps = 0
               PROVE  wanted = {} /\ \A e \in Devices : local'[e] = {} /\ shown'[e] = {}
    BY <1>2
  <2>1. wanted = {} /\ v = {} /\ \A e \in Devices : local[e] = {} /\ shown[e] = {}
    BY <1>4 DEF Current
  <2>2. local \in [Devices -> SUBSET Items] /\ shown \in [Devices -> SUBSET Items]
    BY DEF DeviceInv, DeviceTyped
  <2>3. local' = local \/ local' = [local EXCEPT ![d] = v]
    BY <1>1
  <2> QED BY <1>1, <2>1, <2>2, <2>3
<1> QED BY <1>2, <1>6, <1>7, OneIsOpen

LEMMA TurnTaps ==
  ASSUME DeviceInv, Current, NEW d \in Devices, ~Device!Loading(d), NEW x \in Items,
         Device!Tap(d, x)
  PROVE  Current'
<1> DEFINE v == Device!Flip(shown[d], x)
<1>1. /\ shown' = [shown EXCEPT ![d] = v] /\ d \in open /\ taps' = taps + 1
      /\ requests' = [requests EXCEPT ![d] = Append(@, Device!SetTo(shown'[d]))]
      /\ wanted' = IF x \in shown[d] THEN wanted \ {x} ELSE wanted \cup {x}
      /\ UNCHANGED <<hook, cloud, open, answer, faults>>
  BY DEF Device!Tap, Device!Changed
<1>2. /\ requests[d] \in Seq(CloudCalls) /\ Queued(requests[d], answer[d], taps) /\ taps \in Nat
      /\ hook \in {"favorites", "preferences"} /\ wanted \in SUBSET Items
      /\ shown \in [Devices -> SUBSET Items]
  BY DeviceNumbers
<1>3. answer[d] = {} /\ ~Gets(requests[d])
  <2>1. requests[d] # << >> => 1 \in DOMAIN requests[d]
    BY <1>2, EmptySeq, LenProperties
  <2> QED BY <1>2, <2>1 DEF Device!Loading, Gets, Queued
<1>4. Known(d)
  <2>1. ~Asked(d)
    <3>1. Gets(Device!FirstRequests(shown[d]))
      BY <1>2, Asks
    <3> QED BY <1>3, <3>1 DEF Asked
  <2> QED BY <1>1, <1>3, <2>1 DEF Current, Told
<1>5. v = wanted' /\ v \in SUBSET Items
  BY <1>1, <1>2, <1>4 DEF Known, Device!Flip
<1> HIDE DEF v
<1>6. shown'[d] = v
  BY <1>1, <1>2
<1>7. requests'[d] = Append(requests[d], Device!SetTo(v))
  BY <1>1, <1>6, Replaced
<1>8. /\ AllSet(requests'[d]) /\ requests'[d] # << >>
      /\ requests'[d][Len(requests'[d])] = Device!SetTo(v)
  BY <1>2, <1>4, <1>5, <1>7, Sets DEF Known
<1>9. Device!SetTo(wanted)' = Device!SetTo(v)
  BY <1>5 DEF Device!SetTo
<1>10. Known(d)'
  BY <1>1, <1>3, <1>5, <1>6, <1>8, <1>9 DEF Known
<1>11. taps' # 0
  BY <1>1, <1>2
<1> QED BY <1>1, <1>10, <1>11, OneIsOpen

LEMMA TurnServes ==
  ASSUME DeviceInv, Current, NEW d \in Devices, Device!Serve(d) PROVE Current'
<1> DEFINE q == requests[d]
<1>1. /\ q # << >> /\ requests' = [requests EXCEPT ![d] = Tail(q)] /\ d \in open
      /\ UNCHANGED <<hook, local, open, shown, wanted, taps, faults, erased>>
  BY DEF Device!Serve, DeviceInv
<1>2. /\ q \in Seq(CloudCalls) /\ Queued(q, answer[d], taps) /\ taps \in Nat
      /\ hook \in {"favorites", "preferences"} /\ wanted \in SUBSET Items
      /\ shown[d] \in SUBSET Items
  BY DeviceNumbers DEF DeviceInv, DeviceTyped
<1>3. /\ Head(q) = q[1] /\ AllSet(Tail(q)) /\ Tail(q) \in Seq(CloudCalls)
      /\ Tail(q) = << >> => Head(q) = q[Len(q)]
      /\ Tail(q) # << >> => Tail(q)[Len(Tail(q))] = q[Len(q)]
  BY <1>1, <1>2, Serves
<1>4. requests'[d] = Tail(q)
  BY <1>1, Replaced
<1>5. taps' = 0 => wanted' = {} /\ \A e \in Devices : local'[e] = {} /\ shown'[e] = {}
  BY <1>1 DEF Current
<1>6. IF Gets(q) THEN answer' = [answer EXCEPT ![d] = cloud] /\ UNCHANGED cloud
                 ELSE cloud' = {Head(q).value} /\ UNCHANGED answer
  BY <1>1, <1>3 DEF Device!Serve, Gets
<1>7. Device!SetTo(wanted)' = Device!SetTo(wanted)
  BY <1>1 DEF Device!SetTo
<1>8. CASE Asked(d)
  <2>1. Gets(q) /\ q = Device!FirstRequests(shown[d])
        /\ (hook = "favorites" => Len(q) = 1)
        /\ (hook = "preferences" => Len(q) = 2 /\ q[2] = Device!SetTo(shown[d]))
    BY <1>2, <1>8, Asks DEF Asked
  <2>2. answer'[d] = cloud /\ UNCHANGED cloud /\ Settled /\ Settled'
    BY <1>1, <1>6, <1>8, <2>1, Replaced DEF Asked, Settled
  <2>3. hook = "favorites" => Tail(q) = << >>
    <3>1. Len(Tail(q)) = Len(q) - 1
      BY <1>1, <1>2, HeadTailProperties
    <3> QED BY <1>3, <2>1, <3>1, EmptySeq
  <2>5. Told(d)' \/ Known(d)'
    <3>1. CASE cloud = {wanted}
      <4>1. answer'[d] = {wanted'} /\ hook' = hook
        BY <1>1, <2>2, <3>1
      <4> QED BY <1>2, <1>3, <1>4, <2>2, <2>3, <4>1 DEF Told
    <3>2. CASE cloud = {} /\ taps = 0
      <4>1. wanted = {} /\ shown[d] = {}
        BY <3>2 DEF Current
      <4>2. Tail(q) # << >> => Tail(q)[Len(Tail(q))] = Device!SetTo(wanted)
        BY <1>2, <1>3, <2>1, <2>3, <4>1
      <4>3. answer'[d] = {} /\ shown'[d] = wanted'
        BY <1>1, <2>2, <3>2, <4>1
      <4> QED BY <1>3, <1>4, <1>7, <2>2, <4>2, <4>3 DEF Known
    <3> QED BY <2>2, <3>1, <3>2 DEF Settled
  <2> QED BY <1>1, <1>5, <2>5, OneIsOpen
<1>9. CASE Told(d)
  <2>1. hook # "favorites" /\ AllSet(q)
    BY <1>1, <1>9 DEF Told
  <2>2. ~Gets(q)
    <3>1. 1 \in 1..Len(q)
      BY <1>1, <1>2, EmptySeq
    <3> QED BY <2>1, <3>1 DEF Gets, AllSet
  <2>3. Told(d)'
    BY <1>1, <1>3, <1>4, <1>6, <1>9, <2>1, <2>2 DEF Told
  <2> QED BY <1>1, <1>5, <2>3, OneIsOpen
<1>10. CASE Known(d)
  <2>1. AllSet(q) /\ q[Len(q)] = Device!SetTo(wanted)
    BY <1>1, <1>10 DEF Known
  <2>2. ~Gets(q)
    <3>1. 1 \in 1..Len(q)
      BY <1>1, <1>2, EmptySeq
    <3> QED BY <2>1, <3>1 DEF Gets, AllSet
  <2>3. Tail(q) = << >> => Settled'
    BY <1>1, <1>3, <1>6, <2>1, <2>2 DEF Settled, Device!SetTo
  <2>4. Tail(q) # << >> => Tail(q)[Len(Tail(q))] = Device!SetTo(wanted)
    BY <1>3, <2>1
  <2>5. answer'[d] = {} /\ shown'[d] = wanted
    BY <1>1, <1>6, <1>10, <2>2 DEF Known
  <2>6. Known(d)'
    BY <1>1, <1>3, <1>4, <1>7, <2>3, <2>4, <2>5 DEF Known
  <2> QED BY <1>1, <1>5, <2>6, OneIsOpen
<1> QED BY <1>1, <1>8, <1>9, <1>10 DEF Current

LEMMA CurrentKeeps ==
  ASSUME DeviceInv, Current, Device!InTurns \/ UNCHANGED device PROVE Current'
<1>1. CASE UNCHANGED device
  BY <1>1 DEF device, Current, Asked, Told, Known, Settled, Device!FirstRequests, Device!SetTo
<1> QED BY <1>1, TurnOpens, TurnCloses, TurnShows, TurnTaps, TurnServes DEF Device!InTurns

LEMMA CurrentHolds == ASSUME DeviceInv, Current PROVE Device!ShownIsChosen /\ Device!SharedAtRest
<1>1. ASSUME NEW d \in open, Device!AtRest(d) PROVE shown[d] = wanted /\ Settled
  <2>1. d \in Devices /\ hook \in {"favorites", "preferences"} /\ shown[d] \in SUBSET Items
    BY DEF DeviceInv, DeviceTyped
  <2>2. Gets(Device!FirstRequests(shown[d]))
    BY <2>1, Asks
  <2>3. Known(d)
    BY <1>1, <2>2 DEF Current, Asked, Told, Gets, Device!AtRest
  <2> QED BY <1>1, <2>3 DEF Known, Device!AtRest
<1>2. Device!ShownIsChosen
  BY <1>1 DEF Device!ShownIsChosen
<1>3. Device!SharedAtRest
  <2> SUFFICES ASSUME taps > 0, \A d \in Devices : Device!AtRest(d) PROVE cloud = {wanted}
    BY DEF Device!SharedAtRest
  <2>1. Settled
    BY <1>1 DEF Current, DeviceInv, DeviceTyped
  <2> QED BY <2>1 DEF Settled, DeviceInv, DeviceTyped
<1> QED BY <1>2, <1>3
-------------------------------------------------------------------------------
(* The parts together. *)

LEMMA Assumed ==
  /\ Bot!StartupAssumption /\ Chat!SupportAssumption /\ Switch!NotificationsAssumption
  /\ Opened!EntryAssumption /\ Close!LoginAssumption /\ Apart!LoginAssumption
  /\ Client!SessionAssumption /\ Redis!LimitAssumption
  /\ List!FavoritesAssumption /\ Device!DeviceAssumption
  BY FrontAssumption

\* A step is one of a single part, and the others stutter.
LEMMA OnePart ==
  ASSUME [Next]_vars
  PROVE  /\ part' = part
         /\ \/ UNCHANGED startup
            \/ Bot!Next
         /\ \/ UNCHANGED support
            \/ part = "overlapping" /\ Chat!Next
            \/ part = "orderly" /\ Chat!InTurn
         /\ \/ UNCHANGED switch
            \/ part = "failing" /\ Switch!Next
            \/ part = "calm" /\ Switch!Undisturbed
         /\ \/ UNCHANGED entry
            \/ Opened!Next
         /\ \/ UNCHANGED access
            \/ part = "close" /\ Close!Next
            \/ part = "apart" /\ Apart!Next
         /\ \/ UNCHANGED session
            \/ part = "renewal" /\ Client!Undisturbed
            \/ part = "failing login" /\ Client!Next
         /\ \/ UNCHANGED limiter
            \/ part = "redis" /\ Redis!Next
            \/ part = "memory" /\ Memory!Next
         /\ \/ UNCHANGED listed
            \/ part = "sqlite" /\ List!Next
            \/ part = "postgres" /\ LiveList!Next
         /\ \/ UNCHANGED device
            \/ part = "hurry" /\ Device!Next
            \/ part = "turns" /\ Device!InTurns
<1>1. CASE UNCHANGED vars
  BY <1>1 DEF vars, bot, api
<1>2. CASE StartupNext
  BY <1>2 DEF StartupNext, Bot!Next, api
<1>3. CASE SupportNext
  BY <1>3 DEF SupportNext, api
<1>4. CASE SwitchNext
  BY <1>4 DEF SwitchNext, api
<1>5. CASE EntryNext
  BY <1>5 DEF EntryNext, bot, api
<1>6. CASE LoginNext
  BY <1>6 DEF LoginNext, bot, api
<1>7. CASE SessionNext
  BY <1>7 DEF SessionNext, bot, api
<1>8. CASE LimiterNext
  BY <1>8 DEF LimiterNext, bot, api
<1>9. CASE FavoritesNext
  BY <1>9 DEF FavoritesNext, bot, api
<1>10. CASE DeviceNext
  BY <1>10 DEF DeviceNext, bot, api
<1> QED BY <1>1, <1>2, <1>3, <1>4, <1>5, <1>6, <1>7, <1>8, <1>9, <1>10 DEF Next

LEMMA BotHolds == Spec => []BotInv
<1>1. ASSUME Init PROVE BotInv
  BY <1>1, Assumed, BotInit DEF Init
<1>2. ASSUME BotInv, [Next]_vars PROVE BotInv'
  BY <1>2, Assumed, OnePart, BotKeeps
<1> QED BY <1>1, <1>2, PTL DEF Spec

LEMMA ChatHolds == Spec => [](ChatInv /\ (part = "orderly" => Turns /\ Promise))
<1>1. ASSUME Init PROVE ChatInv /\ (part = "orderly" => Turns /\ Promise)
  BY <1>1, Assumed, ChatInit DEF Init
<1>2. ASSUME ChatInv, part = "orderly" => Turns /\ Promise, [Next]_vars
      PROVE  (ChatInv /\ (part = "orderly" => Turns /\ Promise))'
  <2>1. part' = part /\ (Chat!InTurn => Chat!Next)
    BY <1>2, OnePart DEF Chat!InTurn, Chat!HandleInTurn, Chat!Next
  <2>2. ChatInv'
    BY <1>2, <2>1, Assumed, OnePart, ChatKeeps
  <2>3. ASSUME part = "orderly" PROVE Turns' /\ Promise'
    BY <1>2, <2>3, Assumed, OnePart, TurnKeeps
  <2> QED BY <2>1, <2>2, <2>3
<1> QED BY <1>1, <1>2, PTL DEF Spec

LEMMA SwitchHolds == Spec => [](SwitchInv /\ (part = "calm" => Counted))
<1>1. ASSUME Init PROVE SwitchInv /\ (part = "calm" => Counted)
  BY <1>1, Assumed, SwitchInit DEF Init, Switch!Init, Counted
<1>2. ASSUME SwitchInv, part = "calm" => Counted, [Next]_vars
      PROVE  (SwitchInv /\ (part = "calm" => Counted))'
  <2>1. part' = part /\ (Switch!Undisturbed => Switch!Next)
    BY <1>2, OnePart DEF Switch!Next
  <2>2. SwitchInv'
    BY <1>2, <2>1, Assumed, OnePart, SwitchKeeps
  <2>3. ASSUME part = "calm" PROVE Counted'
    BY <1>2, <2>3, Assumed, OnePart, CalmKeeps
  <2> QED BY <2>1, <2>2, <2>3
<1> QED BY <1>1, <1>2, PTL DEF Spec

LEMMA EntryStays == Spec => []EntryInv
<1>1. ASSUME Init PROVE EntryInv
  BY <1>1, Assumed, EntryInit DEF Init
<1>2. ASSUME EntryInv, [Next]_vars PROVE EntryInv'
  BY <1>2, Assumed, OnePart, EntryKeeps
<1> QED BY <1>1, <1>2, PTL DEF Spec

LEMMA ClientStays == Spec => [](ClientInv /\ (part = "renewal" => Lives))
<1>1. ASSUME Init PROVE ClientInv /\ (part = "renewal" => Lives)
  BY <1>1, Assumed, ClientInit DEF Init
<1>2. ASSUME ClientInv, part = "renewal" => Lives, [Next]_vars
      PROVE  (ClientInv /\ (part = "renewal" => Lives))'
  <2>1. part' = part /\ (Client!Undisturbed => Client!Next)
    BY <1>2, OnePart, Assumed, UndisturbedIsNext
  <2>2. ClientInv'
    BY <1>2, <2>1, Assumed, OnePart, ClientKeeps
  <2>3. ASSUME part = "renewal" PROVE Lives'
    BY <1>2, <2>3, Assumed, OnePart, LivesOn
  <2> QED BY <2>1, <2>2, <2>3
<1> QED BY <1>1, <1>2, PTL DEF Spec

\* Only the memory store keeps MemoryInv, and only Redis RedisInv.
LimiterInv == IF part = "memory" THEN MemoryInv ELSE RedisInv

LEMMA LimiterHolds == Spec => []LimiterInv
<1>1. ASSUME Init PROVE LimiterInv
  BY <1>1, Assumed, LimitInit DEF Init, LimiterInv
<1>2. ASSUME LimiterInv, [Next]_vars PROVE LimiterInv'
  <2>1. part' = part
    BY <1>2, OnePart
  <2>2. CASE part = "memory"
    BY <1>2, <2>1, <2>2, Assumed, OnePart, MemoryKeeps DEF LimiterInv
  <2>3. CASE part # "memory"
    BY <1>2, <2>1, <2>3, Assumed, OnePart, RedisKeeps DEF LimiterInv
  <2> QED BY <2>2, <2>3
<1> QED BY <1>1, <1>2, PTL DEF Spec

LEMMA ListHolds == Spec => [](ListInv /\ AddingIsIdempotent)
<1>1. ASSUME Init PROVE ListInv /\ AddingIsIdempotent
  BY <1>1, Assumed, ListInit DEF Init, AddingIsIdempotent
<1>2. ASSUME ListInv, AddingIsIdempotent, [Next]_vars PROVE (ListInv /\ AddingIsIdempotent)'
  <2>1. ListInv'
    BY <1>2, Assumed, OnePart, ListKeeps
  <2>2. part' = part /\ (part = "sqlite" => List!Next \/ UNCHANGED listed)
    BY <1>2, OnePart
  <2>3. CASE part = "sqlite"
    <3>1. List!AddingIsIdempotent'
      BY <1>2, <2>2, <2>3, Assumed, ListIdempotent DEF AddingIsIdempotent
    <3> QED BY <2>1, <3>1 DEF AddingIsIdempotent
  <2>4. CASE part # "sqlite"
    BY <2>1, <2>2, <2>4 DEF AddingIsIdempotent
  <2> QED BY <2>3, <2>4
<1> QED BY <1>1, <1>2, PTL DEF Spec

LEMMA DeviceHolds == Spec => [](DeviceInv /\ (part = "turns" => Current))
<1>1. ASSUME Init PROVE DeviceInv /\ (part = "turns" => Current)
  BY <1>1, Assumed, DeviceInit, CurrentInit DEF Init
<1>2. ASSUME DeviceInv, part = "turns" => Current, [Next]_vars
      PROVE  (DeviceInv /\ (part = "turns" => Current))'
  <2>1. part' = part /\ (Device!InTurns => Device!Next)
    BY <1>2, OnePart DEF Device!InTurns, Device!Next
  <2>2. DeviceInv'
    BY <1>2, <2>1, Assumed, OnePart, DeviceKeeps
  <2>3. ASSUME part = "turns" PROVE Current'
    BY <1>2, <2>3, Assumed, OnePart, CurrentKeeps
  <2> QED BY <2>1, <2>2, <2>3
<1> QED BY <1>1, <1>2, PTL DEF Spec

LEMMA LoginHolds ==
  Spec => [](Close!TypeOK /\ AccessEnds /\ RefusedOnlyWhenOld)
<1> DEFINE InApart == part = "apart"
           InClose == part # "apart"
<1>1. Spec => [](InClose => Close!TypeOK /\ Close!AccessEnds /\ Close!RefusedOnlyWhenOld)
  <2>1. Init /\ InClose => CloseP!Init
    BY SameClose DEF Init
  <2>2. InClose /\ [Next]_vars => [CloseP!Next]_(CloseP!vars) /\ InClose'
    BY SameClose, OnePart DEF access, CloseP!vars
  <2>3. ~InClose /\ [Next]_vars => ~InClose'
    BY OnePart
  <2>4. CloseP!LoginAssumption
    BY Assumed, SameClose
  <2>5. CloseP!Spec => []CloseP!TypeOK
    BY <2>4, CloseP!TypeCorrect
  <2>6. CloseP!Spec => []CloseP!AccessEnds
    BY <2>4, CloseP!LoginsEnd
  <2>7. CloseP!Spec => []CloseP!RefusedOnlyWhenOld
    BY <2>4, CloseP!FreshIsAccepted
  <2>8. CloseP!TypeOK /\ CloseP!AccessEnds /\ CloseP!RefusedOnlyWhenOld
        => Close!TypeOK /\ Close!AccessEnds /\ Close!RefusedOnlyWhenOld
    BY SameClose
  <2> HIDE DEF InClose
  <2> QED BY <2>1, <2>2, <2>3, <2>5, <2>6, <2>7, <2>8, PTL DEF Spec, CloseP!Spec
<1>2. Spec => [](InApart => Close!TypeOK /\ Apart!AccessEnds /\ Apart!RefusedOnlyWhenOld)
  <2>1. Init /\ InApart => ApartP!Init
    BY SameApart DEF Init
  <2>2. InApart /\ [Next]_vars => [ApartP!Next]_(ApartP!vars) /\ InApart'
    BY SameApart, OnePart DEF access, ApartP!vars
  <2>3. ~InApart /\ [Next]_vars => ~InApart'
    BY OnePart
  <2>4. ApartP!LoginAssumption
    BY Assumed, SameApart
  <2>5. ApartP!Spec => []ApartP!TypeOK
    BY <2>4, ApartP!TypeCorrect
  <2>6. ApartP!Spec => []ApartP!AccessEnds
    BY <2>4, ApartP!LoginsEnd
  <2>7. ApartP!Spec => []ApartP!RefusedOnlyWhenOld
    BY <2>4, ApartP!FreshIsAccepted
  <2>8. ApartP!TypeOK /\ ApartP!AccessEnds /\ ApartP!RefusedOnlyWhenOld
        => Close!TypeOK /\ Apart!AccessEnds /\ Apart!RefusedOnlyWhenOld
    BY SameApart
  <2> HIDE DEF InApart
  <2> QED BY <2>1, <2>2, <2>3, <2>5, <2>6, <2>7, <2>8, PTL DEF Spec, ApartP!Spec
<1>3. (InClose => Close!TypeOK /\ Close!AccessEnds /\ Close!RefusedOnlyWhenOld)
      /\ (InApart => Close!TypeOK /\ Apart!AccessEnds /\ Apart!RefusedOnlyWhenOld)
      => Close!TypeOK /\ AccessEnds /\ RefusedOnlyWhenOld
  BY DEF AccessEnds, RefusedOnlyWhenOld
<1> HIDE DEF InApart, InClose
<1> QED BY <1>1, <1>2, <1>3, PTL
-------------------------------------------------------------------------------
(* The theorems. *)

\* However many updates, requests, cut connections, failing calls and other
\* deployments there are: no update is handled before the bot is ready, refused
\* for good while it may still get ready, or confirmed without having been
\* handled, and 'ready' means that webhook and commands are set (botReady, the
\* webhook's handler).
THEOREM StartsSoundly == Spec => []StartupIsSound
<1>1. ASSUME BotInv PROVE StartupIsSound
  <2>1. ReadyMeansRegistered
    BY <1>1 DEF BotInv, Ordered, ReadyMeansRegistered, Bot!ReadyMeansRegistered
  <2>2. NothingBeforeReady /\ RefusedOnlyWhenFailed
    BY <1>1 DEF BotInv, Bot!TypeOK, Judged, NothingBeforeReady, Bot!NothingBeforeReady,
       RefusedOnlyWhenFailed, Bot!RefusedOnlyWhenFailed
  <2>3. ConfirmedMeansHandled
    <3>1. \A u \in Posted : cut[u] \in Int /\ cut[u] + 1 > cut[u]
      BY <1>1 DEF BotInv, Bot!TypeOK
    <3> QED BY <1>1, <3>1
            DEF BotInv, Connected, ConfirmedMeansHandled, Bot!ConfirmedMeansHandled
  <2> QED BY <1>1, <2>1, <2>2, <2>3 DEF BotInv, StartupIsSound
<1> QED BY <1>1, BotHolds, PTL

\* For any messages and taps, in any order and with any failures: what the bot
\* says of a message and of its switch is what is stored; handled in order, a
\* message it asked for is passed on; and without failures every tap counts
\* (the message handler, /support, the settings callbacks).
THEOREM ConversationsKeepTheirWord == Spec => []ConversationsAreTrue
<1>1. ASSUME ChatInv, part = "orderly" => Turns /\ Promise PROVE StoredWhenTold /\ PromiseKept
  <2>1. StoredWhenTold
    BY <1>1 DEF ChatInv, Kept, StoredWhenTold, Chat!StoredWhenTold
  <2>2. PromiseKept
    BY <1>1 DEF Promise, PromiseKept, Chat!PromiseKept
  <2> QED BY <2>1, <2>2
<1>2. ASSUME SwitchInv, part = "calm" => Counted PROVE ButtonShowsSetting /\ EveryTapCounts
  <2>1. ButtonShowsSetting
    BY <1>2 DEF SwitchInv, ButtonShowsSetting, Switch!ButtonShowsSetting
  <2>2. EveryTapCounts
    BY <1>2, CalmCounts DEF EveryTapCounts
  <2> QED BY <2>1, <2>2
<1>3. ChatInv /\ (part = "orderly" => Turns /\ Promise)
      /\ SwitchInv /\ (part = "calm" => Counted) => ConversationsAreTrue
  BY <1>1, <1>2 DEF ChatInv, SwitchInv, ConversationsAreTrue
<1> QED BY <1>3, ChatHolds, SwitchHolds, PTL

\* However the app is opened, whatever it is opened with and wherever its user
\* goes from there, it comes to rest where it should (DeepLink, App).
THEOREM EntryLeadsWhereItSays == Spec => []EntryIsSound
<1>1. ASSUME EntryInv PROVE EntryIsSound
  <2>1. Opened!DeepLinkOpens /\ Opened!AddressOpens /\ Opened!LinksLead
    BY <1>1, Assumed, EntryHolds
  <2> QED BY <1>1, <2>1 DEF EntryInv, EntryIsSound, DeepLinkOpens, AddressOpens, LinksLead
<1> QED BY <1>1, EntryStays, PTL

\* For any windows, tokens, ages, clocks and waits a login ends no later than a
\* wait and a session after its initData became too old, and is not refused
\* before; for any requests the client logs in a bounded number of times, and a
\* token that dies is replaced unnoticed (POST /api/auth/telegram, request in
\* client.ts).
THEOREM SessionsEndAndRenew == Spec => []SessionsAreSound
<1>1. ASSUME ClientInv, part = "renewal" => Lives
      PROVE  Client!TypeOK /\ DeadTokenUnnoticed /\ LoginsBounded
  <2>1. DeadTokenUnnoticed
    BY <1>1 DEF Lives, DeadTokenUnnoticed, Client!DeadTokenUnnoticed
  <2> QED BY <1>1, <2>1, Assumed, ClientTypes, ClientHolds DEF LoginsBounded
<1>2. ClientInv /\ (part = "renewal" => Lives) /\ Close!TypeOK /\ AccessEnds
      /\ RefusedOnlyWhenOld => SessionsAreSound
  BY <1>1 DEF SessionsAreSound
<1> QED BY <1>2, ClientStays, LoginHolds, PTL

\* For any callers, limit and window: on either store no window lets more than
\* the limit pass; on Redis, whose answers may be lost, no span of a window's
\* length lets twice as many pass, and who is turned away has met a limit of
\* counted requests in it (rateLimit, incrWithTtl).
THEOREM LimitsHold == Spec => []LimitIsKept
<1>1. ASSUME LimiterInv PROVE LimitIsKept
  <2>1. Redis!TypeOK /\ Redis!WindowIsBounded
    BY <1>1, Assumed, LimitHolds DEF LimiterInv
  <2>2. BurstIsBounded /\ LimitedOnlyWhenFull
    BY <1>1, RedisHolds DEF LimiterInv, BurstIsBounded, LimitedOnlyWhenFull
  <2> QED BY <2>1, <2>2 DEF LimitIsKept, WindowIsBounded
<1> QED BY <1>1, LimiterHolds, PTL

\* For any adds and removes, on SQLite and on PostgreSQL, the answers add up to
\* the row that is left, and an add was in effect however it was answered; on
\* SQLite a repeated add is a success.  For any devices, items and taps, a user
\* who takes turns sees on each what was chosen last (favourites routes,
\* preferences.ts).
THEOREM FavouritesAddUp == Spec => []FavouritesAgree
<1>1. ASSUME ListInv PROVE AnswersBalance /\ AddTakesEffect
  <2>1. AnswersBalance
    BY <1>1, SameCount DEF ListInv, Balance, Created, Taken, AnswersBalance,
       List!AnswersBalance
  <2> QED BY <1>1, <2>1 DEF ListInv, AddTakesEffect
<1>2. ASSUME DeviceInv, part = "turns" => Current
      PROVE  Device!TypeOK /\ ShownIsChosen /\ SharedAtRest
  BY <1>2, Assumed, DeviceTypes, CurrentHolds DEF ShownIsChosen, SharedAtRest
<1>3. ListInv /\ AddingIsIdempotent /\ DeviceInv /\ (part = "turns" => Current)
      => FavouritesAgree
  BY <1>1, <1>2 DEF ListInv, FavouritesAgree
<1> QED BY <1>3, ListHolds, DeviceHolds, PTL
===============================================================================
