-------------------------------- MODULE RateLimit --------------------------------
(***************************************************************************)
(* The request limiter (server/app.ts: rateLimiter) over the TTL store     *)
(* (server/state.ts): one counter per scope and client, in a window that   *)
(* opens with the client's first request.  RedisStore counts in one Lua    *)
(* script; MemoryStore reads the map, awaits, and writes it back, so two   *)
(* requests that arrive in one turn of the event loop overlap.             *)
(*                                                                         *)
(* One client and one scope.  A member of Requests asks for the count once; *)
(* a request whose question to Redis went unanswered, which ioredis asks   *)
(* again (maxRetriesPerRequest), is another member each time it asks.      *)
(* Instants are those of the count, which the answer may follow later.     *)
(* Definitions named X_Fault are faulty variants of X, used by no action.  *)
(***************************************************************************)
EXTENDS Integers, FiniteSets

CONSTANTS
    Requests,
    Limit,          \* requests a window lets pass
    Window,         \* seconds a counter lives
    Driver,         \* "redis" or "memory"
    Overlap,        \* requests may arrive in one turn of the event loop
    Horizon         \* the clock stops here

LimitAssumption ==
    /\ IsFiniteSet(Requests)
    /\ Limit \in Nat \ {0} /\ Window \in Nat \ {0} /\ Horizon \in Nat
    /\ Driver \in {"redis", "memory"}
    /\ Overlap \in BOOLEAN

VARIABLES
    now,
    key,        \* the counter [n, ends], or Absent
    pc,         \* per request: unsent, counting, passed, limited, unavailable,
                \* wasted (counted within the limit, but the answer was lost)
    seen,       \* per request: the count its `await this.get` returned
    ends,       \* per request: expiresAt of the entry it found, -1 if none
    at          \* per request: when it was counted or failed, -1 before

vars == <<now, key, pc, seen, ends, at>>

Absent == [n |-> 0, ends |-> -1]

Init ==
    /\ now = 0
    /\ key = Absent
    /\ pc = [r \in Requests |-> "unsent"]
    /\ seen = [r \in Requests |-> 0]
    /\ ends = [r \in Requests |-> -1]
    /\ at = [r \in Requests |-> -1]

Tick ==
    /\ now < Horizon
    /\ \A r \in Requests : pc[r] # "counting"
    /\ now' = now + 1
    /\ UNCHANGED <<key, pc, seen, ends, at>>

\* `count > limit` is a 429, else next().
Exceeded(count) == count > Limit

-------------------------------------------------------------------------------
(* RedisStore.incrWithTtl: INCR, and EXPIRE when it made the key *)

\* Redis drops a key when its time has come.
Live == IF now < key.ends THEN key ELSE Absent

EndsAt(count) == IF count = 1 THEN now + Window ELSE key.ends

Counted(r, over, within) ==
    /\ Driver = "redis"
    /\ pc[r] = "unsent"
    /\ LET count == Live.n + 1 IN
        /\ key' = [n |-> count, ends |-> EndsAt(count)]
        /\ pc' = [pc EXCEPT ![r] = IF Exceeded(count) THEN over ELSE within]
    /\ at' = [at EXCEPT ![r] = now]
    /\ UNCHANGED <<now, seen, ends>>

Incr(r) == Counted(r, "limited", "passed")

\* The script ran and its answer is lost: it is asked again, or the request is
\* given up with a 503.
IncrUnanswered(r) == Counted(r, "unavailable", "wasted")

-------------------------------------------------------------------------------
(* MemoryStore.incrWithTtl *)

\* `existing`, then get(), which deletes an entry older than now.
Get(r) ==
    /\ Driver = "memory"
    /\ pc[r] = "unsent"
    /\ Overlap \/ \A s \in Requests : pc[s] # "counting"
    /\ LET stale == key.ends < now IN
        /\ key' = IF stale THEN Absent ELSE key
        /\ seen' = [seen EXCEPT ![r] = IF stale THEN 0 ELSE key.n]
    /\ ends' = [ends EXCEPT ![r] = key.ends]
    /\ pc' = [pc EXCEPT ![r] = "counting"]
    /\ UNCHANGED <<now, at>>

\* The new count, in the window of `existing` while that is still open.
KeptUntil(r) == IF ends[r] > now THEN ends[r] ELSE now + Window

Set(r) ==
    /\ pc[r] = "counting"
    /\ key' = [n |-> seen[r] + 1, ends |-> KeptUntil(r)]
    /\ pc' = [pc EXCEPT ![r] = IF Exceeded(seen[r] + 1) THEN "limited" ELSE "passed"]
    /\ at' = [at EXCEPT ![r] = now]
    /\ UNCHANGED <<now, seen, ends>>

\* The script does not run: 503, the request does not reach its handler.
StoreFails_Open(r) ==
    /\ Driver = "redis"
    /\ pc[r] = "unsent"
    /\ pc' = [pc EXCEPT ![r] = "passed"]
    /\ at' = [at EXCEPT ![r] = now]
    /\ UNCHANGED <<now, key, seen, ends>>

StoreFails(r) ==
    /\ Driver = "redis"
    /\ pc[r] = "unsent"
    /\ pc' = [pc EXCEPT ![r] = "unavailable"]
    /\ at' = [at EXCEPT ![r] = now]
    /\ UNCHANGED <<now, key, seen, ends>>

-------------------------------------------------------------------------------
Next ==
    \/ Tick
    \/ \E r \in Requests :
        Incr(r) \/ IncrUnanswered(r) \/ Get(r) \/ Set(r) \/ StoreFails(r)

Spec == Init /\ [][Next]_vars

-------------------------------------------------------------------------------
(* Properties *)

\* Every variable holds a value the code can give it; a counter is never left
\* without an end, and the end is never further away than a window.
TypeOK ==
    /\ now \in 0..Horizon
    /\ key = Absent \/ (key.n \in Nat \ {0} /\ key.ends \in Window..now + Window)
    /\ pc \in [Requests -> {"unsent", "counting", "passed", "limited", "unavailable",
                           "wasted"}]
    /\ seen \in [Requests -> Nat]
    /\ ends \in [Requests -> -1..Horizon + Window]
    /\ at \in [Requests -> -1..now]

\* Places in a window that were taken.
Taken(from, to) == {r \in Requests : pc[r] \in {"passed", "wasted"} /\ at[r] \in from..to}
Passed(from, to) == {r \in Requests : pc[r] = "passed" /\ at[r] \in from..to}

\* A full window can follow one that was filled late, but a span as long as a
\* window that touches both misses the request that opened the first.
BurstIsBounded ==
    \A t \in 0..now : Cardinality(Taken(t - Window + 1, t)) < 2 * Limit

\* Of all that passes since a counter was made, no more than the limit.
WindowIsBounded ==
    Cardinality(Taken(key.ends - Window, key.ends - 1)) <= Limit

\* A client is turned away only if it has used up the limit within the last
\* window, 'RateLimit-Reset: 60', with requests that passed or with scripts that
\* ran and whose answer it was never given.
LimitedOnlyWhenFull ==
    \A r \in Requests :
        pc[r] = "limited" =>
            Cardinality(Taken(at[r] - Window + 1, at[r])) >= Limit

\* Only with requests that passed (it does not hold: the lost answers count).
LimitedOnlyByPassed ==
    \A r \in Requests :
        pc[r] = "limited" =>
            Cardinality(Passed(at[r] - Window + 1, at[r])) >= Limit
===============================================================================
