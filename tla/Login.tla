---------------------------------- MODULE Login ----------------------------------
(***************************************************************************)
(* How long a Telegram login lasts: POST /api/auth/telegram exchanges the  *)
(* initData of a window for a bearer token (server/app.ts), after checking *)
(* its signature and its age (validateTelegramInitData, server/schema.ts); *)
(* the token's key in the TTL store expires (server/state.ts); and the     *)
(* client exchanges the same initData again and again (AppProviders.tsx).  *)
(*                                                                         *)
(* Time is the server's clock, in its unit (seconds).  Telegram signs with *)
(* a clock of its own, which may be ahead of the server's or behind.       *)
(* A login waits for the users' row and then for the store to set the key, *)
(* whose time runs from then on; nothing in the code bounds that wait, so   *)
(* its bound is an assumption about the database and the store.  A login    *)
(* that fails leaves at most a key whose token nobody knows.                *)
(* Definitions named X_Fault are faulty variants of X, used by no action.  *)
(***************************************************************************)
EXTENDS Integers

CONSTANTS
    Windows,        \* Mini App windows, one initData each
    Tokens,
    MaxAge,         \* 86400: how old initData may be
    Skew,           \* 60: how far ahead of the server it may be signed
    TTL,            \* SESSION_TTL_SECONDS
    Drift,          \* how far Telegram's clock and the server's are apart
    Delay,          \* how long database and store keep a login waiting, at most
    Inclusive,      \* a key is still there at its last instant (the memory store)
    Horizon         \* bound: when time stops

LoginAssumption ==
    /\ MaxAge \in Nat /\ Skew \in Nat /\ TTL \in Nat /\ Drift \in Nat
    /\ Delay \in Nat
    /\ Drift < MaxAge
    /\ Inclusive \in BOOLEAN
    /\ Horizon \in Nat

Flaws == {"empty", "no hash", "bad signature", "no date", "bad user", "no user"}

VARIABLES
    now,
    signed,     \* per window: auth_date, 0 while it is not open
    since,      \* per window: when it was opened, by the server's clock
    flaw,       \* per window: none, or what is wrong with its initData
    expires,    \* per token: the end of its session, 0 when there is none
    owner,      \* per token: the window whose initData it was made for, as a set
    begun,      \* per token: when its login passed the check, 0 when none waits
    refused,    \* windows whose last login was refused, since the clock moved
    served      \* tokens whose last request was let in, since the clock moved

keys == <<expires, owner, begun>>
vars == <<now, signed, since, flaw, keys, refused, served>>

Init ==
    /\ now = Drift + 1
    /\ signed = [w \in Windows |-> 0]
    /\ since = [w \in Windows |-> 0]
    /\ flaw = [w \in Windows |-> "none"]
    /\ expires = [t \in Tokens |-> 0]
    /\ owner = [t \in Tokens |-> {}]
    /\ begun = [t \in Tokens |-> 0]
    /\ refused = {}
    /\ served = {}

\* Telegram opens a window and signs its initData, which may be spoilt on the
\* way.
Open(w) ==
    /\ signed[w] = 0
    /\ \E d \in (-Drift)..Drift : signed' = [signed EXCEPT ![w] = now + d]
    /\ since' = [since EXCEPT ![w] = now]
    /\ \E f \in Flaws \cup {"none"} : flaw' = [flaw EXCEPT ![w] = f]
    /\ UNCHANGED <<now, keys, refused, served>>

-------------------------------------------------------------------------------
(* validateTelegramInitData *)

Accepted_NoFuture(w) ==
    /\ flaw[w] = "none"
    /\ signed[w] # 0
    /\ now - signed[w] <= MaxAge
    /\ signed[w] <= now

Accepted_Ageless(w) ==
    /\ flaw[w] = "none"
    /\ signed[w] # 0
    /\ signed[w] <= now + Skew

Accepted(w) ==
    /\ flaw[w] = "none"
    /\ signed[w] # 0
    /\ now - signed[w] <= MaxAge
    /\ signed[w] <= now + Skew

-------------------------------------------------------------------------------
(* POST /api/auth/telegram *)

\* The check, and the statement it is followed by.  A token is a fresh nanoid(48).
LogIn(w) ==
    /\ signed[w] # 0
    /\ Accepted(w)
    /\ \E t \in Tokens :
        /\ owner[t] = {}
        /\ begun' = [begun EXCEPT ![t] = now]
        /\ owner' = [owner EXCEPT ![t] = {w}]
    /\ refused' = refused \ {w}
    /\ UNCHANGED <<now, signed, since, flaw, expires, served>>

\* The answer with the token.  Its key was set since the check, at some instant.
Issue(t) ==
    /\ begun[t] # 0
    /\ \E set \in begun[t]..now : expires' = [expires EXCEPT ![t] = set + TTL]
    /\ begun' = [begun EXCEPT ![t] = 0]
    /\ UNCHANGED <<now, signed, since, flaw, owner, refused, served>>

\* A statement or the set fails: 500.
LoginFails(t) ==
    /\ begun[t] # 0
    /\ begun' = [begun EXCEPT ![t] = 0]
    /\ owner' = [owner EXCEPT ![t] = {}]
    /\ UNCHANGED <<now, signed, since, flaw, expires, refused, served>>

\* 401 telegram_auth_failed.
Refuse(w) ==
    /\ signed[w] # 0
    /\ ~Accepted(w)
    /\ refused' = refused \cup {w}
    /\ UNCHANGED <<now, signed, since, flaw, keys, served>>

-------------------------------------------------------------------------------
(* The middleware `user` *)

\* The token was answered.
Known(t) == owner[t] # {} /\ begun[t] = 0

\* get(): MemoryStore compares with <, Redis removes the key when it is due.
Present(t) == IF Inclusive THEN now <= expires[t] ELSE now < expires[t]

Request(t) ==
    /\ Known(t)
    /\ Present(t)
    /\ served' = served \cup {t}
    /\ UNCHANGED <<now, signed, since, flaw, keys, refused>>

Turned(t) ==
    /\ Known(t)
    /\ ~Present(t)
    /\ served' = served \ {t}
    /\ UNCHANGED <<now, signed, since, flaw, keys, refused>>

\* POST /api/auth/logout.
Logout(t) ==
    /\ Known(t)
    /\ Present(t)
    /\ expires' = [expires EXCEPT ![t] = 0]
    /\ served' = served \ {t}
    /\ UNCHANGED <<now, signed, since, flaw, owner, begun, refused>>

Tick ==
    /\ now < Horizon
    /\ \A t \in Tokens : begun[t] # 0 => now - begun[t] < Delay
    /\ now' = now + 1
    /\ refused' = {}
    /\ served' = {}
    /\ UNCHANGED <<signed, since, flaw, keys>>

-------------------------------------------------------------------------------
Next ==
    \/ Tick
    \/ \E w \in Windows : Open(w) \/ LogIn(w) \/ Refuse(w)
    \/ \E t \in Tokens :
        Issue(t) \/ LoginFails(t) \/ Request(t) \/ Turned(t) \/ Logout(t)

Spec == Init /\ [][Next]_vars

-------------------------------------------------------------------------------
(* Properties *)

\* Every variable holds a value the code can give it.
TypeOK ==
    /\ now \in Nat
    /\ signed \in [Windows -> Nat]
    /\ since \in [Windows -> Nat]
    /\ flaw \in [Windows -> Flaws \cup {"none"}]
    /\ expires \in [Tokens -> Nat]
    /\ owner \in [Tokens -> SUBSET Windows]
    /\ begun \in [Tokens -> Nat]
    /\ refused \in SUBSET Windows
    /\ served \in SUBSET Tokens

\* However often a window renews its token with the same initData, it is let in
\* no longer than MaxAge, a login's wait and a session after Telegram signed it,
\* and never with spoilt initData (validateTelegramInitData, the session's key).
AccessEnds ==
    \A t \in served : \A w \in owner[t] :
        /\ flaw[w] = "none"
        /\ now <= signed[w] + MaxAge + Delay + TTL

\* A window with sound initData is refused only when it is old: clocks that are
\* no further apart than Skew turn nobody away who has just opened the app
\* (validateTelegramInitData).
RefusedOnlyWhenOld ==
    \A w \in refused : flaw[w] = "none" /\ Drift <= Skew => now - since[w] > MaxAge - Drift
===============================================================================
