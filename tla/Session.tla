-------------------------------- MODULE Session --------------------------------
(***************************************************************************)
(* The Mini App's bearer token: api/client.ts attaches it to each request, *)
(* drops it on a 401, logs in again once for all the requests that were    *)
(* refused meanwhile (refreshPromise) and sends each of them a second      *)
(* time.  The server keeps a session per token until it expires or is      *)
(* logged out.  Left out is the login of its own, outside refreshPromise,  *)
(* that the query `me` makes when its request has failed with a 401 and no *)
(* token is left (AppProviders.tsx).                                       *)
(*                                                                         *)
(* A reply is read in one step of the browser's event loop, together with  *)
(* everything that was awaiting it: when the login answers, every waiting  *)
(* request is sent again in that same step.  Each request here is sent at  *)
(* most once by its caller.  Definitions named X_Fault are faulty variants *)
(* of X, used by no action.                                                *)
(***************************************************************************)
EXTENDS Naturals, FiniteSets

CONSTANTS
    Requests,       \* calls of api()
    Logout,         \* the one among them that is POST /auth/logout, if any
    Tokens,
    First,          \* the token of the login at startup
    NoToken

SessionAssumption ==
    /\ IsFiniteSet(Requests)
    /\ First \in Tokens
    /\ NoToken \notin Tokens

VARIABLES
    token,      \* authToken
    rPc,        \* per request: where it is
    rTok,       \* per request: the token it was last sent with
    login,      \* refreshPromise: none, sent, answered
    loginTok,   \* the token in the login's answer
    sessions,   \* server: tokens with a live session
    given,      \* server: tokens handed out
    loggedOut   \* onSettled of the logout mutation has run

client == <<token, rPc, rTok, login, loggedOut>>
server == <<loginTok, sessions, given>>
vars   == <<client, server>>

Init ==
    /\ token = First
    /\ rPc = [r \in Requests |-> "idle"]
    /\ rTok = [r \in Requests |-> NoToken]
    /\ login = "none"
    /\ loginTok = NoToken
    /\ sessions = {First}
    /\ given = {First}
    /\ loggedOut = FALSE

Waiting == {r \in Requests : rPc[r] = "waiting"}

Goto(r, pc) == rPc' = [rPc EXCEPT ![r] = pc]

\* onSettled of the logout mutation: it runs whether the call worked or not.
Settle(r, otherwise) ==
    /\ token' = IF r = Logout THEN NoToken ELSE otherwise
    /\ loggedOut' = (loggedOut \/ r = Logout)

Send(r) ==
    /\ rPc[r] = "idle"
    /\ ~loggedOut
    /\ rTok' = [rTok EXCEPT ![r] = token]
    /\ Goto(r, "sent")
    /\ UNCHANGED <<token, login, loggedOut, server>>

\* The middleware user, and the handler behind it.
Authorized(r) == rTok[r] \in sessions

Accept(r) ==
    /\ rPc[r] \in {"sent", "resent"}
    /\ Authorized(r)
    /\ Goto(r, "accepted")
    /\ sessions' = IF r = Logout THEN sessions \ {rTok[r]} ELSE sessions
    /\ UNCHANGED <<token, rTok, login, loggedOut, loginTok, given>>

Refuse(r) ==
    /\ rPc[r] \in {"sent", "resent"}
    /\ ~Authorized(r)
    /\ Goto(r, IF rPc[r] = "sent" THEN "refused" ELSE "refused again")
    /\ UNCHANGED <<token, rTok, login, loggedOut, server>>

Answered(r) ==
    /\ rPc[r] = "accepted"
    /\ Goto(r, "ok")
    /\ Settle(r, token)
    /\ UNCHANGED <<rTok, login, server>>

\* A flag in place of the shared promise: one refresh at a time, others fail.
Renew_Busy(r) ==
    /\ rPc[r] = "refused"
    /\ token' = NoToken
    /\ login' = IF login = "none" THEN "sent" ELSE login
    /\ Goto(r, IF login = "none" THEN "waiting" ELSE "failed")
    /\ UNCHANGED <<rTok, loggedOut, server>>

\* The 401 is read: the token is dropped, whichever it is, and the request
\* waits for the refresh under way or starts one.
Renew(r) ==
    /\ rPc[r] = "refused"
    /\ token' = NoToken
    /\ login' = IF login = "none" THEN "sent" ELSE login
    /\ Goto(r, "waiting")
    /\ UNCHANGED <<rTok, loggedOut, server>>

RefusedAgain(r) ==
    /\ rPc[r] = "refused again"
    /\ Goto(r, "failed")
    /\ Settle(r, NoToken)
    /\ UNCHANGED <<rTok, login, server>>

\* POST /api/auth/telegram: a new session beside the old ones, under a token
\* nobody has been given; which one makes no difference.
Fresh == CHOOSE t \in Tokens : t \notin given

LoginServed ==
    /\ login = "sent"
    /\ given # Tokens
    /\ login' = "answered"
    /\ loginTok' = Fresh
    /\ given' = given \cup {Fresh}
    /\ sessions' = sessions \cup {Fresh}
    /\ UNCHANGED <<token, rPc, rTok, loggedOut>>

LoginAnswered ==
    /\ login = "answered"
    /\ login' = "none"
    /\ token' = loginTok
    /\ rPc' = [r \in Requests |-> IF r \in Waiting THEN "resent" ELSE rPc[r]]
    /\ rTok' = [r \in Requests |-> IF r \in Waiting THEN loginTok ELSE rTok[r]]
    /\ UNCHANGED <<loggedOut, server>>

LoginFails_Forgets ==
    /\ login # "none"
    /\ login' = "none"
    /\ token' = NoToken
    /\ UNCHANGED <<rPc, rTok, loggedOut, server>>

\* The login is refused, lost or rate limited: the rejected promise is the error
\* of every waiting request; a lost answer leaves its session on the server.
LoginFails ==
    /\ login # "none"
    /\ login' = "none"
    /\ token' = NoToken
    /\ rPc' = [r \in Requests |-> IF r \in Waiting THEN "failed" ELSE rPc[r]]
    /\ loggedOut' = (loggedOut \/ Logout \in Waiting)
    /\ UNCHANGED <<rTok, server>>

\* SESSION_TTL_SECONDS have passed, or the store was lost.
Expire(t) ==
    /\ t \in sessions
    /\ sessions' = sessions \ {t}
    /\ UNCHANGED <<client, loginTok, given>>

Reply(r) == Accept(r) \/ Refuse(r) \/ Answered(r) \/ Renew(r) \/ RefusedAgain(r)

Relogin ==
    \/ LoginServed
    \/ LoginAnswered
    \/ LoginFails

Next ==
    \/ \E r \in Requests : Send(r) \/ Reply(r)
    \/ Relogin
    \/ \E t \in Tokens : Expire(t)

\* Nobody logs out, no login fails, and only the first token dies.
Undisturbed ==
    \/ \E r \in Requests \ {Logout} : Send(r) \/ Reply(r)
    \/ LoginServed \/ LoginAnswered
    \/ Expire(First)

Spec == Init /\ [][Next]_vars

\* Requests are answered: the server's timeout is 30 seconds.
Fairness == WF_vars(Relogin) /\ \A r \in Requests : WF_vars(Reply(r))

FairSpec == Spec /\ Fairness

-------------------------------------------------------------------------------
(* Properties *)

\* Every variable holds a value the code can give it; the client's token, and
\* those requests travel with, are tokens the server gave; requests wait for a
\* refresh only while there is one.
TypeOK ==
    /\ rPc \in [Requests -> {"idle", "sent", "accepted", "refused", "waiting", "resent",
                             "refused again", "ok", "failed"}]
    /\ login \in {"none", "sent", "answered"}
    /\ Waiting # {} => login # "none"
    /\ loggedOut \in BOOLEAN
    /\ given \in SUBSET Tokens
    /\ sessions \subseteq given
    /\ \A t \in {token, loginTok} \cup {rTok[r] : r \in Requests} : t \in given \cup {NoToken}

\* While only the first token dies and logins work, no caller sees an error,
\* however the refusals, the refresh and late answers interleave.
DeadTokenUnnoticed == \A r \in Requests : rPc[r] # "failed"

\* A request makes the client log in once at most: late refusals and tokens
\* that die young cannot make it log in for ever (request, client.ts).
LoginsBounded ==
    Cardinality(given \ {First}) + (IF login = "sent" THEN 1 ELSE 0)
        <= Cardinality({r \in Requests : rPc[r] # "idle"})

\* Every request ends, whatever expires and whichever login fails.
RequestsEnd == \A r \in Requests : rPc[r] = "sent" ~> rPc[r] \in {"ok", "failed"}

\* After the user has logged out the client holds no token (it may: a refusal
\* that overlaps with the logout makes it log in again).
LogoutSticks == loggedOut => token = NoToken
===============================================================================
