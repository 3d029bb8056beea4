------------------------------- MODULE Delivery -------------------------------
(***************************************************************************)
(* One-time download links: POST /api/purchases/:id/download issues a      *)
(* token, GET /api/download/:token claims it, streams the archive and      *)
(* settles the row of delivery_events: issued -> streaming -> used, or     *)
(* back to issued when storage, the stream or the client fails.            *)
(*                                                                         *)
(* One entitlement and its published archive; the tokens are the rows of   *)
(* delivery_events it may get.  The GET handler awaits the row, the claim  *)
(* and the storage, and only then attaches its "finish", "close" and       *)
(* "error" listeners; the updates those listeners start run later.  A lost *)
(* database inside them is an unhandled rejection and shuts the process    *)
(* down (server/index.ts), so it is part of Crash.  Definitions named      *)
(* X_Fault are faulty variants of X, used by no action.                    *)
(***************************************************************************)

CONSTANTS
    Tokens,
    Gets,           \* GET requests
    NoToken,
    EarlyLeave,     \* clients may leave before the listeners are attached
    MayCrash        \* the process may die

ASSUME DeliveryAssumption ==
    /\ NoToken \notin Tokens
    /\ EarlyLeave \in BOOLEAN
    /\ MayCrash \in BOOLEAN

VARIABLES
    access,     \* the entitlement: none, active or revoked (entitlements.active)
    issuing,    \* tokens whose request read the entitlement, row not inserted
    row,        \* delivery_events.status per token, "none" before the insert
    fresh,      \* expires_at has not passed
    gPc,        \* per GET: where its handler is
    gToken,     \* per GET: the token it asks for
    gone,       \* per GET: the client left before the response was complete
    served      \* per GET: the whole archive was handed over ("finish")

issue == <<access, issuing>>
gets  == <<gPc, gToken, gone, served>>
vars  == <<issue, row, fresh, gets>>

\* The handler owns the token: it claimed the row and has not settled it.
\* A "dead" handler went down with the process.
Holding == {"open", "pipe", "release", "use"}

Init ==
    /\ access = "none"
    /\ issuing = {}
    /\ row = [t \in Tokens |-> "none"]
    /\ fresh = [t \in Tokens |-> FALSE]
    /\ gPc = [g \in Gets |-> "idle"]
    /\ gToken = [g \in Gets |-> NoToken]
    /\ gone = [g \in Gets |-> FALSE]
    /\ served = [g \in Gets |-> FALSE]

-------------------------------------------------------------------------------
(* POST /api/purchases/:id/download *)

\* The query asks for an active entitlement of the caller.
Entitled_Whoever == TRUE
Entitled == access = "active"

\* The entitlement and the published asset are read.
IssueRead(t) ==
    /\ Entitled
    /\ row[t] = "none"
    /\ t \notin issuing
    /\ issuing' = issuing \cup {t}
    /\ UNCHANGED <<access, row, fresh, gets>>

IssueInsert(t) ==
    /\ t \in issuing
    /\ issuing' = issuing \ {t}
    /\ row' = [row EXCEPT ![t] = "issued"]
    /\ fresh' = [fresh EXCEPT ![t] = TRUE]
    /\ UNCHANGED <<access, gets>>

\* expires_at passes (DOWNLOAD_TTL_SECONDS after the insert).
Expire(t) ==
    /\ fresh[t]
    /\ fresh' = [fresh EXCEPT ![t] = FALSE]
    /\ UNCHANGED <<issue, row, gets>>

\* The webhook inserts the entitlement of a paid order (Payments).
Grant ==
    /\ access = "none"
    /\ access' = "active"
    /\ UNCHANGED <<issuing, row, fresh, gets>>

\* finalizeRefund clears entitlements.active (Payments).
Revoke ==
    /\ access = "active"
    /\ access' = "revoked"
    /\ UNCHANGED <<issuing, row, fresh, gets>>

-------------------------------------------------------------------------------
(* GET /api/download/:token *)

Downloadable_NoExpiry(t) == row[t] = "issued"
Downloadable(t) == row[t] = "issued" /\ fresh[t]

\* The first query; an unknown, expired or taken token is answered 410.
GetSelect(g, t) ==
    /\ gPc[g] = "idle"
    /\ gToken' = [gToken EXCEPT ![g] = t]
    /\ gPc' = [gPc EXCEPT ![g] = IF Downloadable(t) THEN "claim" ELSE "done"]
    /\ UNCHANGED <<issue, row, fresh, gone, served>>

\* A token is the buyer's to claim while its row is "issued".
Claimable(t) == row[t] = "issued"

\* The claiming update, conditional on the status of that moment.
GetClaim(g) ==
    /\ gPc[g] = "claim"
    /\ IF Claimable(gToken[g])
       THEN /\ row' = [row EXCEPT ![gToken[g]] = "streaming"]
            /\ gPc' = [gPc EXCEPT ![g] = "open"]
       ELSE /\ gPc' = [gPc EXCEPT ![g] = "done"]
            /\ UNCHANGED row
    /\ UNCHANGED <<issue, fresh, gToken, gone, served>>

\* update ... where id=? and status='streaming'
Settle(t, s) == row' = [row EXCEPT ![t] = IF @ = "streaming" THEN s ELSE @]

OpenFails_NoRelease(g) ==
    /\ gPc[g] = "open"
    /\ gPc' = [gPc EXCEPT ![g] = "done"]
    /\ UNCHANGED <<issue, row, fresh, gToken, gone, served>>

\* readAsset throws: the row goes back, the error handler answers.
OpenFails(g) ==
    /\ gPc[g] = "open"
    /\ gPc' = [gPc EXCEPT ![g] = "done"]
    /\ Settle(gToken[g], "issued")
    /\ UNCHANGED <<issue, fresh, gToken, gone, served>>

\* The stream is there: listeners are attached and the pipe starts.
Opens(g) ==
    /\ gPc[g] = "open"
    /\ gPc' = [gPc EXCEPT ![g] = "pipe"]
    /\ UNCHANGED <<issue, row, fresh, gToken, gone, served>>

\* The client leaves while the handler awaits: the response emits "close"
\* with nobody listening.
LeavesEarly(g) ==
    /\ EarlyLeave
    /\ gPc[g] \in {"claim", "open"}
    /\ ~gone[g]
    /\ gone' = [gone EXCEPT ![g] = TRUE]
    /\ UNCHANGED <<issue, row, fresh, gPc, gToken, served>>

\* A download ends one way: the flag "settled" lets only the first event act.
\* The client leaves ("close" before "finish") ...
PipeCloses(g) ==
    /\ gPc[g] = "pipe"
    /\ ~gone[g]
    /\ gPc' = [gPc EXCEPT ![g] = "release"]
    /\ gone' = [gone EXCEPT ![g] = TRUE]
    /\ UNCHANGED <<issue, row, fresh, gToken, served>>

\* ... or storage breaks off ("error" of the stream) ...
PipeFails(g) ==
    /\ gPc[g] = "pipe"
    /\ gPc' = [gPc EXCEPT ![g] = "release"]
    /\ UNCHANGED <<issue, row, fresh, gToken, gone, served>>

\* ... or the response is complete ("finish").  A response whose client left
\* early takes no more data and ends no more.
PipeFinishes(g) ==
    /\ gPc[g] = "pipe"
    /\ ~gone[g]
    /\ gPc' = [gPc EXCEPT ![g] = "use"]
    /\ served' = [served EXCEPT ![g] = TRUE]
    /\ UNCHANGED <<issue, row, fresh, gToken, gone>>

\* The row a listener writes when it starts its update.
Outcome_AlwaysRelease(g) == "issued"
Outcome_AlwaysUsed(g) == "used"
Outcome(g) == IF gPc[g] = "release" THEN "issued" ELSE "used"

\* The update a listener started.
SettleRow(g) ==
    /\ gPc[g] \in {"release", "use"}
    /\ gPc' = [gPc EXCEPT ![g] = "done"]
    /\ Settle(gToken[g], Outcome(g))
    /\ UNCHANGED <<issue, fresh, gToken, gone, served>>

\* Every handler dies with the process; rows stay as they are.
Crash ==
    /\ MayCrash
    /\ \E g \in Gets : gPc[g] \notin {"idle", "done", "dead"}
    /\ gPc' = [g \in Gets |-> IF gPc[g] \in {"idle", "done"} THEN gPc[g] ELSE "dead"]
    /\ issuing' = {}
    /\ UNCHANGED <<access, row, fresh, gToken, gone, served>>

-------------------------------------------------------------------------------
Handler(g) ==
    \/ GetClaim(g)
    \/ OpenFails(g)
    \/ Opens(g)
    \/ PipeCloses(g)
    \/ PipeFinishes(g)
    \/ SettleRow(g)

Downloads ==
    \/ \E t \in Tokens : IssueRead(t) \/ IssueInsert(t) \/ Expire(t)
    \/ \E g \in Gets :
          \/ \E t \in Tokens : GetSelect(g, t)
          \/ Handler(g)
          \/ LeavesEarly(g)
          \/ PipeFails(g)
    \/ Crash

Next ==
    \/ Grant \/ Revoke
    \/ Downloads

Spec == Init /\ [][Next]_vars

\* Callbacks run, a client that is there takes the archive or leaves, time
\* passes.  Nothing is promised of clients that left or of storage.
Fairness ==
    /\ \A g \in Gets : WF_vars(Handler(g))
    /\ \A t \in Tokens : WF_vars(IssueInsert(t)) /\ WF_vars(Expire(t))

FairSpec == Spec /\ Fairness

-------------------------------------------------------------------------------
(* Properties *)

\* Every variable holds a value the code can give it.
TypeOK ==
    /\ access \in {"none", "active", "revoked"}
    /\ issuing \in SUBSET Tokens
    /\ row \in [Tokens -> {"none", "issued", "streaming", "used"}]
    /\ fresh \in [Tokens -> BOOLEAN]
    /\ gPc \in [Gets -> {"idle", "claim", "open", "pipe", "release", "use", "done",
                         "dead"}]
    /\ gToken \in [Gets -> Tokens \cup {NoToken}]
    /\ gone \in [Gets -> BOOLEAN]
    /\ served \in [Gets -> BOOLEAN]

\* One handler at a time owns a token, and while it does the row says so:
\* no release or "used" update of one download touches another's claim.
OneHolder ==
    \A g \in Gets : gPc[g] \in Holding =>
        /\ row[gToken[g]] = "streaming"
        /\ \A h \in Gets \ {g} : gPc[h] \in Holding => gToken[h] # gToken[g]

\* "Download token is one-time": at most one request is served with a token,
\* and a token that served one never becomes claimable again, not even when
\* the process dies before the row is marked used.
ServedOnce ==
    \A g \in Gets : served[g] =>
        /\ row[gToken[g]] \in {"streaming", "used"}
        /\ \A h \in Gets \ {g} : served[h] => gToken[h] # gToken[g]

\* A row is marked used only when some client got the whole archive; a failed
\* download never eats the buyer's token.
UsedMeansServed ==
    \A t \in Tokens : row[t] = "used" =>
        \E g \in Gets : gToken[g] = t /\ served[g]

\* Tokens already issued are not revoked, but they run out: from some time
\* after a refund on no link works, released ones included.
RevokeTakesEffect ==
    access = "revoked" ~> [](\A t \in Tokens : ~Downloadable(t))

\* A handler that claimed a token settles it, marking it used or returning it
\* to the buyer, unless the process dies or the client left too early.
ClaimsSettle ==
    \A g \in Gets, t \in Tokens : gPc[g] \in Holding /\ gToken[g] = t ~>
        \/ row[t] # "streaming"
        \/ gPc[g] = "dead"
        \/ gPc[g] = "pipe" /\ gone[g]

\* A claimed token is settled, whenever clients leave (it does not hold: the
\* listeners come too late for a client that left before the stream opened).
StreamingEnds ==
    \A t \in Tokens : row[t] = "streaming" ~> row[t] # "streaming"
===============================================================================
