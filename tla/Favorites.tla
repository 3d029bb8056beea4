--------------------------------- MODULE Favorites ---------------------------------
(***************************************************************************)
(* The server's list of favourites, one user and one published product of  *)
(* it: requests to add and to remove the product, handled concurrently     *)
(* (server/app.ts, /api/me/favorites), over a table with a unique index on *)
(* (user_id, product_id).  What the handler sees of a violated index is    *)
(* the text of the driver's error.  Other failures of the database are left *)
(* out: the statements here are answered.  Definitions named X_Fault are    *)
(* faulty variants of X, used by no action.                                *)
(***************************************************************************)
EXTENDS Naturals, FiniteSets

CONSTANTS
    Adds,       \* POST /api/me/favorites
    Removes,    \* DELETE /api/me/favorites/:productId
    Driver      \* sqlite (development, tests) or postgres (production)

Requests == Adds \cup Removes

FavoritesAssumption ==
    /\ Adds \cap Removes = {}
    /\ IsFiniteSet(Requests)
    /\ Driver \in {"sqlite", "postgres"}

VARIABLES
    rows,   \* rows of user_favorites for the pair
    pc,     \* per request: idle, insert, conflict, done
    reply   \* per request: the status it was answered with, 0 before

vars == <<rows, pc, reply>>

Init ==
    /\ rows = 0
    /\ pc = [r \in Requests |-> "idle"]
    /\ reply = [r \in Requests |-> 0]

Goto(r, to) == pc' = [pc EXCEPT ![r] = to]
Answer(r, status) == reply' = [reply EXCEPT ![r] = status] /\ Goto(r, "done")

-------------------------------------------------------------------------------
\* The product is looked up and is on sale.
AddRead(r) ==
    /\ pc[r] = "idle"
    /\ r \in Adds
    /\ Goto(r, "insert")
    /\ UNCHANGED <<rows, reply>>

\* The insert meets the index on (user_id, product_id).
Duplicate == rows > 0

AddInsert(r) ==
    /\ pc[r] = "insert"
    /\ ~Duplicate
    /\ rows' = rows + 1
    /\ Answer(r, 201)

AddConflicts(r) ==
    /\ pc[r] = "insert"
    /\ Duplicate
    /\ Goto(r, "conflict")
    /\ UNCHANGED <<rows, reply>>

\* error.message.includes('UNIQUE'): SQLite says "UNIQUE constraint failed",
\* PostgreSQL "duplicate key value violates unique constraint".
Recognised == Driver = "sqlite"

Conflict_Created(r) ==
    /\ pc[r] = "conflict"
    /\ UNCHANGED rows
    /\ Answer(r, 201)

Conflict(r) ==
    /\ pc[r] = "conflict"
    /\ UNCHANGED rows
    /\ Answer(r, IF Recognised THEN 200 ELSE 500)

Remove(r) ==
    /\ pc[r] = "idle"
    /\ r \in Removes
    /\ rows' = 0
    /\ Answer(r, IF rows > 0 THEN 200 ELSE 404)

Next ==
    \E r \in Requests :
        AddRead(r) \/ AddInsert(r) \/ AddConflicts(r) \/ Conflict(r) \/ Remove(r)

Spec == Init /\ [][Next]_vars

-------------------------------------------------------------------------------
(* Properties *)

\* Every variable holds a value the code can give it; the pair has at most
\* one row.
TypeOK ==
    /\ rows \in 0..1
    /\ pc \in [Requests -> {"idle", "insert", "conflict", "done"}]
    /\ reply \in [Requests -> {0, 200, 201, 404, 500}]

\* The answers account for the table: every 201 put a row there that either
\* is still listed or was taken away by exactly one successful removal.
AnswersBalance ==
    Cardinality({a \in Adds : reply[a] = 201}) =
        rows + Cardinality({d \in Removes : reply[d] = 200})

\* Adding what is already there is a success, as often as it is tried (it is not
\* on PostgreSQL, whose message the handler does not recognise).
AddingIsIdempotent ==
    \A a \in Adds : pc[a] = "done" => reply[a] \in {200, 201}

\* However an add was answered, a 500 included, afterwards the product is listed
\* until a removal that finds it.
AddTakesEffect ==
    \A a \in Adds : pc[a] \in {"conflict", "done"} =>
        rows = 1 \/ \E d \in Removes : reply[d] = 200
===============================================================================
