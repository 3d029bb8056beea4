------------------------------- MODULE JobQueue -------------------------------
(***************************************************************************)
(* server/queue.ts with Redis: the lists ready, processing and dead and    *)
(* the sorted set delayed, shared by worker processes.  Each process runs  *)
(* one loop (claim, handle, acknowledge or put back, or scan for stale     *)
(* jobs when nothing came) and a timer that promotes delayed jobs.  Every  *)
(* Redis command is one step.                                              *)
(*                                                                         *)
(* An entry is the JSON text of a job.  Its claimedAt is set in memory     *)
(* after the pop, so the text in processing carries it only when an        *)
(* earlier attempt failed and wrote it back: that is the field stamped.    *)
(* Texts that differ only in their claim time count as copies of one       *)
(* entry.  Order inside the lists and backoff times are left out: any      *)
(* ready job may be next, any delayed job may be due, any stamp be old.    *)
(*                                                                         *)
(* A command may fail, carried out or not, and one whose answer is lost    *)
(* with the connection is sent again (ioredis, maxRetriesPerRequest): the  *)
(* actions ...Fails and ...Unanswered.  Left out is an lrem that, sent       *)
(* again, removes a second copy of the same text: the process has the job  *)
(* in hand at that moment.                                                 *)
(* Definitions named X_Fault are faulty variants of X, used by no action.  *)
(***************************************************************************)
EXTENDS Naturals, BagsExt, Bags

CONSTANTS
    Jobs, Workers,
    MaxAttempts,    \* maxAttempts, 5 in the code
    MaxFaults       \* bound: how many processes die and lists get a second copy

JobQueueAssumption ==
    /\ MaxAttempts \in Nat \ {0}
    /\ MaxFaults \in Nat

Entry == [job : Jobs, attempts : 0..MaxAttempts, stamped : BOOLEAN]

VARIABLES
    submitted,                          \* jobs enqueue() returned for
    ready, processing, delayed, dead,   \* bags of entries in Redis
    wPc,        \* per worker: idle, run, ack, nack, requeue, scan, reput, catch, down
    held,       \* per worker: the entries its loop holds in memory (at most one)
    todo,       \* per worker: stale entries its scan still has to move
    moving,     \* per worker: the entries its timer holds in memory
    done,       \* jobs whose handler succeeded
    runs,       \* per job: how often its handler was started
    dropped,    \* jobs a process let go of between two commands (history)
    faults

lists == <<ready, processing, delayed, dead>>
loop  == <<wPc, held, todo>>
mishaps == <<dropped, faults>>
vars  == <<submitted, lists, loop, moving, done, runs, mishaps>>

Init ==
    /\ submitted = {}
    /\ ready = EmptyBag
    /\ processing = EmptyBag
    /\ delayed = EmptyBag
    /\ dead = EmptyBag
    /\ wPc = [w \in Workers |-> "idle"]
    /\ held = [w \in Workers |-> {}]
    /\ todo = [w \in Workers |-> {}]
    /\ moving = [w \in Workers |-> {}]
    /\ done = {}
    /\ runs = [j \in Jobs |-> 0]
    /\ dropped = {}
    /\ faults = 0

New(j) == [job |-> j, attempts |-> 0, stamped |-> FALSE]

Enqueue(j) ==
    /\ j \notin submitted
    /\ submitted' = submitted \cup {j}
    /\ ready' = BagAdd(ready, New(j))
    /\ UNCHANGED <<processing, delayed, dead, loop, moving, done, runs, mishaps>>

\* Sent again, it adds the job twice; given up, the caller is told of a failure.
EnqueueUnanswered(j) ==
    /\ j \notin submitted
    /\ faults < MaxFaults
    /\ faults' = faults + 1
    /\ ready' = BagAdd(ready, New(j))
    /\ UNCHANGED <<submitted, processing, delayed, dead, loop, moving, done, runs, dropped>>

-------------------------------------------------------------------------------
(* redisWorker *)

\* brpoplpush, then the handler is started.
Claim(w) ==
    /\ wPc[w] = "idle"
    /\ \E e \in BagToSet(ready) :
          /\ ready' = BagRemove(ready, e)
          /\ processing' = BagAdd(processing, e)
          /\ held' = [held EXCEPT ![w] = {e}]
          /\ runs' = [runs EXCEPT ![e.job] = @ + 1]
    /\ wPc' = [wPc EXCEPT ![w] = "run"]
    /\ UNCHANGED <<submitted, delayed, dead, todo, moving, done, mishaps>>

\* The entry is in processing, and no process has it.
ClaimUnanswered(w) ==
    /\ wPc[w] = "idle"
    /\ \E e \in BagToSet(ready) :
          /\ ready' = BagRemove(ready, e)
          /\ processing' = BagAdd(processing, e)
    /\ UNCHANGED <<submitted, delayed, dead, loop, moving, done, runs, mishaps>>

HandlerSucceeds(w) ==
    /\ wPc[w] = "run"
    /\ wPc' = [wPc EXCEPT ![w] = "ack"]
    /\ done' = done \cup {e.job : e \in held[w]}
    /\ UNCHANGED <<submitted, lists, held, todo, moving, runs, mishaps>>

HandlerFails(w) ==
    /\ wPc[w] = "run"
    /\ wPc' = [wPc EXCEPT ![w] = "nack"]
    /\ UNCHANGED <<submitted, lists, held, todo, moving, done, runs, mishaps>>

Ack(w) ==
    /\ wPc[w] = "ack"
    /\ wPc' = [wPc EXCEPT ![w] = "idle"]
    /\ held' = [held EXCEPT ![w] = {}]
    /\ \E e \in held[w] : processing' = BagRemove(processing, e)
    /\ UNCHANGED <<submitted, ready, delayed, dead, todo, moving, done, runs, mishaps>>

\* The acknowledging lrem is inside the try block of the handler, so its
\* failure counts as a failure of the job.
AckFails(w) ==
    /\ wPc[w] = "ack"
    /\ wPc' = [wPc EXCEPT ![w] = "nack"]
    /\ \E e \in held[w] : processing' \in {processing, BagRemove(processing, e)}
    /\ UNCHANGED <<submitted, ready, delayed, dead, held, todo, moving, done, runs, mishaps>>

Nack(w) ==
    /\ wPc[w] = "nack"
    /\ wPc' = [wPc EXCEPT ![w] = "requeue"]
    /\ \E e \in held[w] : processing' = BagRemove(processing, e)
    /\ UNCHANGED <<submitted, ready, delayed, dead, held, todo, moving, done, runs, mishaps>>

Exhausted_Late(e) == e.attempts > MaxAttempts
Exhausted(e) == e.attempts + 1 >= MaxAttempts

\* The failed attempt, written back with the claim time of this run.
Retried(e) == [e EXCEPT !.attempts = @ + 1, !.stamped = TRUE]

Requeue_DropsDead(w) ==
    /\ wPc[w] = "requeue"
    /\ wPc' = [wPc EXCEPT ![w] = "idle"]
    /\ held' = [held EXCEPT ![w] = {}]
    /\ \E e \in held[w] :
          delayed' = IF Exhausted(e) THEN delayed ELSE BagAdd(delayed, Retried(e))
    /\ UNCHANGED <<submitted, ready, processing, dead, todo, moving, done, runs, mishaps>>

Requeue(w) ==
    /\ wPc[w] = "requeue"
    /\ wPc' = [wPc EXCEPT ![w] = "idle"]
    /\ held' = [held EXCEPT ![w] = {}]
    /\ \E e \in held[w] :
          IF Exhausted(e)
          THEN dead' = BagAdd(dead, Retried(e)) /\ UNCHANGED delayed
          ELSE delayed' = BagAdd(delayed, Retried(e)) /\ UNCHANGED dead
    /\ UNCHANGED <<submitted, ready, processing, todo, moving, done, runs, mishaps>>

-------------------------------------------------------------------------------
(* promoteDelayed, every second while the process lives: zrem, then lpush *)

PromoteTake(w) ==
    /\ wPc[w] # "down"
    /\ moving[w] = {}
    /\ \E e \in BagToSet(delayed) :
          /\ delayed' = BagRemove(delayed, e)
          /\ moving' = [moving EXCEPT ![w] = {e}]
    /\ UNCHANGED <<submitted, ready, processing, dead, loop, done, runs, mishaps>>

\* Sent again, zrem removes nothing, and the entry is skipped.
PromoteTakeUnanswered(w) ==
    /\ wPc[w] # "down"
    /\ moving[w] = {}
    /\ \E e \in BagToSet(delayed) :
          /\ delayed' = BagRemove(delayed, e)
          /\ dropped' = dropped \cup {e.job}
    /\ UNCHANGED <<submitted, ready, processing, dead, loop, moving, done, runs, faults>>

PromotePut(w) ==
    /\ \E e \in moving[w] : ready' = BagAdd(ready, e)
    /\ moving' = [moving EXCEPT ![w] = {}]
    /\ UNCHANGED <<submitted, processing, delayed, dead, loop, done, runs, mishaps>>

-------------------------------------------------------------------------------
(* recoverStale: a scan of processing, then lrem and lpush per stale entry *)

Stamped == {e \in BagToSet(processing) : e.stamped}

Stale_Never == {}

\* Entries of the scan whose stamp is older than visibilityMs, at most.
Stale == Stamped

RecoverScan(w, old) ==
    /\ wPc[w] = "idle"
    /\ old # {}
    /\ wPc' = [wPc EXCEPT ![w] = "scan"]
    /\ todo' = [todo EXCEPT ![w] = old]
    /\ UNCHANGED <<submitted, lists, held, moving, done, runs, mishaps>>

\* The number lrem removed is not looked at.
RecoverDrop(w) ==
    /\ wPc[w] = "scan"
    /\ \E e \in todo[w] :
          /\ processing' = BagRemove(processing, e)
          /\ held' = [held EXCEPT ![w] = {e}]
          /\ todo' = [todo EXCEPT ![w] = @ \ {e}]
    /\ wPc' = [wPc EXCEPT ![w] = "reput"]
    /\ UNCHANGED <<submitted, ready, delayed, dead, moving, done, runs, mishaps>>

Unstamped(e) == [e EXCEPT !.stamped = FALSE]

RecoverPut(w) ==
    /\ wPc[w] = "reput"
    /\ \E e \in held[w] : ready' = BagAdd(ready, Unstamped(e))
    /\ held' = [held EXCEPT ![w] = {}]
    /\ wPc' = [wPc EXCEPT ![w] = IF todo[w] = {} THEN "idle" ELSE "scan"]
    /\ UNCHANGED <<submitted, processing, delayed, dead, todo, moving, done, runs, mishaps>>

\* Both commands are inside a try block, whose catch takes the entry out of
\* processing and goes on with the next one.
RecoverDropFails(w) ==
    /\ wPc[w] = "scan"
    /\ wPc' = [wPc EXCEPT ![w] = "catch"]
    /\ \E e \in todo[w] :
          /\ processing' \in {processing, BagRemove(processing, e)}
          /\ held' = [held EXCEPT ![w] = {e}]
          /\ todo' = [todo EXCEPT ![w] = @ \ {e}]
    /\ UNCHANGED <<submitted, ready, delayed, dead, moving, done, runs, mishaps>>

RecoverPutFails(w) ==
    /\ wPc[w] = "reput"
    /\ wPc' = [wPc EXCEPT ![w] = "catch"]
    /\ UNCHANGED <<submitted, lists, held, todo, moving, done, runs, mishaps>>

Catch(w) ==
    /\ wPc[w] = "catch"
    /\ \E e \in held[w] :
          /\ processing' = BagRemove(processing, e)
          /\ dropped' = dropped \cup {e.job}
    /\ held' = [held EXCEPT ![w] = {}]
    /\ wPc' = [wPc EXCEPT ![w] = IF todo[w] = {} THEN "idle" ELSE "scan"]
    /\ UNCHANGED <<submitted, ready, delayed, dead, todo, moving, done, runs, faults>>

-------------------------------------------------------------------------------
\* An lpush of the loop or of the timer that is sent again, or given up as failed.
PutUnanswered(w) ==
    /\ faults < MaxFaults
    /\ faults' = faults + 1
    /\ \/ /\ wPc[w] = "reput"
          /\ \E e \in held[w] : ready' = BagAdd(ready, Unstamped(e))
          /\ UNCHANGED dead
       \/ /\ wPc[w] = "requeue"
          /\ \E e \in held[w] : Exhausted(e) /\ dead' = BagAdd(dead, Retried(e))
          /\ UNCHANGED ready
       \/ /\ \E e \in moving[w] : ready' = BagAdd(ready, e)
          /\ UNCHANGED dead
    /\ UNCHANGED <<submitted, processing, delayed, loop, moving, done, runs, dropped>>

\* Entries that are in the process's memory only, between two commands.
Between(w) ==
    moving[w] \cup IF wPc[w] \in {"requeue", "reput", "catch"} THEN held[w] ELSE {}

\* The process dies, or closes the queue, or a command fails that no try block
\* and no catch is around, and index.ts takes the unhandled rejection as a
\* reason to end.  What it held in memory is gone; Redis keeps its lists.
Crash(w) ==
    /\ faults < MaxFaults
    /\ wPc[w] # "down"
    /\ faults' = faults + 1
    /\ dropped' = dropped \cup {e.job : e \in Between(w)}
    /\ wPc' = [wPc EXCEPT ![w] = "down"]
    /\ held' = [held EXCEPT ![w] = {}]
    /\ todo' = [todo EXCEPT ![w] = {}]
    /\ moving' = [moving EXCEPT ![w] = {}]
    /\ UNCHANGED <<submitted, lists, done, runs>>

Restart(w) ==
    /\ wPc[w] = "down"
    /\ wPc' = [wPc EXCEPT ![w] = "idle"]
    /\ UNCHANGED <<submitted, lists, held, todo, moving, done, runs, mishaps>>

\* The pop returned nothing: ready was empty for 5 s.
PopTimesOut(w, old) == ready = EmptyBag /\ RecoverScan(w, old)

Loop(w) ==
    \/ Claim(w)
    \/ HandlerSucceeds(w) \/ HandlerFails(w)
    \/ Ack(w) \/ Nack(w) \/ Requeue(w)
    \/ PopTimesOut(w, Stale)
    \/ RecoverDrop(w) \/ RecoverPut(w) \/ Catch(w)

Timer(w) == PromoteTake(w) \/ PromotePut(w)

\* A process that lives, with stamps of any age.
Lives(w) ==
    \/ Loop(w) \/ Timer(w)
    \/ \E old \in SUBSET Stale : PopTimesOut(w, old)

\* Its commands may fail, the pop like any other, or lose their answers.
Errs(w) ==
    \/ \E old \in SUBSET Stale : RecoverScan(w, old)
    \/ AckFails(w) \/ RecoverDropFails(w) \/ RecoverPutFails(w)
    \/ ClaimUnanswered(w) \/ PromoteTakeUnanswered(w)

Next ==
    \/ \E j \in Jobs : Enqueue(j) \/ EnqueueUnanswered(j)
    \/ \E w \in Workers : Lives(w) \/ Errs(w) \/ PutUnanswered(w) \/ Crash(w) \/ Restart(w)

Spec == Init /\ [][Next]_vars

\* Processes run and are restarted, handlers return, stamps grow old.
Fairness == \A w \in Workers : WF_vars(Loop(w)) /\ WF_vars(Timer(w)) /\ WF_vars(Restart(w))

FairSpec == Spec /\ Fairness

-------------------------------------------------------------------------------
(* Properties *)

IsBag(b) == DOMAIN b \subseteq Entry /\ \A e \in DOMAIN b : b[e] \in Nat \ {0}

\* Every variable holds a value the code can give it.
TypeOK ==
    /\ submitted \in SUBSET Jobs
    /\ \A b \in {ready, processing, delayed, dead} : IsBag(b)
    /\ wPc \in [Workers -> {"idle", "run", "ack", "nack", "requeue", "scan",
                            "reput", "catch", "down"}]
    /\ held \in [Workers -> SUBSET Entry]
    /\ todo \in [Workers -> SUBSET Entry]
    /\ moving \in [Workers -> SUBSET Entry]
    /\ done \in SUBSET Jobs
    /\ runs \in [Jobs -> Nat]
    /\ dropped \in SUBSET Jobs
    /\ faults \in 0..MaxFaults

Somewhere(j) ==
    \/ \E b \in {ready, processing, delayed, dead} : \E e \in BagToSet(b) : e.job = j
    \/ \E w \in Workers : \E e \in Between(w) : e.job = j

\* The queue is durable: an accepted job is done, or in Redis, or in the memory
\* of a live process between two commands, and can disappear only from there.
JobKept == \A j \in submitted \ (done \cup dropped) : Somewhere(j)

\* The queue is durable without that exception (it is not: commands that fail
\* between lrem and lpush drop a job although its worker lives).
NothingDropped == dropped = {}

Running(j) == {w \in Workers : wPc[w] = "run" /\ \E e \in held[w] : e.job = j}

\* While a worker runs a job, the visibility timeout hides it from the others
\* (not of a retried job: its entry names the time of the run before).
SingleRun == \A j \in Jobs : \A v, w \in Running(j) : v = w

\* Every accepted job is done or ends in the dead-letter list.
JobFinishes ==
    \A j \in Jobs : j \in submitted ~> j \in done \/ \E e \in BagToSet(dead) : e.job = j

HeldIn(j, pcs) == \E w \in Workers : wPc[w] \in pcs /\ \E e \in held[w] : e.job = j

\* Where a job is, as the contract sees it.
Status(j) ==
    IF j \notin submitted THEN "none"
    ELSE IF j \in done THEN "done"
    ELSE IF \E e \in BagToSet(dead) : e.job = j THEN "dead"
    ELSE IF HeldIn(j, {"run", "nack", "requeue"}) THEN "running"
    ELSE "waiting"

Contract == INSTANCE QueueContract WITH
    status <- [j \in Jobs |-> Status(j)],
    tries  <- runs

\* A worker that lives, and whose commands succeed, keeps the queue's promise
\* (redisWorker).
ContractSpec == Contract!FairSpec

\* A retried job that a dead worker left in processing is taken up again.
RetriedJobRecovered ==
    \A e \in Entry :
        e.stamped /\ BagIn(e, processing) ~> ~BagIn(e, processing)
===============================================================================
