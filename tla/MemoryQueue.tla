----------------------------- MODULE MemoryQueue -----------------------------
(***************************************************************************)
(* server/queue.ts without Redis: an array of jobs and a loop that takes   *)
(* the first, runs it, and waits through its backoff before it takes the   *)
(* next.  close() only clears a flag, which a loop reads when it comes     *)
(* round, so a queue that is started again soon has two loops.             *)
(*                                                                         *)
(* The jobs die with the process, by design.  Definitions named X_Fault    *)
(* are faulty variants of X, used by no action.                            *)
(***************************************************************************)
EXTENDS Naturals, SequencesExt

CONSTANTS
    Jobs,
    Loops,          \* runs of memoryWorker
    MaxAttempts,    \* maxAttempts, 5 in the code
    MaxCloses       \* bound: how often the queue is closed

MemoryQueueAssumption ==
    /\ MaxAttempts \in Nat \ {0}
    /\ MaxCloses \in Nat

VARIABLES
    memory,     \* the array
    running,
    lPc,        \* per loop: off, loop, run, backoff
    lJob,       \* per loop: the jobs it holds (at most one)
    attempts,   \* per job: its attempts field
    ended,      \* per job: no, done, dead (only logged)
    closes

loops == <<lPc, lJob>>
vars  == <<memory, running, loops, attempts, ended, closes>>

Init ==
    /\ memory = << >>
    /\ running = FALSE
    /\ lPc = [l \in Loops |-> "off"]
    /\ lJob = [l \in Loops |-> {}]
    /\ attempts = [j \in Jobs |-> 0]
    /\ ended = [j \in Jobs |-> "no"]
    /\ closes = 0

HeldIn(j, pc) == \E l \in Loops : lPc[l] = pc /\ j \in lJob[l]

\* Where a job is, as the contract sees it.
Status(j) ==
    IF ended[j] # "no" THEN ended[j]
    ELSE IF HeldIn(j, "run") THEN "running"
    ELSE IF HeldIn(j, "backoff") \/ j \in ToSet(memory) THEN "waiting"
    ELSE "none"

Enqueue(j) ==
    /\ Status(j) = "none"
    /\ memory' = Append(memory, j)
    /\ UNCHANGED <<running, loops, attempts, ended, closes>>

Start(l) ==
    /\ ~running
    /\ lPc[l] = "off"
    /\ running' = TRUE
    /\ lPc' = [lPc EXCEPT ![l] = "loop"]
    /\ UNCHANGED <<memory, lJob, attempts, ended, closes>>

Close ==
    /\ running
    /\ closes < MaxCloses
    /\ running' = FALSE
    /\ closes' = closes + 1
    /\ UNCHANGED <<memory, loops, attempts, ended>>

-------------------------------------------------------------------------------
(* memoryWorker *)

\* The loop has come round, perhaps after 250 ms without a job.
Leave(l) ==
    /\ lPc[l] = "loop"
    /\ ~running
    /\ lPc' = [lPc EXCEPT ![l] = "off"]
    /\ UNCHANGED <<memory, running, lJob, attempts, ended, closes>>

Shift(l) ==
    /\ lPc[l] = "loop"
    /\ running
    /\ memory # << >>
    /\ memory' = Tail(memory)
    /\ lPc' = [lPc EXCEPT ![l] = "run"]
    /\ lJob' = [lJob EXCEPT ![l] = {Head(memory)}]
    /\ UNCHANGED <<running, attempts, ended, closes>>

HandlerSucceeds(l) ==
    /\ lPc[l] = "run"
    /\ lPc' = [lPc EXCEPT ![l] = "loop"]
    /\ lJob' = [lJob EXCEPT ![l] = {}]
    /\ ended' = [j \in Jobs |-> IF j \in lJob[l] THEN "done" ELSE ended[j]]
    /\ UNCHANGED <<memory, running, attempts, closes>>

\* Whether a job is put back after so many attempts.
Retries_Once_More(n) == n <= MaxAttempts
Retries(n) == n < MaxAttempts

HandlerFails(l) ==
    /\ lPc[l] = "run"
    /\ \E j \in lJob[l] :
        /\ attempts' = [attempts EXCEPT ![j] = @ + 1]
        /\ IF Retries(attempts'[j])
           THEN /\ lPc' = [lPc EXCEPT ![l] = "backoff"]
                /\ UNCHANGED <<lJob, ended>>
           ELSE /\ lPc' = [lPc EXCEPT ![l] = "loop"]
                /\ lJob' = [lJob EXCEPT ![l] = {}]
                /\ ended' = [ended EXCEPT ![j] = "dead"]
    /\ UNCHANGED <<memory, running, closes>>

PutBack(l) ==
    /\ lPc[l] = "backoff"
    /\ \E j \in lJob[l] : memory' = Append(memory, j)
    /\ lPc' = [lPc EXCEPT ![l] = "loop"]
    /\ lJob' = [lJob EXCEPT ![l] = {}]
    /\ UNCHANGED <<running, attempts, ended, closes>>

Loop(l) == Leave(l) \/ Shift(l) \/ HandlerSucceeds(l) \/ HandlerFails(l) \/ PutBack(l)

-------------------------------------------------------------------------------
Next ==
    \/ \E j \in Jobs : Enqueue(j)
    \/ \E l \in Loops : Start(l) \/ Loop(l)
    \/ Close

\* Handlers return, and a queue that was closed is started again.
Fairness == (\A l \in Loops : WF_vars(Loop(l))) /\ WF_vars(\E l \in Loops : Start(l))

FairSpec == Init /\ [][Next]_vars /\ Fairness

-------------------------------------------------------------------------------
(* Properties *)

\* Every variable holds a value the code can give it.
TypeOK ==
    /\ memory \in Seq(Jobs)
    /\ running \in BOOLEAN
    /\ lPc \in [Loops -> {"off", "loop", "run", "backoff"}]
    /\ lJob \in [Loops -> SUBSET Jobs]
    /\ attempts \in [Jobs -> 0..MaxAttempts]
    /\ ended \in [Jobs -> {"no", "done", "dead"}]
    /\ closes \in 0..MaxCloses

Tries(j) == attempts[j] + IF Status(j) \in {"running", "done"} THEN 1 ELSE 0

Contract == INSTANCE QueueContract WITH
    status <- [j \in Jobs |-> Status(j)],
    tries  <- [j \in Jobs |-> Tries(j)]

\* The array and its loops keep the queue's promise (memoryWorker).
ContractSpec == Contract!FairSpec
==============================================================================
