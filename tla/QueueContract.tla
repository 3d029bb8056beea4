---------------------------- MODULE QueueContract ----------------------------
(***************************************************************************)
(* What server/queue.ts promises about a job (DurableQueue), whether it    *)
(* keeps the jobs in Redis or in memory: an accepted job is run until one  *)
(* attempt succeeds or MaxAttempts have failed, one attempt at a time, and *)
(* then never again.                                                       *)
(***************************************************************************)
EXTENDS Naturals

CONSTANTS
    Jobs,
    MaxAttempts     \* maxAttempts, 5 in the code

VARIABLES
    status,     \* per job: none, waiting, running, done, dead
    tries       \* per job: attempts begun

vars == <<status, tries>>

Init ==
    /\ status = [j \in Jobs |-> "none"]
    /\ tries = [j \in Jobs |-> 0]

Become(j, s) == status' = [status EXCEPT ![j] = s]

Accept(j) ==
    /\ status[j] = "none"
    /\ Become(j, "waiting")
    /\ UNCHANGED tries

Begin(j) ==
    /\ status[j] = "waiting"
    /\ Become(j, "running")
    /\ tries' = [tries EXCEPT ![j] = @ + 1]

Succeed(j) ==
    /\ status[j] = "running"
    /\ Become(j, "done")
    /\ UNCHANGED tries

Fail(j) ==
    /\ status[j] = "running"
    /\ Become(j, IF tries[j] < MaxAttempts THEN "waiting" ELSE "dead")
    /\ UNCHANGED tries

Next == \E j \in Jobs : Accept(j) \/ Begin(j) \/ Succeed(j) \/ Fail(j)

Spec == Init /\ [][Next]_vars

\* An accepted job is not left waiting, nor an attempt without a result.
FairSpec ==
    /\ Spec
    /\ \A j \in Jobs : WF_vars(Begin(j)) /\ WF_vars(Succeed(j) \/ Fail(j))
==============================================================================
