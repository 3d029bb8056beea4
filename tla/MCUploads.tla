------------------------------- MODULE MCUploads -------------------------------
(***************************************************************************)
(* What happens to uploaded packages, for TLC: uploads and publication     *)
(* (Publishing), the page an editor does it from (ProjectAdmin, composed   *)
(* with Publishing), the scan of one package (Scanner) and the queue of    *)
(* background jobs, in Redis (JobQueue) and in memory (MemoryQueue).       *)
(* Apart from the first two they share no state, so each is explored       *)
(* alone, the others at their start.  A part stands for one of them under  *)
(* one way in which its environment may behave.                            *)
(***************************************************************************)
EXTENDS Publishing, SequencesExt

CONSTANTS
    Parts,
    Nothing, MaxReloads,                                    \* ProjectAdmin
    MaxEntries, MaxEntryBytes, MaxBytes, MaxRatio, MaxLength,           \* Scanner
    Jobs, MaxAttempts,                                      \* both queues
    Workers, FewJobs, LoneWorker, MaxFaults,                \* JobQueue
    Loops, MaxCloses                                        \* MemoryQueue

VARIABLES
    part,
    planned, call, projectId, assetId, form, creating, made, slugFree, planning, plans,
    waits, told, reloads,                                               \* ProjectAdmin
    file, archive, phase, entries, total, findings, scanned, ok,        \* Scanner
    submitted, ready, processing, delayed, dead, wPc, held, todo, moving, done, runs,
    dropped, faults,                                                    \* JobQueue
    memory, running, lPc, lJob, attempts, ended, closes                 \* MemoryQueue

\* Publishing without faults of the store and the database.
Calm == INSTANCE Publishing WITH Faults <- {}

Admin == INSTANCE ProjectAdmin WITH Faults <- {}

-------------------------------------------------------------------------------
\* Every kind of header, and archives of entries drawn from one sound entry and
\* one for each flaw.
AllFiles ==
    [ext : {"zip", "gz", "tar", "txt", "md", "exe"},
     mime : {"zip", "gzip", "tar", "plain"},
     magic : {"zip", "gzip", "text", "binary"},
     secret : BOOLEAN]

ZipFile == [ext |-> "zip", mime |-> "zip", magic |-> "zip", secret |-> FALSE]

Sound == [dir |-> FALSE, size |-> 2, packed |-> 1, encrypted |-> FALSE,
          method |-> 8, name |-> "plain", secret |-> FALSE]

Entries ==
    {Sound,
     [Sound EXCEPT !.dir = TRUE, !.size = 0, !.packed = 0],
     [Sound EXCEPT !.size = 3],
     [Sound EXCEPT !.size = 4, !.packed = 2],
     [Sound EXCEPT !.packed = 0],
     [Sound EXCEPT !.encrypted = TRUE],
     [Sound EXCEPT !.method = 9],
     [Sound EXCEPT !.name = "slip"],
     [Sound EXCEPT !.secret = TRUE]}

Scan == INSTANCE Scanner WITH Files <- AllFiles, Archives <- BoundedSeq(Entries, MaxLength)

-------------------------------------------------------------------------------
\* One worker that lives and whose commands succeed (single); several that live,
\* whose commands may fail (shared); several that may die as well, and lists that
\* get second copies (dying).
Redis == INSTANCE JobQueue

\* Without Redis; closed, and started again at any time after that.
Array == INSTANCE MemoryQueue

\* What both promise; the queue in Redis while its worker lives.
Durable == INSTANCE QueueContract WITH
    status <- [j \in Jobs |-> IF part = "single" THEN Redis!Status(j) ELSE "none"],
    tries  <- [j \in Jobs |-> IF part = "single" THEN runs[j] ELSE 0]

ASSUME UploadsAssumption ==
    /\ Admin!AdminAssumption /\ Scan!ScannerAssumption
    /\ Redis!JobQueueAssumption /\ Array!MemoryQueueAssumption
    /\ MaxLength \in Nat
    /\ FewJobs \subseteq Jobs /\ LoneWorker \in Workers

-------------------------------------------------------------------------------
publishing == vars
page  == <<planned, call, projectId, assetId, form, creating, made, slugFree, planning,
           plans, waits, told, reloads>>
scan  == <<file, archive, phase, entries, total, findings, scanned, ok>>
redis == <<submitted, ready, processing, delayed, dead, wPc, held, todo, moving, done,
           runs, dropped, faults>>
array == <<memory, running, lPc, lJob, attempts, ended, closes>>
all   == <<part, publishing, page, scan, redis, array>>

AnyVersion == CHOOSE v \in Versions : TRUE
AnyProduct == CHOOSE p \in Products : TRUE
AnyAsset   == CHOOSE a \in Assets : TRUE

\* Products and versions are interchangeable, so one upload is for one of them;
\* idle parts start where there is one way to start.
MCInit ==
    /\ part \in Parts
    /\ Init /\ Admin!Init
    /\ part \notin {"faults", "calm"} => version = [p \in Products |-> AnyVersion]
    /\ part \notin {"faults", "calm", "admin"} =>
          upload = [a \in Assets |-> CHOOSE u \in Upload : TRUE]
    /\ part \in {"faults", "calm", "admin"} =>
          upload[AnyAsset].product = AnyProduct /\ version[AnyProduct] = AnyVersion
    /\ part = "admin" => upload[AnyAsset].clean
    /\ part = "admin" /\ VersionKept => \A a \in Assets : upload[a].version = AnyVersion
    /\ part # "admin" \/ VersionKept => form = AnyVersion
    /\ IF part = "headers" THEN archive = << >> ELSE file = ZipFile
    /\ IF part \in {"headers", "zip"} THEN TRUE ELSE archive = << >>
    /\ Scan!Init
    /\ Redis!Init
    /\ Array!Init

PublishingNext ==
    /\ \/ part = "faults" /\ Next
       \/ part = "calm" /\ Calm!Next
    /\ UNCHANGED <<part, page, scan, redis, array>>

PageNext ==
    /\ part = "admin"
    /\ Admin!Next
    /\ UNCHANGED <<part, scan, redis, array>>

ScanNext ==
    /\ part \in {"headers", "zip"}
    /\ Scan!Next
    /\ UNCHANGED <<part, publishing, page, redis, array>>

RedisNext ==
    /\ \/ part \in {"single", "shared"} /\ \E j \in Jobs : Redis!Enqueue(j)
       \/ part = "single" /\ Redis!Lives(LoneWorker)
       \/ part = "shared" /\ \E w \in Workers : Redis!Lives(w) \/ Redis!Errs(w)
       \/ part = "dying" /\ \E j \in FewJobs : Redis!Enqueue(j) \/ Redis!EnqueueUnanswered(j)
       \/ part = "dying" /\ \E w \in Workers :
                Redis!Lives(w) \/ Redis!Errs(w) \/ Redis!PutUnanswered(w)
                    \/ Redis!Crash(w) \/ Redis!Restart(w)
    /\ UNCHANGED <<part, publishing, page, scan, array>>

ArrayNext ==
    /\ part = "memory"
    /\ Array!Next
    /\ UNCHANGED <<part, publishing, page, scan, redis>>

MCNext == PublishingNext \/ PageNext \/ ScanNext \/ RedisNext \/ ArrayNext

\* The fairness of Scanner, JobQueue and MemoryQueue.
MCFairness ==
    /\ WF_scan(part \in {"headers", "zip"} /\ Scan!Next)
    /\ WF_redis(part = "single" /\ Redis!Loop(LoneWorker))
    /\ WF_redis(part = "single" /\ Redis!Timer(LoneWorker))
    /\ \A w \in Workers :
        /\ WF_redis(part = "dying" /\ Redis!Loop(w))
        /\ WF_redis(part = "dying" /\ Redis!Timer(w))
        /\ WF_redis(part = "dying" /\ Redis!Restart(w))
    /\ \A l \in Loops : WF_array(part = "memory" /\ Array!Loop(l))
    /\ WF_array(part = "memory" /\ \E l \in Loops : Array!Start(l))

MCSpec == MCInit /\ [][MCNext]_all /\ MCFairness

-------------------------------------------------------------------------------
\* Without faults of the store and the database no file is left without a row, and
\* what is on sale has its file (the upload's compensation).
NothingLeftOver == part = "calm" => FilesAccounted /\ SoldIsStored

\* An accepted file is what its name, type and first bytes say (scanAsset).
HeaderAgrees == Scan!HeaderAgrees

\* An accepted archive had every entry read and none flawed (scanZip).
AcceptedIsScanned == Scan!AcceptedIsScanned

\* Whatever the archive, what is inflated stays within the limits (scanZip).
BoundedInflation == Scan!BoundedInflation

\* Every scan ends (scanZip).
ScanEnds == part \in {"headers", "zip"} => Scan!ScanEnds

\* A retried job that a dead worker left in processing is taken up again
\* (recoverStale).
RetriedJobRecovered == part = "dying" => Redis!RetriedJobRecovered

\* Every accepted job ends although a worker dies (recoverStale; it does not
\* hold for a job that is run for the first time).
CrashedJobFinishes == part = "dying" => Redis!JobFinishes

\* What an upload lets in and leaves behind: an accepted file is what its header
\* says, an archive was read to its end within the limits, and a refused upload
\* leaves no file (scanAsset, scanZip, POST /api/admin/assets/upload).
UploadIsSound ==
    /\ TypeOK
    /\ Scan!TypeOK
    /\ HeaderAgrees
    /\ AcceptedIsScanned
    /\ BoundedInflation
    /\ NothingLeftOver

\* What an editor's page brings about: a product on sale has a plan, and what the
\* page says of a file is so, whatever answers are late or lost (ProjectAdminPage).
AdminIsSound ==
    part = "admin" =>
        /\ Admin!TypeOK
        /\ Admin!SoldWithPlan
        /\ Admin!ShownIsSound
        /\ Admin!ToldIsPublished
        /\ VersionKept => Admin!ToldIsAvailable

\* And buyers get it, as the page says, when the version in the form is edited
\* after the draft was made (ProjectAdminPage.tsx:41; they do not).
EditedIsAvailable == part = "admin" => Admin!ToldIsAvailable

\* What the queue in Redis keeps although workers die and commands fail or lose
\* their answers: a job that was accepted and is not done is in a list, or a
\* process dropped it between two commands (redisWorker, recoverStale).
QueueIsSound == Redis!TypeOK /\ Array!TypeOK /\ Redis!JobKept

\* In Redis, while the one worker lives, and in memory every accepted job is run
\* until an attempt succeeds or all its attempts have failed, one at a time,
\* and ends (DurableQueue, redisWorker, memoryWorker).
QueueContractKept == Durable!FairSpec /\ Array!ContractSpec

\* Background work ends: scans, and the retried jobs of a worker that died are
\* taken up again (scanZip, recoverStale).
WorkEnds ==
    /\ ScanEnds
    /\ RetriedJobRecovered
===============================================================================
