--------------------------- MODULE IngestionProofs ---------------------------
(***************************************************************************)
(* Proofs about Ingestion for every number of bases, contents, documents,  *)
(* requests and workers, and every RetryMax and ManualLimit the assumption *)
(* allows.                                                                 *)
(***************************************************************************)
EXTENDS Ingestion, TLAPS

(* What RQ does with a job that failed leaves a job.                        *)
LEMMA FailureOfJob == ASSUME NEW j \in Jobs PROVE AfterFailure(j) \in Jobs
BY DEF Jobs, AfterFailure, Rescheduled, Exhausted

(* Type correctness of the ingestion state, in every reachable state.       *)
THEOREM TypeCorrect == Spec => []TypeOK
<1> USE IngestionAssumption
<1>1. Init => TypeOK
  BY DEF Init, TypeOK, Docs, Jobs, Requests, WorkerStates, IdleReq, IdleWorker, ReqPcs, WorkerPcs
<1>2. TypeOK /\ [Next]_vars => TypeOK'
  <2> SUFFICES ASSUME TypeOK, [Next]_vars PROVE TypeOK'
    OBVIOUS
  <2> USE DEF TypeOK
  <2>1. ASSUME NEW kb \in KBs, CreateBase(kb) PROVE TypeOK'
    BY <2>1 DEF CreateBase
  <2>2. ASSUME NEW r \in Reqs, NEW kb \in KBs, NEW c \in Contents, BeginUpload(r, kb, c)
        PROVE TypeOK'
    <3>1. reqs' \in [Reqs -> Requests]
      BY <2>2 DEF BeginUpload, Requests, ReqPcs, Paths
    <3>2. QED
      BY <2>2, <3>1 DEF BeginUpload
  <2>3. ASSUME NEW r \in Reqs, InsertDocument(r) PROVE TypeOK'
    <3>1. PICK c \in reqs[r].paths, d \in FreeIds :
            /\ docs' = [docs EXCEPT ![d] = [status |-> "PROCESSING", kb |-> reqs[r].kb,
                                            content |-> c, attempts |-> 0, job |-> None]]
            /\ reqs' = [reqs EXCEPT ![r] = [@ EXCEPT !.pc = "inserted", !.docs = {d}]]
      BY <2>3 DEF InsertDocument
    <3>2. c \in Paths /\ d \in DocIds /\ reqs[r].kb \in KBs \cup {None}
      BY DEF FreeIds, Requests
    <3>3. docs' \in [DocIds -> Docs]
      BY <3>1, <3>2 DEF Docs, LiveStates, Paths
    <3>4. [reqs[r] EXCEPT !.pc = "inserted", !.docs = {d}] \in Requests
      <4>1. reqs[r] \in Requests /\ {d} \in SUBSET DocIds
        BY <3>2
      <4>2. QED
        BY <4>1 DEF ReqPcs, Requests
    <3>5. reqs' \in [Reqs -> Requests]
      BY <3>1, <3>4
    <3>6. QED
      BY <2>3, <3>3, <3>5 DEF InsertDocument
  <2>4. ASSUME NEW r \in Reqs, NEW kb \in KBs, BeginDeleteBase(r, kb) PROVE TypeOK'
    <3>1. \A d \in DocIds : docs[d].content \in Paths
      BY DEF Docs, Paths
    <3> DEFINE members == {d \in DocIds : Live(d) /\ docs[d].kb = kb}
    <3>2. [pc |-> "dropVectors", kb |-> kb, docs |-> members,
           paths |-> {docs[d].content : d \in members}] \in Requests
      <4>1. members \in SUBSET DocIds
        OBVIOUS
      <4> HIDE DEF members
      <4>2. {docs[d].content : d \in members} \in SUBSET Paths
        BY <3>1, <4>1
      <4>3. QED
        BY <4>1, <4>2 DEF Requests, ReqPcs
    <3>3. reqs' \in [Reqs -> Requests]
      BY <2>4, <3>2 DEF BeginDeleteBase
    <3>4. QED
      BY <2>4, <3>3 DEF BeginDeleteBase
  <2>5. ASSUME NEW r \in Reqs, RefreshDocument(r) PROVE TypeOK'
    <3>1. reqs' \in [Reqs -> Requests]
      <4>1. [reqs[r] EXCEPT !.pc = "refreshed"] \in Requests
        BY DEF Requests, ReqPcs
      <4>2. QED
        BY <2>5, <4>1 DEF RefreshDocument
    <3>2. QED
      BY <2>5, <3>1 DEF RefreshDocument
  <2>6. ASSUME NEW r \in Reqs, RollbackUpload(r) PROVE TypeOK'
    <3>1. reqs' \in [Reqs -> Requests]
      BY <2>6 DEF RollbackUpload, IdleReq, Requests, ReqPcs
    <3>2. reqs[r].paths \subseteq Paths /\ reqs[r].docs \subseteq DocIds
      BY DEF Requests
    <3>3. QED
      BY <2>6, <3>1, <3>2 DEF RollbackUpload
  <2>7. ASSUME NEW r \in Reqs, EnqueueJob(r) PROVE TypeOK'
    <3>1. reqs' \in [Reqs -> Requests]
      <4>1. [reqs[r] EXCEPT !.pc = "enqueued"] \in Requests
        BY DEF Requests, ReqPcs
      <4>2. QED
        BY <2>7, <4>1 DEF EnqueueJob
    <3>2. jobs' \in [DocIds -> Jobs]
      BY <2>7 DEF EnqueueJob, Jobs
    <3>3. QED
      BY <2>7, <3>1, <3>2 DEF EnqueueJob
  <2>8. ASSUME NEW r \in Reqs, SaveJobId(r) PROVE TypeOK'
    <3>1. reqs' \in [Reqs -> Requests]
      BY <2>8 DEF SaveJobId, IdleReq, Requests, ReqPcs
    <3>2. docs' \in [DocIds -> Docs]
      <4>1. \A d \in DocIds : [docs[d] EXCEPT !.job = d] \in Docs
        BY DEF Docs
      <4>2. QED
        BY <2>8, <4>1 DEF SaveJobId
    <3>3. QED
      BY <2>8, <3>1, <3>2 DEF SaveJobId
  <2>9. ASSUME NEW r \in Reqs, NEW d \in DocIds, BeginDeleteDocument(r, d) PROVE TypeOK'
    <3>1. reqs' \in [Reqs -> Requests]
      BY <2>9 DEF BeginDeleteDocument, Requests, ReqPcs, Docs, Paths
    <3>2. QED
      BY <2>9, <3>1 DEF BeginDeleteDocument
  <2>10. ASSUME NEW r \in Reqs, DropVectors(r) PROVE TypeOK'
    <3>1. reqs' \in [Reqs -> Requests]
      <4>1. [reqs[r] EXCEPT !.pc = "dropRows"] \in Requests
        BY DEF Requests, ReqPcs
      <4>2. QED
        BY <2>10, <4>1 DEF DropVectors
    <3>2. QED
      BY <2>10, <3>1 DEF DropVectors
  <2>11. ASSUME NEW r \in Reqs, DropRows(r) PROVE TypeOK'
    <3>1. reqs' \in [Reqs -> Requests]
      <4>1. [reqs[r] EXCEPT !.pc = "unlink"] \in Requests
        BY DEF Requests, ReqPcs
      <4>2. QED
        BY <2>11, <4>1 DEF DropRows
    <3>2. docs' \in [DocIds -> Docs]
      <4>1. \A d \in DocIds : [docs[d] EXCEPT !.status = "DELETED"] \in Docs
        BY DEF Docs
      <4>2. QED
        BY <2>11, <4>1 DEF DropRows
    <3>3. QED
      BY <2>11, <3>1, <3>2 DEF DropRows
  <2>12. ASSUME NEW r \in Reqs, UnlinkFiles(r) PROVE TypeOK'
    <3>1. reqs' \in [Reqs -> Requests]
      BY <2>12 DEF UnlinkFiles, IdleReq, Requests, ReqPcs
    <3>2. QED
      BY <2>12, <3>1 DEF UnlinkFiles
  <2>13. ASSUME NEW r \in Reqs, RequestDies(r) PROVE TypeOK'
    <3>1. reqs' \in [Reqs -> Requests]
      BY <2>13 DEF RequestDies, IdleReq, Requests, ReqPcs
    <3>2. reqs[r].paths \subseteq Paths /\ reqs[r].docs \subseteq DocIds
      BY DEF Requests
    <3>3. QED
      BY <2>13, <3>1, <3>2 DEF RequestDies
  <2>14. ASSUME NEW w \in Workers, NEW d \in DocIds, TakeJob(w, d) PROVE TypeOK'
    <3>1. workers' \in [Workers -> WorkerStates]
      BY <2>14 DEF TakeJob, WorkerStates, WorkerPcs
    <3>2. jobs' \in [DocIds -> Jobs]
      BY <2>14 DEF TakeJob, Jobs
    <3>3. QED
      BY <2>14, <3>1, <3>2 DEF TakeJob
  <2>15. ASSUME NEW w \in Workers, NEW d \in DocIds, LoadDocument(w, d) PROVE TypeOK'
    <3>1. workers' \in [Workers -> WorkerStates]
      <4>1. [workers[w] EXCEPT !.pc = "record"] \in WorkerStates
        BY DEF WorkerStates, WorkerPcs
      <4>2. QED
        BY <2>15, <4>1 DEF LoadDocument
    <3>2. jobs' \in [DocIds -> Jobs]
      <4>1. [jobs[d] EXCEPT !.meta = docs[d].attempts + 1] \in Jobs
        BY DEF Jobs, Docs
      <4>2. QED
        BY <2>15, <4>1 DEF LoadDocument
    <3>3. QED
      BY <2>15, <3>1, <3>2 DEF LoadDocument
  <2>16. ASSUME NEW w \in Workers, NEW d \in DocIds, RecordAttempt(w, d) PROVE TypeOK'
    <3>1. workers' \in [Workers -> WorkerStates]
      <4>1. [workers[w] EXCEPT !.pc = "parse"] \in WorkerStates
        BY DEF WorkerStates, WorkerPcs
      <4>2. QED
        BY <2>16, <4>1 DEF RecordAttempt
    <3>2. docs' \in [DocIds -> Docs]
      <4>1. docs[d] \in Docs /\ docs[d].attempts + 1 \in Nat
        BY DEF Docs
      <4>2. [docs[d] EXCEPT !.attempts = docs[d].attempts + 1, !.status = "PROCESSING"] \in Docs
        BY <4>1 DEF Docs, LiveStates
      <4>3. QED
        BY <2>16, <4>2 DEF RecordAttempt
    <3>3. QED
      BY <2>16, <3>1, <3>2 DEF RecordAttempt
  <2>17. ASSUME NEW w \in Workers, NEW d \in DocIds, ParseFile(w, d) PROVE TypeOK'
    <3>1. workers' \in [Workers -> WorkerStates]
      <4>1. [workers[w] EXCEPT !.pc = "replace"] \in WorkerStates
        BY DEF WorkerStates, WorkerPcs
      <4>2. QED
        BY <2>17, <4>1 DEF ParseFile
    <3>2. QED
      BY <2>17, <3>1 DEF ParseFile
  <2>18. ASSUME NEW w \in Workers, NEW d \in DocIds, DeleteOldVectors(w, d) PROVE TypeOK'
    <3>1. workers' \in [Workers -> WorkerStates]
      <4>1. [workers[w] EXCEPT !.pc = "upsert"] \in WorkerStates
        BY DEF WorkerStates, WorkerPcs
      <4>2. QED
        BY <2>18, <4>1 DEF DeleteOldVectors
    <3>2. QED
      BY <2>18, <3>1 DEF DeleteOldVectors
  <2>19. ASSUME NEW w \in Workers, NEW d \in DocIds, UpsertVectors(w, d) PROVE TypeOK'
    <3>1. workers' \in [Workers -> WorkerStates]
      <4>1. [workers[w] EXCEPT !.pc = "ready"] \in WorkerStates
        BY DEF WorkerStates, WorkerPcs
      <4>2. QED
        BY <2>19, <4>1 DEF UpsertVectors
    <3>2. QED
      BY <2>19, <3>1 DEF UpsertVectors
  <2>20. ASSUME NEW w \in Workers, NEW d \in DocIds, CommitReady(w, d) PROVE TypeOK'
    <3>1. workers' \in [Workers -> WorkerStates]
      <4>1. [workers[w] EXCEPT !.pc = "returned"] \in WorkerStates
        BY DEF WorkerStates, WorkerPcs
      <4>2. QED
        BY <2>20, <4>1 DEF CommitReady
    <3>2. docs' \in [DocIds -> Docs]
      <4>1. [docs[d] EXCEPT !.status = "READY"] \in Docs
        BY DEF Docs, LiveStates
      <4>2. QED
        BY <2>20, <4>1 DEF CommitReady
    <3>3. QED
      BY <2>20, <3>1, <3>2 DEF CommitReady
  <2>21. ASSUME NEW w \in Workers, NEW d \in DocIds, RunRaises(w, d) PROVE TypeOK'
    <3>1. workers' \in [Workers -> WorkerStates]
      <4>1. [workers[w] EXCEPT !.pc = "except"] \in WorkerStates
        BY DEF WorkerStates, WorkerPcs
      <4>2. QED
        BY <2>21, <4>1 DEF RunRaises
    <3>2. unrecorded' \in [DocIds -> 0..RetryMax + 1]
      BY <2>21 DEF RunRaises, CountUnrecorded
    <3>3. QED
      BY <2>21, <3>1, <3>2 DEF RunRaises, Unconfirmed
  <2>22. ASSUME NEW w \in Workers, NEW d \in DocIds, CommitFailed(w, d) PROVE TypeOK'
    <3>1. workers' \in [Workers -> WorkerStates]
      <4>1. [workers[w] EXCEPT !.pc = "raised"] \in WorkerStates
        BY DEF WorkerStates, WorkerPcs
      <4>2. QED
        BY <2>22, <4>1 DEF CommitFailed
    <3>2. docs' \in [DocIds -> Docs]
      <4>1. [docs[d] EXCEPT !.status = "FAILED"] \in Docs
        BY DEF Docs, LiveStates
      <4>2. QED
        BY <2>22, <4>1 DEF CommitFailed, WithFailure
    <3>3. QED
      BY <2>22, <3>1, <3>2 DEF CommitFailed
  <2>23. ASSUME NEW w \in Workers, NEW d \in DocIds, JobFails(w, d) PROVE TypeOK'
    <3>1. workers' \in [Workers -> WorkerStates]
      BY <2>23 DEF JobFails, IdleWorker, WorkerStates, WorkerPcs
    <3>2. jobs' \in [DocIds -> Jobs]
      BY <2>23, FailureOfJob DEF JobFails
    <3>3. QED
      BY <2>23, <3>1, <3>2 DEF JobFails
  <2>24. ASSUME NEW w \in Workers, NEW d \in DocIds, JobFinishes(w, d) PROVE TypeOK'
    <3>1. workers' \in [Workers -> WorkerStates]
      BY <2>24 DEF JobFinishes, IdleWorker, WorkerStates, WorkerPcs
    <3>2. jobs' \in [DocIds -> Jobs]
      BY <2>24 DEF JobFinishes, Jobs
    <3>3. QED
      BY <2>24, <3>1, <3>2 DEF JobFinishes
  <2>25. ASSUME NEW w \in Workers, NEW d \in DocIds, WorkerDies(w, d) PROVE TypeOK'
    <3>1. workers' \in [Workers -> WorkerStates]
      BY <2>25 DEF WorkerDies, IdleWorker, WorkerStates, WorkerPcs
    <3>2. unrecorded' \in [DocIds -> 0..RetryMax + 1]
      BY <2>25 DEF WorkerDies, CountUnrecorded
    <3>3. QED
      BY <2>25, <3>1, <3>2 DEF WorkerDies, Unconfirmed
  <2>26. ASSUME NEW w \in Workers, NEW d \in DocIds, CloseRaises(w, d) PROVE TypeOK'
    <3>1. workers' \in [Workers -> WorkerStates]
      <4>1. [workers[w] EXCEPT !.pc = "raised"] \in WorkerStates
        BY DEF WorkerStates, WorkerPcs
      <4>2. QED
        BY <2>26, <4>1 DEF CloseRaises
    <3>2. QED
      BY <2>26, <3>1 DEF CloseRaises, Unconfirmed
  <2>27. ASSUME NEW d \in DocIds, Queue(d) PROVE TypeOK'
    <3>1. jobs' \in [DocIds -> Jobs]
      <4>1. CASE AbandonedJob(d)
        BY <4>1, FailureOfJob DEF AbandonedJob
      <4>2. CASE RetryJob(d) \/ JobDue(d) \/ JobExpires(d)
        BY <4>2 DEF RetryJob, JobDue, JobExpires, Jobs
      <4>3. QED
        BY <2>27, <4>1, <4>2 DEF Queue
    <3>2. QED
      BY <2>27, <3>1 DEF Queue, RetryJob, JobDue, AbandonedJob, JobExpires
  <2>28. CASE UNCHANGED vars
    BY <2>28 DEF vars
  <2>29. QED
    BY <2>1, <2>2, <2>3, <2>4, <2>5, <2>6, <2>7, <2>8, <2>9, <2>10, <2>11, <2>12, <2>13,
       <2>14, <2>15, <2>16, <2>17, <2>18, <2>19, <2>20, <2>21, <2>22, <2>23, <2>24, <2>25,
       <2>26, <2>27, <2>28 DEF Next, Request, Run
<1>3. QED
  BY <1>1, <1>2, PTL DEF Spec
-----------------------------------------------------------------------------
(* The inductive invariant behind the attempt counters.  A run is held by   *)
(* one worker; a document of an upload in progress has no job yet; and the  *)
(* two counters (attempts, meta) together with retries_left count runs,     *)
(* from above and, with the runs that were never recorded, from below.      *)
WorkersHoldJobs ==
  \A w \in Workers : workers[w].doc # None =>
    /\ jobs[workers[w].doc].st = "started"
    /\ \A v \in Workers : workers[v].doc = workers[w].doc => v = w

Uploading(r) == reqs[r].pc \in {"inserted", "refreshed"}

UploadsHaveNoJob ==
  /\ \A d \in DocIds : docs[d].status = "FREE" => jobs[d].st = "none"
  /\ \A d \in DocIds : jobs[d].st = "none" =>
       jobs[d].meta = 0 /\ jobs[d].left = 0 /\ docs[d].attempts = 0
  /\ \A r \in Reqs : Uploading(r) =>
       \A d \in reqs[r].docs :
         /\ jobs[d].st = "none"
         /\ docs[d].status # "FREE"
         /\ \A q \in Reqs : Uploading(q) /\ d \in reqs[q].docs => q = r

Waiting(d) == jobs[d].st \in {"queued", "scheduled"} \/ \E w \in Workers : At(w, "load", d)

RunBounded(d) ==
  /\ jobs[d].meta \in {docs[d].attempts, docs[d].attempts + 1}
  /\ \A w \in Workers : At(w, "record", d) => jobs[d].meta = docs[d].attempts + 1
  /\ jobs[d].meta + jobs[d].left <= RetryMax + 1
  /\ Waiting(d) => jobs[d].meta + jobs[d].left <= RetryMax
  /\ jobs[d].st = "failed" => jobs[d].left = 0

Uncounted(d) == \E w \in Workers : At(w, "load", d) \/ At(w, "record", d)

RunsAtLeast(d, n) ==
  unrecorded[d] = RetryMax + 1 \/ docs[d].attempts + unrecorded[d] + jobs[d].left >= n

RunUsed(d) ==
  /\ jobs[d].st \in {"queued", "scheduled", "started"} => RunsAtLeast(d, RetryMax)
  /\ jobs[d].st = "failed" \/ (jobs[d].st = "started" /\ ~Uncounted(d)) =>
       RunsAtLeast(d, RetryMax + 1)

RunsBounded == \A d \in DocIds : RunBounded(d)
RunsUsed    == \A d \in DocIds : RunUsed(d)

(* The lifecycle needs one more: a run past its record has been counted,    *)
(* and its row is PROCESSING unless it was deleted.                         *)
RunsInProgress ==
  \A w \in Workers, d \in DocIds :
    workers[w].doc = d /\ workers[w].pc \in {"parse", "replace", "upsert", "ready"} =>
      docs[d].status \in {"PROCESSING", "DELETED"} /\ docs[d].attempts > 0

Counting == WorkersHoldJobs /\ UploadsHaveNoJob /\ RunsBounded /\ RunsUsed

(* The steps of requests that touch neither rows, jobs nor workers.         *)
Aside(r) ==
  \/ \E kb \in KBs, c \in Contents : BeginUpload(r, kb, c)
  \/ RefreshDocument(r) \/ RollbackUpload(r)
  \/ \E d \in DocIds : BeginDeleteDocument(r, d)
  \/ \E kb \in KBs : BeginDeleteBase(r, kb)
  \/ DropVectors(r) \/ UnlinkFiles(r) \/ RequestDies(r)

LEMMA AsideUnchanged ==
  ASSUME NEW r \in Reqs, Aside(r)
  PROVE  UNCHANGED <<docs, jobs, workers, unrecorded>>
BY DEF Aside, BeginUpload, RefreshDocument, RollbackUpload, BeginDeleteDocument,
       BeginDeleteBase, DropVectors, UnlinkFiles, RequestDies

(* Each part of Counting, kept by every step given the parts before it.     *)
LEMMA WorkersHoldJobsStep ==
  ASSUME IngestionAssumption, TypeOK, WorkersHoldJobs, [Next]_vars
  PROVE  WorkersHoldJobs'
<1> USE DEF WorkersHoldJobs
<1> None \notin DocIds
  BY DEF IngestionAssumption
<1>1. CASE UNCHANGED <<jobs, workers>>
  BY <1>1
<1>2. ASSUME NEW r \in Reqs, EnqueueJob(r) PROVE WorkersHoldJobs'
  BY <1>2 DEF EnqueueJob, TypeOK, WorkerStates
<1>3. ASSUME NEW d \in DocIds, Queue(d) PROVE WorkersHoldJobs'
  BY <1>3 DEF Queue, RetryJob, JobDue, AbandonedJob, JobExpires, TypeOK, WorkerStates, Jobs
<1>4. ASSUME NEW w \in Workers, NEW d \in DocIds, TakeJob(w, d) PROVE WorkersHoldJobs'
  BY <1>4 DEF TakeJob, TypeOK, WorkerStates, Jobs
<1>5. ASSUME NEW w \in Workers, NEW d \in DocIds, LoadDocument(w, d) PROVE WorkersHoldJobs'
  BY <1>5 DEF LoadDocument, TypeOK, WorkerStates, Jobs
<1>6. ASSUME NEW w \in Workers, NEW p \in WorkerPcs, UNCHANGED jobs,
             workers' = [workers EXCEPT ![w].pc = p]
      PROVE  WorkersHoldJobs'
  <2>1. \A v \in Workers : workers'[v].doc = workers[v].doc
    BY <1>6 DEF TypeOK, WorkerStates
  <2>2. QED
    BY <1>6, <2>1
<1>7. ASSUME NEW w \in Workers, NEW d \in DocIds, 
             JobFails(w, d) \/ JobFinishes(w, d) \/ WorkerDies(w, d)
      PROVE  WorkersHoldJobs'
  <2>1. workers' = [workers EXCEPT ![w] = IdleWorker] /\ workers[w].doc = d
    BY <1>7 DEF JobFails, JobFinishes, WorkerDies, At
  <2>2. \A e \in DocIds \ {d} : jobs'[e] = jobs[e]
    BY <1>7 DEF JobFails, JobFinishes, WorkerDies, TypeOK
  <2>3. \A v \in Workers \ {w} : workers'[v] = workers[v]
    BY <2>1 DEF TypeOK
  <2>4. workers'[w].doc = None
    BY <2>1 DEF TypeOK, IdleWorker
  <2>5. SUFFICES ASSUME NEW v \in Workers, workers'[v].doc # None
                 PROVE  /\ jobs'[workers'[v].doc].st = "started"
                        /\ \A u \in Workers : workers'[u].doc = workers'[v].doc => u = v
    OBVIOUS
  <2>6. v # w /\ workers'[v].doc = workers[v].doc
    BY <2>3, <2>4, <2>5
  <2>7. workers[v].doc \in DocIds \ {d}
    BY <2>1, <2>5, <2>6 DEF TypeOK, WorkerStates
  <2>8. /\ jobs[workers[v].doc].st = "started"
        /\ \A u \in Workers : workers[u].doc = workers[v].doc => u = v
    BY <2>5, <2>6
  <2>9. jobs'[workers'[v].doc].st = "started"
    BY <2>2, <2>6, <2>7, <2>8
  <2>10. ASSUME NEW u \in Workers, workers'[u].doc = workers'[v].doc PROVE u = v
    <3>1. u # w
      BY <2>4, <2>5, <2>10
    <3>2. QED
      BY <2>3, <2>6, <2>8, <2>10, <3>1
  <2>11. QED
    BY <2>9, <2>10
<1>8. CASE UNCHANGED vars
  BY <1>8, <1>1 DEF vars
<1>9. ASSUME NEW r \in Reqs, Aside(r) \/ InsertDocument(r) \/ SaveJobId(r) \/ DropRows(r)
      PROVE  WorkersHoldJobs'
  BY <1>9, <1>1, AsideUnchanged DEF InsertDocument, SaveJobId, DropRows
<1>10. ASSUME NEW w \in Workers, NEW d \in DocIds, Run(w, d) PROVE WorkersHoldJobs'
  BY <1>10, <1>4, <1>5, <1>6, <1>7
     DEF Run, RecordAttempt, ParseFile, DeleteOldVectors, UpsertVectors, CommitReady,
         RunRaises, CloseRaises, CommitFailed, WorkerPcs
<1>11. ASSUME NEW kb \in KBs, CreateBase(kb) PROVE WorkersHoldJobs'
  BY <1>11, <1>1 DEF CreateBase
<1>12. QED
  BY <1>2, <1>3, <1>8, <1>9, <1>10, <1>11 DEF Next, Request, Aside

(* What a step that does not concern document d leaves of it.               *)
Untouched(d) ==
  /\ jobs'[d] = jobs[d]
  /\ docs'[d].attempts = docs[d].attempts
  /\ unrecorded'[d] = unrecorded[d]
  /\ \A w \in Workers, pc \in {"load", "record"} : At(w, pc, d)' <=> At(w, pc, d)

LEMMA UntouchedKeepsCounts ==
  ASSUME NEW d \in DocIds, Untouched(d)
  PROVE  (RunBounded(d) => RunBounded(d)') /\ (RunUsed(d) => RunUsed(d)')
<1>1. \A w \in Workers : (At(w, "load", d)' <=> At(w, "load", d))
                      /\ (At(w, "record", d)' <=> At(w, "record", d))
  BY DEF Untouched
<1>2. (Waiting(d)' <=> Waiting(d)) /\ (Uncounted(d)' <=> Uncounted(d))
  BY <1>1 DEF Waiting, Uncounted, Untouched
<1>3. RunBounded(d) => RunBounded(d)'
  BY <1>1, <1>2 DEF RunBounded, Untouched
<1>4. RunUsed(d) => RunUsed(d)'
  BY <1>1, <1>2 DEF RunUsed, RunsAtLeast, Untouched
<1>5. QED
  BY <1>3, <1>4

(* A run and the queue touch only the document of the run or of the job.    *)
LEMMA OthersUntouched ==
  ASSUME IngestionAssumption, TypeOK, NEW d \in DocIds, NEW e \in DocIds \ {d},
         Queue(d) \/ \E w \in Workers : Run(w, d)
  PROVE  Untouched(e)
<1>1. CASE Queue(d)
  <2>1. UNCHANGED <<docs, workers, unrecorded>> /\ jobs'[e] = jobs[e]
    BY <1>1 DEF Queue, RetryJob, JobDue, AbandonedJob, JobExpires, TypeOK
  <2>2. QED
    BY <2>1 DEF Untouched, At
<1>2. ASSUME NEW w \in Workers, Run(w, d) PROVE Untouched(e)
  <2>1. jobs'[e] = jobs[e] /\ docs'[e] = docs[e]
    BY <1>2 DEF Run, TakeJob, LoadDocument, RecordAttempt, ParseFile, DeleteOldVectors,
       UpsertVectors, CommitReady, RunRaises, CloseRaises, CommitFailed, WithFailure,
       JobFails, JobFinishes, WorkerDies, TypeOK
  <2>2. unrecorded'[e] = unrecorded[e]
    BY <1>2 DEF Run, TakeJob, LoadDocument, RecordAttempt, ParseFile, DeleteOldVectors,
       UpsertVectors, CommitReady, RunRaises, CloseRaises, CommitFailed, JobFails, JobFinishes,
       WorkerDies, CountUnrecorded, TypeOK
  <2>3. \A v \in Workers \ {w} : workers'[v] = workers[v]
    <3>1. CASE TakeJob(w, d) \/ JobFails(w, d) \/ JobFinishes(w, d) \/ WorkerDies(w, d)
      BY <3>1 DEF TakeJob, JobFails, JobFinishes, WorkerDies, TypeOK
    <3>2. CASE ~(TakeJob(w, d) \/ JobFails(w, d) \/ JobFinishes(w, d) \/ WorkerDies(w, d))
      <4>1. \E pc \in WorkerPcs : workers' = [workers EXCEPT ![w].pc = pc]
        BY <1>2, <3>2 DEF Run, LoadDocument, RecordAttempt, ParseFile, DeleteOldVectors,
           UpsertVectors, CommitReady, RunRaises, CloseRaises, CommitFailed, WorkerPcs
      <4>2. QED
        BY <4>1 DEF TypeOK
    <3>3. QED
      BY <3>1, <3>2
  <2>4. workers[w].pc = "idle" \/ workers[w].doc = d
    BY <1>2 DEF Run, TakeJob, LoadDocument, RecordAttempt, ParseFile, DeleteOldVectors,
       UpsertVectors, CommitReady, RunRaises, CloseRaises, CommitFailed, JobFails, JobFinishes,
       WorkerDies, At
  <2>5. workers'[w].pc = "idle" \/ workers'[w].doc = d
    <3>1. CASE TakeJob(w, d) \/ JobFails(w, d) \/ JobFinishes(w, d) \/ WorkerDies(w, d)
      BY <3>1 DEF TakeJob, JobFails, JobFinishes, WorkerDies, IdleWorker, TypeOK
    <3>2. CASE ~(TakeJob(w, d) \/ JobFails(w, d) \/ JobFinishes(w, d) \/ WorkerDies(w, d))
      <4>1. workers[w].doc = d
        BY <1>2, <3>2 DEF Run, LoadDocument, RecordAttempt, ParseFile, DeleteOldVectors,
           UpsertVectors, CommitReady, RunRaises, CloseRaises, CommitFailed, At
      <4>2. \E pc \in WorkerPcs : workers' = [workers EXCEPT ![w].pc = pc]
        BY <1>2, <3>2 DEF Run, LoadDocument, RecordAttempt, ParseFile, DeleteOldVectors,
           UpsertVectors, CommitReady, RunRaises, CloseRaises, CommitFailed, WorkerPcs
      <4>3. QED
        BY <4>1, <4>2 DEF TypeOK, WorkerStates
    <3>3. QED
      BY <3>1, <3>2
  <2>6. QED
    BY <2>1, <2>2, <2>3, <2>4, <2>5 DEF Untouched, At
<1>3. QED
  BY <1>1, <1>2

(* Requests touch no document's counts, except the enqueueing of a job.     *)
LEMMA RequestsTouchNoRun ==
  ASSUME IngestionAssumption, TypeOK, UploadsHaveNoJob, NEW r \in Reqs, NEW e \in DocIds,
         Aside(r) \/ InsertDocument(r) \/ SaveJobId(r) \/ DropRows(r)
  PROVE  Untouched(e)
<1>1. UNCHANGED <<jobs, workers, unrecorded>>
  BY AsideUnchanged DEF InsertDocument, SaveJobId, DropRows
<1>2. docs'[e].attempts = docs[e].attempts
  <2>1. CASE Aside(r)
    BY <2>1, AsideUnchanged
  <2>2. CASE InsertDocument(r)
    <3>1. PICK c \in reqs[r].paths, d \in FreeIds :
            docs' = [docs EXCEPT ![d] = [status |-> "PROCESSING", kb |-> reqs[r].kb,
                                         content |-> c, attempts |-> 0, job |-> None]]
      BY <2>2 DEF InsertDocument
    <3>2. d \in DocIds /\ docs[d].attempts = 0
      BY <3>1 DEF FreeIds, UploadsHaveNoJob
    <3>3. QED
      BY <3>1, <3>2 DEF TypeOK
  <2>3. CASE SaveJobId(r) \/ DropRows(r)
    <3>1. docs[e] \in Docs
      BY DEF TypeOK
    <3>2. [docs[e] EXCEPT !.job = e].attempts = docs[e].attempts
          /\ [docs[e] EXCEPT !.status = "DELETED"].attempts = docs[e].attempts
      BY <3>1 DEF Docs
    <3>3. QED
      BY <2>3, <3>2 DEF SaveJobId, DropRows
  <2>4. QED
    BY <2>1, <2>2, <2>3
<1>3. QED
  BY <1>1, <1>2 DEF Untouched, At

(* No step but the insertion of a document makes it the upload's.           *)
UploadsOnlyEnd == \A q \in Reqs : Uploading(q)' => Uploading(q) /\ reqs'[q].docs = reqs[q].docs

(* A step that starts no upload, frees no row, and neither makes nor counts *)
(* a run of a document without a job, keeps UploadsHaveNoJob.               *)
NoJobUntouched ==
  \A d \in DocIds :
    /\ docs'[d].status = "FREE" <=> docs[d].status = "FREE"
    /\ jobs'[d].st = "none" <=> jobs[d].st = "none"
    /\ jobs[d].st = "none" => jobs'[d] = jobs[d] /\ docs'[d].attempts = docs[d].attempts

LEMMA UploadsKept ==
  ASSUME TypeOK, UploadsHaveNoJob, UploadsOnlyEnd, NoJobUntouched
  PROVE  UploadsHaveNoJob'
<1>1. \A q \in Reqs : \A d \in reqs[q].docs : d \in DocIds
  BY DEF TypeOK, Requests
<1>2. (\A d \in DocIds : docs[d].status = "FREE" => jobs[d].st = "none")'
  BY DEF UploadsHaveNoJob, NoJobUntouched
<1>3. (\A d \in DocIds : jobs[d].st = "none" =>
         jobs[d].meta = 0 /\ jobs[d].left = 0 /\ docs[d].attempts = 0)'
  BY DEF UploadsHaveNoJob, NoJobUntouched
<1>4. ASSUME NEW r \in Reqs, Uploading(r)', NEW d \in reqs'[r].docs
      PROVE  /\ jobs'[d].st = "none"
             /\ docs'[d].status # "FREE"
             /\ \A q \in Reqs : Uploading(q)' /\ d \in reqs'[q].docs => q = r
  <2>1. Uploading(r) /\ d \in reqs[r].docs /\ d \in DocIds
    BY <1>1, <1>4 DEF UploadsOnlyEnd
  <2>2. jobs[d].st = "none" /\ docs[d].status # "FREE"
    BY <2>1 DEF UploadsHaveNoJob
  <2>3. ASSUME NEW q \in Reqs, Uploading(q)', d \in reqs'[q].docs PROVE q = r
    BY <2>1, <2>3 DEF UploadsOnlyEnd, UploadsHaveNoJob
  <2>4. QED
    BY <2>1, <2>2, <2>3 DEF NoJobUntouched
<1>5. QED
  BY <1>2, <1>3, <1>4 DEF UploadsHaveNoJob

LEMMA UploadsHaveNoJobStep ==
  ASSUME IngestionAssumption, TypeOK, WorkersHoldJobs, UploadsHaveNoJob, [Next]_vars
  PROVE  UploadsHaveNoJob'
<1>1. ASSUME NEW r \in Reqs, Aside(r) \/ SaveJobId(r) \/ DropRows(r) PROVE UploadsHaveNoJob'
  <2>1. UploadsOnlyEnd
    <3>1. \A q \in Reqs \ {r} : reqs'[q] = reqs[q]
      BY <1>1 DEF Aside, BeginUpload, RefreshDocument, RollbackUpload, BeginDeleteDocument,
         BeginDeleteBase, DropVectors, UnlinkFiles, RequestDies, SaveJobId, DropRows, TypeOK
    <3>2. Uploading(r)' => RefreshDocument(r)
      <4>1. CASE \E kb \in KBs, c \in Contents : BeginUpload(r, kb, c)
        BY <4>1 DEF BeginUpload, Uploading, TypeOK
      <4>2. CASE \E d \in DocIds : BeginDeleteDocument(r, d)
        BY <4>2 DEF BeginDeleteDocument, Uploading, TypeOK
      <4>3. CASE \E kb \in KBs : BeginDeleteBase(r, kb)
        BY <4>3 DEF BeginDeleteBase, Uploading, TypeOK
      <4>4. CASE RollbackUpload(r) \/ SaveJobId(r) \/ UnlinkFiles(r) \/ RequestDies(r)
        BY <4>4 DEF RollbackUpload, SaveJobId, UnlinkFiles, RequestDies, Uploading, TypeOK, IdleReq
      <4>5. CASE DropVectors(r) \/ DropRows(r)
        BY <4>5 DEF DropVectors, DropRows, Uploading, TypeOK, Requests
      <4>6. QED
        BY <1>1, <4>1, <4>2, <4>3, <4>4, <4>5 DEF Aside
    <3>3. RefreshDocument(r) => Uploading(r) /\ reqs'[r].docs = reqs[r].docs
      BY DEF RefreshDocument, TypeOK, Requests, Uploading
    <3>4. QED
      BY <3>1, <3>2, <3>3 DEF UploadsOnlyEnd, Uploading
  <2>2. NoJobUntouched
    <3>1. jobs' = jobs
      BY <1>1, AsideUnchanged DEF SaveJobId, DropRows
    <3>2. ASSUME NEW d \in DocIds
          PROVE  /\ docs'[d].status = "FREE" <=> docs[d].status = "FREE"
                 /\ docs'[d].attempts = docs[d].attempts
      <4>1. docs[d] \in Docs
        BY DEF TypeOK
      <4>2. /\ [docs[d] EXCEPT !.job = d].attempts = docs[d].attempts
            /\ [docs[d] EXCEPT !.job = d].status = docs[d].status
            /\ [docs[d] EXCEPT !.status = "DELETED"].attempts = docs[d].attempts
            /\ [docs[d] EXCEPT !.status = "DELETED"].status = "DELETED"
        BY <4>1 DEF Docs
      <4>3. QED
        BY <1>1, <4>2, AsideUnchanged DEF SaveJobId, DropRows, Live, LiveStates
    <3>3. QED
      BY <3>1, <3>2 DEF NoJobUntouched
  <2>3. QED
    BY <2>1, <2>2, UploadsKept
<1>2. ASSUME NEW r \in Reqs, InsertDocument(r) PROVE UploadsHaveNoJob'
  <2>1. PICK c \in reqs[r].paths, d \in FreeIds :
          /\ docs' = [docs EXCEPT ![d] = [status |-> "PROCESSING", kb |-> reqs[r].kb,
                                          content |-> c, attempts |-> 0, job |-> None]]
          /\ reqs' = [reqs EXCEPT ![r] = [@ EXCEPT !.pc = "inserted", !.docs = {d}]]
    BY <1>2 DEF InsertDocument
  <2>2. d \in DocIds /\ docs[d].status = "FREE" /\ jobs[d].st = "none"
    BY DEF FreeIds, UploadsHaveNoJob
  <2>3. docs'[d].status = "PROCESSING" /\ docs'[d].attempts = 0
    BY <2>1, <2>2 DEF TypeOK
  <2>4. \A e \in DocIds \ {d} : docs'[e] = docs[e]
    BY <2>1 DEF TypeOK
  <2>5. reqs'[r].docs = {d} /\ \A q \in Reqs \ {r} : reqs'[q] = reqs[q]
    BY <2>1 DEF TypeOK, Requests
  <2>6. jobs' = jobs
    BY <1>2 DEF InsertDocument
  <2>7. \A q \in Reqs : Uploading(q) => d \notin reqs[q].docs
    BY <2>2 DEF UploadsHaveNoJob
  <2>8. \A q \in Reqs : \A e \in reqs[q].docs : e \in DocIds
    BY DEF TypeOK, Requests
  <2>9. ASSUME NEW q \in Reqs, Uploading(q)', NEW e \in reqs'[q].docs
        PROVE  /\ jobs'[e].st = "none"
               /\ docs'[e].status # "FREE"
               /\ \A p \in Reqs : Uploading(p)' /\ e \in reqs'[p].docs => p = q
    <3>1. CASE q = r
      BY <2>2, <2>3, <2>5, <2>6, <2>7, <2>9, <3>1 DEF Uploading
    <3>2. CASE q # r
      <4>1. Uploading(q) /\ e \in reqs[q].docs /\ e \in DocIds \ {d}
        BY <2>5, <2>7, <2>8, <2>9, <3>2 DEF Uploading
      <4>2. \A p \in Reqs : Uploading(p)' /\ e \in reqs'[p].docs => p # r
        BY <2>5, <4>1
      <4>3. QED
        BY <2>4, <2>5, <2>6, <4>1, <4>2 DEF Uploading, UploadsHaveNoJob
    <3>3. QED
      BY <3>1, <3>2
  <2>10. QED
    BY <2>2, <2>3, <2>4, <2>6, <2>9 DEF UploadsHaveNoJob
<1>3. ASSUME NEW r \in Reqs, EnqueueJob(r) PROVE UploadsHaveNoJob'
  <2>1. Uploading(r) /\ ~Uploading(r)' /\ docs' = docs
    BY <1>3 DEF EnqueueJob, Uploading, TypeOK, Requests
  <2>2. \A q \in Reqs \ {r} : reqs'[q] = reqs[q]
    BY <1>3 DEF EnqueueJob, TypeOK
  <2>3. \A d \in DocIds \ reqs[r].docs : jobs'[d] = jobs[d]
    BY <1>3 DEF EnqueueJob
  <2>4. \A d \in reqs[r].docs : d \in DocIds /\ docs[d].status # "FREE" /\ jobs'[d].st # "none"
    BY <1>3, <2>1 DEF EnqueueJob, UploadsHaveNoJob, TypeOK, Requests
  <2>5. ASSUME NEW q \in Reqs, Uploading(q)', NEW e \in reqs'[q].docs
        PROVE  /\ jobs'[e].st = "none"
               /\ docs'[e].status # "FREE"
               /\ \A p \in Reqs : Uploading(p)' /\ e \in reqs'[p].docs => p = q
    <3>1. q # r /\ Uploading(q) /\ e \in reqs[q].docs /\ e \in DocIds
      BY <2>1, <2>2, <2>5 DEF Uploading, TypeOK, Requests
    <3>2. e \notin reqs[r].docs
      BY <2>1, <3>1 DEF UploadsHaveNoJob
    <3>3. QED
      BY <2>1, <2>2, <2>3, <3>1, <3>2 DEF Uploading, UploadsHaveNoJob
  <2>6. QED
    BY <2>1, <2>3, <2>4, <2>5 DEF UploadsHaveNoJob
<1>4. ASSUME NEW d \in DocIds, Queue(d) PROVE UploadsHaveNoJob'
  <2>1. UNCHANGED <<docs, reqs>> /\ jobs[d].st # "none" /\ jobs'[d].st # "none"
    BY <1>4 DEF Queue, RetryJob, JobDue, AbandonedJob, JobExpires, TypeOK, Jobs, AfterFailure,
       Rescheduled, Exhausted
  <2>2. \A e \in DocIds \ {d} : jobs'[e] = jobs[e]
    BY <1>4 DEF Queue, RetryJob, JobDue, AbandonedJob, JobExpires, TypeOK
  <2>3. QED
    BY <2>1, <2>2, UploadsKept DEF UploadsOnlyEnd, NoJobUntouched, Uploading
<1>5. ASSUME NEW w \in Workers, NEW d \in DocIds, Run(w, d) PROVE UploadsHaveNoJob'
  <2>1. reqs' = reqs
    BY <1>5 DEF Run, TakeJob, LoadDocument, RecordAttempt, ParseFile, DeleteOldVectors,
       UpsertVectors, CommitReady, RunRaises, CloseRaises, CommitFailed, JobFails,
       JobFinishes, WorkerDies
  <2>2. jobs[d].st # "none"
    <3>1. CASE TakeJob(w, d)
      BY <3>1 DEF TakeJob
    <3>2. CASE workers[w].doc = d
      BY <3>2 DEF WorkersHoldJobs, IngestionAssumption
    <3>3. QED
      BY <1>5, <3>1, <3>2 DEF Run, LoadDocument, RecordAttempt, ParseFile, DeleteOldVectors,
         UpsertVectors, CommitReady, RunRaises, CloseRaises, CommitFailed, JobFails,
         JobFinishes, WorkerDies, At
  <2>3. jobs'[d].st # "none"
    BY <1>5, <2>2 DEF Run, TakeJob, LoadDocument, RecordAttempt, ParseFile, DeleteOldVectors,
       UpsertVectors, CommitReady, RunRaises, CloseRaises, CommitFailed, JobFails,
       JobFinishes, WorkerDies, AfterFailure, Rescheduled, Exhausted, TypeOK, Jobs
  <2>4. \A e \in DocIds \ {d} : jobs'[e] = jobs[e] /\ docs'[e] = docs[e]
    BY <1>5 DEF Run, TakeJob, LoadDocument, RecordAttempt, ParseFile, DeleteOldVectors,
       UpsertVectors, CommitReady, RunRaises, CloseRaises, CommitFailed, WithFailure,
       JobFails, JobFinishes, WorkerDies, TypeOK
  <2>5. docs'[d].status = "FREE" <=> docs[d].status = "FREE"
    BY <1>5 DEF Run, TakeJob, LoadDocument, RecordAttempt, ParseFile, DeleteOldVectors,
       UpsertVectors, CommitReady, RunRaises, CloseRaises, CommitFailed, WithFailure,
       JobFails, JobFinishes, WorkerDies, TypeOK, Docs, Live, LiveStates
  <2>6. QED
    BY <2>1, <2>2, <2>3, <2>4, <2>5, UploadsKept DEF UploadsOnlyEnd, NoJobUntouched, Uploading
<1>6. CASE UNCHANGED <<docs, jobs, reqs>>
  BY <1>6 DEF UploadsHaveNoJob, Uploading
<1>7. ASSUME NEW kb \in KBs, CreateBase(kb) PROVE UploadsHaveNoJob'
  BY <1>7, <1>6 DEF CreateBase
<1>8. CASE UNCHANGED vars
  BY <1>8, <1>6 DEF vars
<1>9. QED
  BY <1>1, <1>2, <1>3, <1>4, <1>5, <1>7, <1>8 DEF Next, Request, Aside

(* The numbers the counting argument adds up.                               *)
LEMMA CountsAreNat ==
  ASSUME IngestionAssumption, TypeOK, NEW d \in DocIds
  PROVE  /\ jobs[d].meta \in Nat /\ jobs[d].left \in Nat /\ docs[d].attempts \in Nat
         /\ unrecorded[d] \in Nat /\ unrecorded[d] <= RetryMax + 1
         /\ RetryMax \in Nat /\ ManualLimit \in Nat /\ ManualLimit <= RetryMax + 1
<1>1. jobs[d] \in Jobs /\ docs[d] \in Docs /\ unrecorded[d] \in 0..RetryMax + 1
  BY DEF TypeOK
<1>2. jobs[d].meta \in Nat /\ jobs[d].left \in Nat
  BY <1>1 DEF Jobs
<1>3. docs[d].attempts \in Nat
  BY <1>1 DEF Docs
<1>4. QED
  BY <1>1, <1>2, <1>3 DEF IngestionAssumption

(* A failed run spends one retry or ends the job.                           *)
LEMMA FailureSpendsRetry ==
  ASSUME NEW j \in Jobs
  PROVE  LET k == AfterFailure(j) IN
         /\ k.meta = j.meta
         /\ \/ k.st = "scheduled" /\ k.left = j.left - 1 /\ k.left \in Nat
            \/ k.st = "failed" /\ k.left = 0 /\ j.left = 0
BY DEF Jobs, AfterFailure, Rescheduled, Exhausted

(* While worker w runs document d, no other worker does.                    *)
LEMMA RunIsAlone ==
  ASSUME IngestionAssumption, TypeOK, WorkersHoldJobs, NEW w \in Workers, NEW d \in DocIds,
         Run(w, d)
  PROVE  /\ ~TakeJob(w, d) => workers[w].doc = d /\ jobs[d].st = "started"
         /\ \A v \in Workers \ {w} : workers[v].doc # d /\ workers'[v] = workers[v]
<1>1. CASE TakeJob(w, d)
  <2>1. \A v \in Workers : workers[v].doc # d
    BY <1>1 DEF TakeJob, WorkersHoldJobs, IngestionAssumption
  <2>2. QED
    BY <1>1, <2>1 DEF TakeJob, TypeOK
<1>2. CASE ~TakeJob(w, d)
  <2>1. workers[w].doc = d
    BY <1>2 DEF Run, LoadDocument, RecordAttempt, ParseFile, DeleteOldVectors,
       UpsertVectors, CommitReady, RunRaises, CloseRaises, CommitFailed, JobFails,
       JobFinishes, WorkerDies, At
  <2>2. \A v \in Workers \ {w} : workers'[v] = workers[v]
    BY <1>2 DEF Run, LoadDocument, RecordAttempt, ParseFile, DeleteOldVectors,
       UpsertVectors, CommitReady, RunRaises, CloseRaises, CommitFailed, JobFails, JobFinishes,
       WorkerDies, TypeOK
  <2>3. jobs[d].st = "started" /\ \A v \in Workers : workers[v].doc = d => v = w
    BY <2>1 DEF WorkersHoldJobs, IngestionAssumption
  <2>4. QED
    BY <2>1, <2>2, <2>3
<1>3. QED
  BY <1>1, <1>2

(* A run keeps both counts of its document.                                 *)
LEMMA RunKeepsCounts ==
  ASSUME IngestionAssumption, TypeOK, WorkersHoldJobs, NEW w \in Workers, NEW d \in DocIds,
         Run(w, d), RunBounded(d), RunUsed(d)
  PROVE  RunBounded(d)' /\ RunUsed(d)'
<1>1. /\ jobs[d].meta \in Nat /\ jobs[d].left \in Nat /\ docs[d].attempts \in Nat
      /\ unrecorded[d] \in Nat /\ unrecorded[d] <= RetryMax + 1 /\ RetryMax \in Nat
  BY CountsAreNat
<1>2. \A v \in Workers \ {w} : workers'[v].doc # d
  BY RunIsAlone
<1>3. /\ Waiting(d)' <=> jobs'[d].st \in {"queued", "scheduled"} \/ At(w, "load", d)'
      /\ Uncounted(d)' <=> At(w, "load", d)' \/ At(w, "record", d)'
  BY <1>2 DEF Waiting, Uncounted, At
<1>4. \A v \in Workers : At(v, "record", d)' => v = w
  BY <1>2 DEF At
<1>5. /\ At(w, "load", d) => Waiting(d)
      /\ Uncounted(d) => workers[w].pc \in {"load", "record"} \/ TakeJob(w, d)
  BY RunIsAlone DEF Waiting, Uncounted, At
<1>6. CASE TakeJob(w, d)
  <2>1. /\ UNCHANGED <<docs, unrecorded>> /\ jobs[d].st = "queued" /\ jobs'[d].st = "started"
        /\ jobs'[d].meta = jobs[d].meta /\ jobs'[d].left = jobs[d].left
        /\ At(w, "load", d)' /\ ~At(w, "record", d)'
    BY <1>6 DEF TakeJob, TypeOK, Jobs, At
  <2>2. QED
    BY <1>1, <1>3, <1>4, <2>1 DEF RunBounded, RunUsed, RunsAtLeast, Waiting
<1>7. CASE LoadDocument(w, d)
  <2>1. /\ UNCHANGED <<docs, unrecorded>> /\ jobs'[d].st = jobs[d].st
        /\ jobs'[d].meta = docs[d].attempts + 1 /\ jobs'[d].left = jobs[d].left
        /\ At(w, "record", d)' /\ ~At(w, "load", d)' /\ At(w, "load", d)
    BY <1>7 DEF LoadDocument, TypeOK, Jobs, At, WorkerStates
  <2>2. jobs[d].st = "started"
    BY <1>7, RunIsAlone DEF LoadDocument, TakeJob, At
  <2>3. QED
    BY <1>1, <1>3, <1>4, <1>5, <2>1, <2>2 DEF RunBounded, RunUsed, RunsAtLeast
<1>8. CASE RecordAttempt(w, d)
  <2>1. /\ UNCHANGED <<jobs, unrecorded>> /\ docs'[d].attempts = docs[d].attempts + 1
        /\ ~At(w, "record", d)' /\ ~At(w, "load", d)' /\ At(w, "record", d)
    BY <1>8 DEF RecordAttempt, TypeOK, Docs, At, WorkerStates
  <2>2. jobs[d].st = "started"
    BY <1>8, RunIsAlone DEF RecordAttempt, TakeJob, At
  <2>3. QED
    BY <1>1, <1>3, <1>4, <1>5, <2>1, <2>2 DEF RunBounded, RunUsed, RunsAtLeast
<1>9. ASSUME UNCHANGED <<jobs, unrecorded>>, docs'[d].attempts = docs[d].attempts,
             workers[w].doc = d, workers[w].pc \notin {"load", "record"},
             ~At(w, "load", d)', ~At(w, "record", d)'
      PROVE  RunBounded(d)' /\ RunUsed(d)'
  <2>1. ~Uncounted(d) /\ (Waiting(d)' => Waiting(d))
    BY <1>3, <1>9, RunIsAlone DEF Uncounted, Waiting, At
  <2>2. QED
    BY <1>1, <1>3, <1>4, <1>9, <2>1 DEF RunBounded, RunUsed, RunsAtLeast
<1>10. CASE ParseFile(w, d) \/ DeleteOldVectors(w, d) \/ UpsertVectors(w, d) \/ CloseRaises(w, d)
  <2>1. /\ UNCHANGED <<jobs, unrecorded, docs>> /\ workers[w].doc = d
        /\ workers[w].pc \notin {"load", "record"}
        /\ ~At(w, "load", d)' /\ ~At(w, "record", d)'
    BY <1>10 DEF ParseFile, DeleteOldVectors, UpsertVectors, CloseRaises, At, TypeOK,
       WorkerStates
  <2>2. QED
    BY <2>1, <1>9
<1>11. CASE CommitReady(w, d) \/ CommitFailed(w, d)
  <2>1. /\ UNCHANGED <<jobs, unrecorded>> /\ workers[w].doc = d
        /\ workers[w].pc \notin {"load", "record"}
        /\ ~At(w, "load", d)' /\ ~At(w, "record", d)'
    BY <1>11 DEF CommitReady, CommitFailed, At, TypeOK, WorkerStates
  <2>2. docs'[d].attempts = docs[d].attempts
    <3>1. docs[d] \in Docs
      BY DEF TypeOK
    <3>2. /\ [docs[d] EXCEPT !.status = "READY"].attempts = docs[d].attempts
          /\ [docs[d] EXCEPT !.status = "FAILED"].attempts = docs[d].attempts
      BY <3>1 DEF Docs
    <3>3. QED
      BY <1>11, <3>2 DEF CommitReady, CommitFailed, WithFailure, TypeOK
  <2>3. QED
    BY <2>1, <2>2, <1>9
<1>12. CASE RunRaises(w, d) \/ WorkerDies(w, d)
  <2>1. /\ UNCHANGED <<docs, jobs>> /\ workers[w].doc = d /\ CountUnrecorded(w, d)
        /\ ~At(w, "load", d)' /\ ~At(w, "record", d)'
    BY <1>12 DEF RunRaises, WorkerDies, At, TypeOK, WorkerStates, IdleWorker
  <2>2. Waiting(d)' => Waiting(d)
    BY <1>3, <2>1 DEF Waiting
  <2>3. RunBounded(d)'
    BY <1>1, <1>4, <2>1, <2>2 DEF RunBounded
  <2>4. unrecorded'[d] = IF workers[w].pc \in {"load", "record"} /\ unrecorded[d] < RetryMax + 1
                         THEN unrecorded[d] + 1 ELSE unrecorded[d]
    BY <2>1 DEF CountUnrecorded, TypeOK
  <2>5. jobs[d].st = "started" /\ ~Uncounted(d)'
    <3>1. jobs[d].st = "started"
      BY <2>1 DEF WorkersHoldJobs, IngestionAssumption
    <3>2. QED
      BY <1>3, <2>1, <3>1
  <2>6. CASE workers[w].pc \in {"load", "record"}
    <3>1. RunsAtLeast(d, RetryMax)
      BY <2>5 DEF RunUsed
    <3>2. RunsAtLeast(d, RetryMax + 1)'
      BY <1>1, <2>1, <2>4, <2>6, <3>1 DEF RunsAtLeast
    <3>3. RunsAtLeast(d, RetryMax)'
      BY <1>1, <2>1, <2>4, <2>6, <3>1 DEF RunsAtLeast
    <3>4. QED
      BY <2>3, <3>2, <3>3 DEF RunUsed
  <2>7. CASE workers[w].pc \notin {"load", "record"}
    <3>1. ~Uncounted(d)
      <4>1. \A v \in Workers \ {w} : workers[v].doc # d
        BY RunIsAlone
      <4>2. QED
        BY <2>7, <4>1 DEF Uncounted, At
    <3>2. unrecorded'[d] = unrecorded[d]
      BY <2>4, <2>7
    <3>3. RunsAtLeast(d, RetryMax + 1)
      BY <2>5, <3>1 DEF RunUsed
    <3>4. QED
      BY <1>1, <2>1, <2>3, <2>5, <3>2, <3>3 DEF RunUsed, RunsAtLeast
  <2>8. QED
    BY <2>3, <2>6, <2>7
<1>13. CASE JobFails(w, d)
  <2>1. /\ UNCHANGED <<docs, unrecorded>> /\ workers[w].doc = d /\ workers[w].pc = "raised"
        /\ ~At(w, "load", d)' /\ ~At(w, "record", d)' /\ jobs'[d] = AfterFailure(jobs[d])
        /\ jobs[d] \in Jobs
    BY <1>13 DEF JobFails, At, TypeOK, IdleWorker
  <2>2. jobs[d].st = "started" /\ ~Uncounted(d)
    <3>1. jobs[d].st = "started" /\ \A v \in Workers : workers[v].doc = d => v = w
      BY <2>1 DEF WorkersHoldJobs, IngestionAssumption
    <3>2. QED
      BY <2>1, <3>1 DEF Uncounted, At
  <2>3. RunBounded(d)'
    BY <1>1, <1>3, <1>4, <2>1, FailureSpendsRetry DEF RunBounded
  <2>4. RunUsed(d)'
    <3>1. RunsAtLeast(d, RetryMax + 1)
      BY <2>2 DEF RunUsed
    <3>2. jobs'[d].st = "scheduled" => RunsAtLeast(d, RetryMax)'
      BY <1>1, <2>1, <3>1, FailureSpendsRetry DEF RunsAtLeast
    <3>3. jobs'[d].st = "failed" => RunsAtLeast(d, RetryMax + 1)'
      BY <1>1, <2>1, <3>1, FailureSpendsRetry DEF RunsAtLeast
    <3>4. jobs'[d].st \in {"scheduled", "failed"}
      BY <2>1, FailureSpendsRetry
    <3>5. QED
      BY <3>2, <3>3, <3>4 DEF RunUsed
  <2>5. QED
    BY <2>3, <2>4
<1>14. CASE JobFinishes(w, d)
  <2>1. /\ UNCHANGED <<docs, unrecorded>> /\ jobs'[d].st = "finished"
        /\ jobs'[d].meta = jobs[d].meta /\ jobs'[d].left = jobs[d].left
        /\ ~At(w, "load", d)' /\ ~At(w, "record", d)'
    BY <1>14 DEF JobFinishes, At, TypeOK, IdleWorker, Jobs
  <2>2. QED
    BY <1>1, <1>3, <1>4, <2>1 DEF RunBounded, RunUsed
<1>15. QED
  BY <1>6, <1>7, <1>8, <1>10, <1>11, <1>12, <1>13, <1>14 DEF Run

(* So do the queue's steps and the retry endpoint.                          *)
LEMMA QueueKeepsCounts ==
  ASSUME IngestionAssumption, TypeOK, NEW d \in DocIds, Queue(d), RunBounded(d), RunUsed(d)
  PROVE  RunBounded(d)' /\ RunUsed(d)'
<1>1. /\ jobs[d].meta \in Nat /\ jobs[d].left \in Nat /\ docs[d].attempts \in Nat
      /\ unrecorded[d] \in Nat /\ RetryMax \in Nat /\ ManualLimit \in Nat
      /\ ManualLimit <= RetryMax + 1 /\ jobs[d] \in Jobs
  BY CountsAreNat DEF TypeOK
<1>2. UNCHANGED <<docs, workers, unrecorded>>
  BY DEF Queue, RetryJob, JobDue, AbandonedJob, JobExpires
<1>3. \A w \in Workers : (At(w, "load", d)' <=> At(w, "load", d))
                      /\ (At(w, "record", d)' <=> At(w, "record", d))
  BY <1>2 DEF At
<1>4. Uncounted(d)' <=> Uncounted(d)
  BY <1>3 DEF Uncounted
<1>5. CASE RetryJob(d)
  <2>1. /\ jobs[d].st = "failed" /\ jobs[d].meta < ManualLimit /\ jobs'[d].st = "queued"
        /\ jobs'[d].meta = jobs[d].meta /\ jobs'[d].left = jobs[d].left
    BY <1>5 DEF RetryJob, TypeOK, Jobs
  <2>2. jobs[d].left = 0
    BY <2>1 DEF RunBounded
  <2>3. QED
    <3>1. RunsAtLeast(d, RetryMax + 1)
      BY <2>1 DEF RunUsed
    <3>2. RunBounded(d)'
      BY <1>1, <1>2, <1>3, <2>1, <2>2 DEF RunBounded
    <3>3. RunUsed(d)'
      BY <1>1, <1>2, <2>1, <3>1 DEF RunUsed, RunsAtLeast
    <3>4. QED
      BY <3>2, <3>3
<1>6. CASE JobDue(d) \/ JobExpires(d)
  <2>1. /\ jobs'[d].meta = jobs[d].meta /\ jobs'[d].left = jobs[d].left
        /\ \/ jobs[d].st = "scheduled" /\ jobs'[d].st = "queued"
           \/ jobs'[d].st = "expired"
    BY <1>6 DEF JobDue, JobExpires, TypeOK, Jobs
  <2>2. Waiting(d)' => Waiting(d)
    BY <1>3, <2>1 DEF Waiting
  <2>3. QED
    <3>1. RunBounded(d)'
      BY <1>1, <1>2, <1>3, <2>1, <2>2 DEF RunBounded
    <3>2. RunUsed(d)'
      BY <1>1, <1>2, <2>1 DEF RunUsed, RunsAtLeast
    <3>3. QED
      BY <3>1, <3>2
<1>7. CASE AbandonedJob(d)
  <2>1. jobs[d].st = "started" /\ jobs'[d] = AfterFailure(jobs[d])
    BY <1>7 DEF AbandonedJob, TypeOK
  <2>2. \A w \in Workers : ~At(w, "load", d) /\ ~At(w, "record", d)
    BY <1>7 DEF AbandonedJob, At
  <2>3. RunBounded(d)'
    <3>1. jobs'[d].st = "failed" => ~Waiting(d)'
      BY <1>3, <2>2 DEF Waiting
    <3>2. QED
      BY <1>1, <1>2, <1>3, <2>1, <2>2, <3>1, FailureSpendsRetry DEF RunBounded
  <2>4. RunUsed(d)'
    <3>1. RunsAtLeast(d, RetryMax + 1)
      BY <2>1, <2>2 DEF RunUsed, Uncounted
    <3>2. jobs'[d].st = "scheduled" => RunsAtLeast(d, RetryMax)'
      BY <1>1, <1>2, <2>1, <3>1, FailureSpendsRetry DEF RunsAtLeast
    <3>3. jobs'[d].st = "failed" => RunsAtLeast(d, RetryMax + 1)'
      BY <1>1, <1>2, <2>1, <3>1, FailureSpendsRetry DEF RunsAtLeast
    <3>4. jobs'[d].st \in {"scheduled", "failed"}
      BY <1>1, <2>1, FailureSpendsRetry
    <3>5. QED
      BY <3>2, <3>3, <3>4 DEF RunUsed
  <2>5. QED
    BY <2>3, <2>4
<1>8. QED
  BY <1>5, <1>6, <1>7 DEF Queue

(* A job is enqueued for a document that was never processed.               *)
LEMMA EnqueueKeepsCounts ==
  ASSUME IngestionAssumption, TypeOK, WorkersHoldJobs, UploadsHaveNoJob, NEW r \in Reqs,
         EnqueueJob(r), NEW d \in DocIds, RunBounded(d), RunUsed(d)
  PROVE  RunBounded(d)' /\ RunUsed(d)'
<1>1. UNCHANGED <<docs, workers, unrecorded>>
  BY DEF EnqueueJob
<1>2. CASE d \notin reqs[r].docs
  <2>1. jobs'[d] = jobs[d]
    BY <1>2 DEF EnqueueJob
  <2>2. QED
    BY <1>1, <2>1, UntouchedKeepsCounts DEF Untouched, At
<1>3. CASE d \in reqs[r].docs
  <2>1. jobs[d].st = "none" /\ docs[d].attempts = 0
    BY <1>3 DEF EnqueueJob, UploadsHaveNoJob, Uploading
  <2>2. jobs'[d].st = "queued" /\ jobs'[d].left = RetryMax /\ jobs'[d].meta = 0
    BY <1>3, <2>1 DEF EnqueueJob
  <2>3. \A w \in Workers : ~At(w, "record", d)'
    BY <1>1, <2>1 DEF At, WorkersHoldJobs, IngestionAssumption
  <2>4. unrecorded[d] \in Nat /\ RetryMax \in Nat
    BY CountsAreNat
  <2>5. QED
    BY <1>1, <2>1, <2>2, <2>3, <2>4 DEF RunBounded, RunUsed, RunsAtLeast
<1>4. QED
  BY <1>2, <1>3

LEMMA CountsStep ==
  ASSUME IngestionAssumption, TypeOK, WorkersHoldJobs, UploadsHaveNoJob, RunsBounded, RunsUsed,
         [Next]_vars
  PROVE  RunsBounded' /\ RunsUsed'
<1> SUFFICES ASSUME NEW e \in DocIds PROVE RunBounded(e)' /\ RunUsed(e)'
  BY DEF RunsBounded, RunsUsed
<1>1. RunBounded(e) /\ RunUsed(e)
  BY DEF RunsBounded, RunsUsed
<1>2. CASE Untouched(e)
  BY <1>1, <1>2, UntouchedKeepsCounts
<1>3. ASSUME NEW kb \in KBs, CreateBase(kb) PROVE RunBounded(e)' /\ RunUsed(e)'
  BY <1>2, <1>3 DEF CreateBase, Untouched, At
<1>4. ASSUME NEW r \in Reqs, Request(r) PROVE RunBounded(e)' /\ RunUsed(e)'
  <2>1. CASE EnqueueJob(r)
    BY <1>1, <2>1, EnqueueKeepsCounts
  <2>2. CASE Aside(r) \/ InsertDocument(r) \/ SaveJobId(r) \/ DropRows(r)
    BY <1>2, <2>2, RequestsTouchNoRun
  <2>3. QED
    BY <1>4, <2>1, <2>2 DEF Request, Aside
<1>5. ASSUME NEW d \in DocIds, Queue(d) PROVE RunBounded(e)' /\ RunUsed(e)'
  <2>1. CASE d = e
    BY <1>1, <1>5, <2>1, QueueKeepsCounts
  <2>2. CASE d # e
    BY <1>2, <1>5, <2>2, OthersUntouched
  <2>3. QED
    BY <2>1, <2>2
<1>6. ASSUME NEW w \in Workers, NEW d \in DocIds, Run(w, d)
      PROVE  RunBounded(e)' /\ RunUsed(e)'
  <2>1. CASE d = e
    BY <1>1, <1>6, <2>1, RunKeepsCounts
  <2>2. CASE d # e
    BY <1>2, <1>6, <2>2, OthersUntouched
  <2>3. QED
    BY <2>1, <2>2
<1>7. CASE UNCHANGED vars
  BY <1>2, <1>7 DEF vars, Untouched, At
<1>8. QED
  BY <1>3, <1>4, <1>5, <1>6, <1>7 DEF Next

LEMMA CountingInvariant == Spec => []Counting
<1> USE IngestionAssumption
<1>1. Init => Counting
  BY DEF Init, Counting, WorkersHoldJobs, IdleWorker, UploadsHaveNoJob, Uploading, IdleReq,
     RunsBounded, RunBounded, RunsUsed, RunUsed, Waiting, At, IngestionAssumption
<1>2. TypeOK /\ Counting /\ [Next]_vars => Counting'
  BY WorkersHoldJobsStep, UploadsHaveNoJobStep, CountsStep DEF Counting
<1>3. QED
  BY <1>1, <1>2, TypeCorrect, PTL DEF Spec

(* A document is processed at most RetryMax + 1 times, for every RetryMax,  *)
(* number of workers and sequence of crashes and manual retries.            *)
THEOREM ProcessedAtMost == Spec => []AttemptsBounded
<1>1. TypeOK /\ Counting => AttemptsBounded
  BY IngestionAssumption, CountsAreNat DEF Counting, RunsBounded, RunBounded, AttemptsBounded
<1>2. QED
  BY <1>1, TypeCorrect, CountingInvariant, PTL

(* The counter can_retry reads in Redis follows the counter of the row.     *)
THEOREM MetaNeverDrifts == Spec => []MetaFollowsAttempts
<1>1. Counting => MetaFollowsAttempts
  BY DEF Counting, RunsBounded, RunBounded, MetaFollowsAttempts
<1>2. QED
  BY <1>1, CountingInvariant, PTL

(* A manual retry is accepted only if RetryMax + 1 recorded runs were not   *)
(* reached because runs were lost.                                          *)
THEOREM ManualRetriesAreForLostRuns == Spec => []ManualRetryNeedsLostRuns
<1>1. TypeOK /\ Counting => ManualRetryNeedsLostRuns
  <2> SUFFICES ASSUME TypeOK, Counting, NEW d \in DocIds,
                      jobs[d].st = "failed", jobs[d].meta < ManualLimit
               PROVE  unrecorded[d] > RetryMax + 1 - ManualLimit
    BY DEF ManualRetryNeedsLostRuns
  <2>1. RunsAtLeast(d, RetryMax + 1) /\ RunBounded(d) /\ jobs[d].left = 0
    BY DEF Counting, RunsUsed, RunUsed, RunsBounded, RunBounded
  <2>2. QED
    BY <2>1, IngestionAssumption, CountsAreNat DEF RunsAtLeast, RunBounded
<1>2. QED
  BY <1>1, TypeCorrect, CountingInvariant, PTL
-----------------------------------------------------------------------------
(* Ingestion implements DocumentLifecycle.                                  *)

LEMMA RunsInProgressStep ==
  ASSUME IngestionAssumption, TypeOK, Counting, RunsInProgress, [Next]_vars
  PROVE  RunsInProgress'
<1> DEFINE Busy(w) == workers[w].pc \in {"parse", "replace", "upsert", "ready"}
           Fine(d) == docs[d].status \in {"PROCESSING", "DELETED"} /\ docs[d].attempts > 0
<1> SUFFICES ASSUME NEW w \in Workers, NEW d \in DocIds, workers'[w].doc = d, Busy(w)'
             PROVE  Fine(d)'
  BY DEF RunsInProgress
<1>1. CASE workers'[w] = workers[w] /\ docs'[d] = docs[d]
  BY <1>1 DEF RunsInProgress
<1>2. CASE UNCHANGED workers
  <2>1. Fine(d) /\ jobs[d].st # "none" /\ docs[d].status # "FREE"
    BY <1>2 DEF RunsInProgress, Counting, WorkersHoldJobs, IngestionAssumption
  <2>2. docs[d] \in Docs
    BY DEF TypeOK
  <2>3. ASSUME NEW r \in Reqs, InsertDocument(r) PROVE docs'[d] = docs[d]
    BY <2>1, <2>3 DEF InsertDocument, FreeIds, TypeOK
  <2>4. ASSUME NEW r \in Reqs, SaveJobId(r) \/ DropRows(r) PROVE Fine(d)'
    <3>1. /\ [docs[d] EXCEPT !.job = d].attempts = docs[d].attempts
          /\ [docs[d] EXCEPT !.job = d].status = docs[d].status
          /\ [docs[d] EXCEPT !.status = "DELETED"].attempts = docs[d].attempts
          /\ [docs[d] EXCEPT !.status = "DELETED"].status = "DELETED"
      BY <2>2 DEF Docs
    <3>2. QED
      BY <2>1, <2>4, <3>1 DEF SaveJobId, DropRows
  <2>5. ASSUME NEW r \in Reqs, Request(r) PROVE Fine(d)'
    BY <1>1, <1>2, <2>3, <2>4, <2>5, AsideUnchanged DEF Request, Aside, EnqueueJob
  <2>6. ASSUME NEW v \in Workers, NEW e \in DocIds, Run(v, e) PROVE UNCHANGED docs
    <3>1. workers'[v].pc # workers[v].pc \/ workers'[v].doc # workers[v].doc
      <4>1. CASE workers[v].doc = e
        BY <2>6, <4>1 DEF Run, TakeJob, LoadDocument, RecordAttempt, ParseFile, DeleteOldVectors,
           UpsertVectors, CommitReady, RunRaises, CloseRaises, CommitFailed, JobFails,
           JobFinishes, WorkerDies, At, TypeOK, WorkerStates, IdleWorker, IngestionAssumption
      <4>2. CASE workers[v].doc # e
        BY <2>6, <4>2 DEF Run, TakeJob, LoadDocument, RecordAttempt, ParseFile, DeleteOldVectors,
           UpsertVectors, CommitReady, RunRaises, CloseRaises, CommitFailed, JobFails,
           JobFinishes, WorkerDies, At, TypeOK, WorkerStates, IdleWorker
      <4>3. QED
        BY <4>1, <4>2
    <3>2. QED
      BY <1>2, <3>1
  <2>7. QED
    BY <1>1, <1>2, <2>5, <2>6 DEF Next, vars, CreateBase, Queue, RetryJob, JobDue, AbandonedJob,
       JobExpires
<1>3. ASSUME NEW v \in Workers, NEW e \in DocIds, Run(v, e) PROVE Fine(d)'
  <2>1. CASE e # d
    <3>1. docs'[d] = docs[d]
      BY <1>3, <2>1 DEF Run, TakeJob, LoadDocument, RecordAttempt, ParseFile, DeleteOldVectors,
         UpsertVectors, CommitReady, RunRaises, CloseRaises, CommitFailed, WithFailure,
         JobFails, JobFinishes, WorkerDies, TypeOK
    <3>2. workers'[v].pc = "idle" \/ workers'[v].doc = e
      BY <1>3 DEF Run, TakeJob, LoadDocument, RecordAttempt, ParseFile, DeleteOldVectors,
         UpsertVectors, CommitReady, RunRaises, CloseRaises, CommitFailed, JobFails,
         JobFinishes, WorkerDies, At, TypeOK, WorkerStates, IdleWorker
    <3>3. v # w /\ workers'[w] = workers[w]
      BY <1>3, <2>1, <3>2, RunIsAlone DEF Counting
    <3>4. QED
      BY <1>1, <3>1, <3>3
  <2>2. CASE e = d
    <3>1. v = w
      BY <1>3, <2>2, RunIsAlone DEF Counting
    <3>2. CASE RecordAttempt(w, d)
      <4>1. docs[d] \in Docs /\ docs[d].attempts \in Nat
        BY DEF TypeOK, Docs
      <4>2. docs'[d].status = "PROCESSING" /\ docs'[d].attempts = docs[d].attempts + 1
        BY <3>2, <4>1 DEF RecordAttempt, TypeOK, Docs
      <4>3. QED
        BY <4>1, <4>2
    <3>3. CASE ParseFile(w, d) \/ DeleteOldVectors(w, d) \/ UpsertVectors(w, d)
      BY <3>3 DEF ParseFile, DeleteOldVectors, UpsertVectors, At, RunsInProgress
    <3>4. CASE TakeJob(w, d) \/ LoadDocument(w, d) \/ CommitReady(w, d) \/ RunRaises(w, d)
               \/ CloseRaises(w, d) \/ CommitFailed(w, d) \/ JobFails(w, d) \/ JobFinishes(w, d)
               \/ WorkerDies(w, d)
      BY <3>4 DEF TakeJob, LoadDocument, CommitReady, RunRaises, CloseRaises, CommitFailed,
         JobFails, JobFinishes, WorkerDies, TypeOK, WorkerStates, IdleWorker
    <3>5. QED
      BY <1>3, <2>2, <3>1, <3>2, <3>3, <3>4 DEF Run
  <2>3. QED
    BY <2>1, <2>2
<1>4. ASSUME NEW r \in Reqs, Request(r) PROVE UNCHANGED workers
  BY <1>4, AsideUnchanged DEF Request, Aside, InsertDocument, EnqueueJob, SaveJobId, DropRows
<1>5. QED
  BY <1>2, <1>3, <1>4 DEF Next, vars, CreateBase, Queue, RetryJob, JobDue, AbandonedJob, JobExpires

LEMMA ProgressInvariant == Spec => []RunsInProgress
<1>1. Init => RunsInProgress
  BY IngestionAssumption DEF Init, RunsInProgress, IdleWorker
<1>2. TypeOK /\ Counting /\ RunsInProgress /\ [Next]_vars => RunsInProgress'
  BY IngestionAssumption, RunsInProgressStep
<1>3. QED
  BY <1>1, <1>2, TypeCorrect, CountingInvariant, PTL DEF Spec

Status == [d \in DocIds |-> docs[d].status]
Runs   == [d \in DocIds |-> docs[d].attempts]

(* Every step is one of DocumentLifecycle, or invisible to it.              *)
LEMMA StepImplements ==
  ASSUME IngestionAssumption, TypeOK, Counting, RunsInProgress, [Next]_vars
  PROVE  Lifecycle!Next \/ UNCHANGED <<Status, Runs>>
<1>1. ASSUME \A d \in DocIds : /\ docs'[d].status = docs[d].status
                              /\ docs'[d].attempts = docs[d].attempts
      PROVE  UNCHANGED <<Status, Runs>>
  BY <1>1 DEF Status, Runs
<1>2. \A d \in DocIds : docs[d] \in Docs /\ Status[d] = docs[d].status /\ Runs[d] = docs[d].attempts
  BY DEF TypeOK, Status, Runs
<1>3. /\ Status' = [d \in DocIds |-> docs'[d].status]
      /\ Runs' = [d \in DocIds |-> docs'[d].attempts]
  BY DEF Status, Runs
<1>4. Lifecycle!Live = {d \in DocIds : Live(d)}
  BY DEF Lifecycle!Live, Live, LiveStates
<1>5. ASSUME NEW r \in Reqs, InsertDocument(r) PROVE Lifecycle!Next
  <2>1. PICK c \in reqs[r].paths, d \in FreeIds :
          docs' = [docs EXCEPT ![d] = [status |-> "PROCESSING", kb |-> reqs[r].kb,
                                       content |-> c, attempts |-> 0, job |-> None]]
    BY <1>5 DEF InsertDocument
  <2>2. d \in DocIds /\ docs[d].status = "FREE" /\ docs[d].attempts = 0
    BY DEF FreeIds, Counting, UploadsHaveNoJob
  <2>3. Status' = [Status EXCEPT ![d] = "PROCESSING"] /\ Runs' = Runs
    BY <1>2, <1>3, <2>1, <2>2 DEF Status, Runs, TypeOK
  <2>4. Lifecycle!Upload(d)
    BY <1>2, <2>2, <2>3 DEF Lifecycle!Upload, Status, Runs
  <2>5. QED
    BY <2>2, <2>4 DEF Lifecycle!Next
<1>6. ASSUME NEW r \in Reqs, SaveJobId(r) PROVE UNCHANGED <<Status, Runs>>
  <2>1. \A d \in DocIds : /\ [docs[d] EXCEPT !.job = d].status = docs[d].status
                          /\ [docs[d] EXCEPT !.job = d].attempts = docs[d].attempts
    BY <1>2 DEF Docs
  <2>2. \A d \in DocIds : docs'[d] \in {docs[d], [docs[d] EXCEPT !.job = d]}
    BY <1>6 DEF SaveJobId
  <2>3. QED
    BY <1>1, <2>1, <2>2
<1>7. ASSUME NEW r \in Reqs, DropRows(r) PROVE Lifecycle!Next
  <2> DEFINE removed == {d \in DocIds : Live(d) /\ (d \in reqs[r].docs \/ docs[d].kb = reqs[r].kb)}
  <2>1. \A d \in DocIds : /\ [docs[d] EXCEPT !.status = "DELETED"].status = "DELETED"
                          /\ [docs[d] EXCEPT !.status = "DELETED"].attempts = docs[d].attempts
    BY <1>2 DEF Docs
  <2>2. docs' = [d \in DocIds |->
                   IF d \in removed THEN [docs[d] EXCEPT !.status = "DELETED"] ELSE docs[d]]
    BY <1>7 DEF DropRows
  <2>3. removed \subseteq Lifecycle!Live /\ removed \in SUBSET DocIds
    BY <1>4
  <2> HIDE DEF removed
  <2>4. PICK gone \in SUBSET DocIds : gone = removed
    BY <2>3
  <2>5. /\ Status' = [d \in DocIds |-> IF d \in gone THEN "DELETED" ELSE Status[d]]
        /\ Runs' = Runs
    BY <1>2, <1>3, <2>1, <2>2, <2>4 DEF Runs
  <2>6. Lifecycle!Delete(gone)
    BY <2>3, <2>4, <2>5 DEF Lifecycle!Delete, Status, Runs
  <2>7. QED
    BY <2>6 DEF Lifecycle!Next
<1>8. ASSUME NEW w \in Workers, NEW d \in DocIds, RecordAttempt(w, d) PROVE Lifecycle!Next
  <2>1. docs[d].attempts < RetryMax + 1
    BY <1>8, IngestionAssumption, CountsAreNat DEF RecordAttempt, Counting, RunsBounded, RunBounded
  <2>2. /\ docs'[d].status = "PROCESSING" /\ docs'[d].attempts = docs[d].attempts + 1
        /\ \A e \in DocIds \ {d} : docs'[e] = docs[e]
    BY <1>2, <1>8 DEF RecordAttempt, TypeOK, Docs
  <2>3. /\ Status' = [Status EXCEPT ![d] = "PROCESSING"]
        /\ Runs' = [Runs EXCEPT ![d] = @ + 1]
    BY <1>2, <1>3, <2>2 DEF Status, Runs
  <2>4. d \in Lifecycle!Live
    BY <1>4, <1>8 DEF RecordAttempt
  <2>5. Lifecycle!StartRun(d)
    BY <1>2, <2>1, <2>3, <2>4 DEF Lifecycle!StartRun, Status, Runs
  <2>6. QED
    BY <2>5 DEF Lifecycle!Next
<1>9. ASSUME NEW d \in DocIds, NEW s \in LiveStates, docs' = [docs EXCEPT ![d].status = s]
      PROVE  Status' = [Status EXCEPT ![d] = s] /\ Runs' = Runs
  <2>1. docs'[d].status = s /\ docs'[d].attempts = docs[d].attempts
    BY <1>2, <1>9 DEF TypeOK, Docs
  <2>2. \A e \in DocIds \ {d} : docs'[e] = docs[e]
    BY <1>9 DEF TypeOK
  <2>3. QED
    BY <1>2, <1>3, <2>1, <2>2 DEF Status, Runs
<1>10. ASSUME NEW w \in Workers, NEW d \in DocIds, CommitReady(w, d) PROVE Lifecycle!Next
  <2>1. docs[d].status = "PROCESSING" /\ docs[d].attempts > 0
    BY <1>10 DEF CommitReady, At, RunsInProgress, Live, LiveStates
  <2>2. Status' = [Status EXCEPT ![d] = "READY"] /\ Runs' = Runs
    BY <1>9, <1>10 DEF CommitReady, LiveStates
  <2>3. Lifecycle!Succeed(d)
    BY <1>2, <2>1, <2>2 DEF Lifecycle!Succeed, Status, Runs
  <2>4. QED
    BY <2>3 DEF Lifecycle!Next
<1>11. ASSUME NEW w \in Workers, NEW d \in DocIds, CommitFailed(w, d)
       PROVE  Lifecycle!Next \/ UNCHANGED <<Status, Runs>>
  <2>1. CASE docs' = docs
    BY <1>1, <2>1
  <2>2. CASE docs' # docs
    <3>1. Live(d) /\ docs' = [docs EXCEPT ![d].status = "FAILED"]
      BY <1>11, <2>2 DEF CommitFailed, WithFailure
    <3>2. Status' = [Status EXCEPT ![d] = "FAILED"] /\ Runs' = Runs
      BY <1>9, <3>1 DEF LiveStates
    <3>3. Lifecycle!Fail(d)
      BY <1>4, <3>1, <3>2 DEF Lifecycle!Fail, Status, Runs
    <3>4. QED
      BY <3>3 DEF Lifecycle!Next
  <2>3. QED
    BY <2>1, <2>2
<1>12. CASE UNCHANGED docs
  BY <1>1, <1>12
<1>13. ASSUME NEW r \in Reqs, Request(r) PROVE Lifecycle!Next \/ UNCHANGED <<Status, Runs>>
  BY <1>5, <1>6, <1>7, <1>12, <1>13, AsideUnchanged DEF Request, Aside, EnqueueJob
<1>14. ASSUME NEW w \in Workers, NEW d \in DocIds, Run(w, d)
       PROVE  Lifecycle!Next \/ UNCHANGED <<Status, Runs>>
  BY <1>8, <1>10, <1>11, <1>12, <1>14 DEF Run, TakeJob, LoadDocument, ParseFile, DeleteOldVectors,
     UpsertVectors, RunRaises, CloseRaises, JobFails, JobFinishes, WorkerDies
<1>15. QED
  BY <1>12, <1>13, <1>14 DEF Next, vars, CreateBase, Queue, RetryJob, JobDue, AbandonedJob,
     JobExpires

(* Whoever reads the documents table sees the lifecycle DocumentLifecycle   *)
(* promises, with RetryMax + 1 runs at most.                                *)
THEOREM IngestionImplementsLifecycle == Spec => ImplementsLifecycle
<1>1. Init => Lifecycle!Init
  BY DEF Init, Lifecycle!Init
<1>2. TypeOK /\ Counting /\ RunsInProgress /\ [Next]_vars
        => [Lifecycle!Next]_<<Status, Runs>>
  BY IngestionAssumption, StepImplements
<1>3. QED
  BY <1>1, <1>2, TypeCorrect, CountingInvariant, ProgressInvariant, PTL
     DEF Spec, ImplementsLifecycle, Lifecycle!Spec, Status, Runs

-----------------------------------------------------------------------------
(* Files and vectors.  What the shapes of rows, deletions and uploads are:  *)
(* a deletion that holds a base knows every document of it, its paths are   *)
(* the contents of its documents, and the documents are gone when files are *)
(* unlinked; the file of an upload is there unless somebody else removed    *)
(* it, which leaves a row of that content or a rolled back upload.          *)
RowsShaped ==
  \A d \in DocIds :
    /\ docs[d].status = "FREE" => docs[d].content = None
    /\ Live(d) => docs[d].kb \in KBs
    /\ Live(d) => docs[d].content \in Contents

Locking(r)  == reqs[r].pc \in {"dropVectors", "dropRows"}
Removing(r) == Locking(r) \/ reqs[r].pc = "unlink"

DeletionComplete(r) ==
  /\ Locking(r) => \A d \in DocIds : Live(d) /\ docs[d].kb = reqs[r].kb => d \in reqs[r].docs
  /\ Removing(r) =>
       \A d \in reqs[r].docs : docs[d].status # "FREE" /\ docs[d].content \in reqs[r].paths
  /\ Removing(r) => \A c \in reqs[r].paths : \E d \in reqs[r].docs : docs[d].content = c
  /\ reqs[r].pc = "unlink" => \A d \in reqs[r].docs : ~Live(d)

DeletionsComplete == \A r \in Reqs : DeletionComplete(r)

Traced(c) == c \in files \/ c \in hist.rolledBack \/ \E d \in DocIds : docs[d].content = c

UploadWritten(r) ==
  reqs[r].pc = "written" => \E c \in Contents : reqs[r].paths = {c} /\ Traced(c)

UploadsWritten == \A r \in Reqs : UploadWritten(r)

FilesKnown == RowsShaped /\ DeletionsComplete /\ UploadsWritten

(* What a step leaves of the rows: all that the files depend on, or at      *)
(* least the content and base of the rows in use.                           *)
SameRows ==
  \A d \in DocIds :
    /\ docs'[d].content = docs[d].content /\ docs'[d].kb = docs[d].kb
    /\ Live(d)' <=> Live(d)
    /\ docs'[d].status = "FREE" <=> docs[d].status = "FREE"

RowsPersist ==
  \A d \in DocIds : docs[d].status # "FREE" =>
    /\ docs'[d].content = docs[d].content /\ docs'[d].kb = docs[d].kb
    /\ docs'[d].status # "FREE"
    /\ Live(d)' => Live(d)

LEMMA RunKeepsRows ==
  ASSUME TypeOK, NEW w \in Workers, NEW d \in DocIds, Run(w, d)
  PROVE  SameRows /\ UNCHANGED <<kbs, files, reqs>>
<1>1. UNCHANGED <<kbs, files, reqs>>
  BY DEF Run, TakeJob, LoadDocument, RecordAttempt, ParseFile, DeleteOldVectors, UpsertVectors,
     CommitReady, RunRaises, CloseRaises, CommitFailed, JobFails, JobFinishes, WorkerDies
<1>2. CASE UNCHANGED docs
  BY <1>1, <1>2 DEF SameRows, Live
<1>3. CASE docs' # docs
  <2>1. PICK s, n : /\ s \in LiveStates /\ Live(d)
                    /\ docs' = [docs EXCEPT ![d].attempts = n, ![d].status = s]
    <3>1. \A e \in DocIds : docs[e] \in Docs
      BY DEF TypeOK
    <3>2. CASE RecordAttempt(w, d)
      BY <3>2 DEF RecordAttempt, LiveStates
    <3>3. ASSUME NEW s \in LiveStates, docs' = [docs EXCEPT ![d].status = s]
          PROVE  docs' = [docs EXCEPT ![d].attempts = docs[d].attempts, ![d].status = s]
      BY <3>1, <3>3 DEF TypeOK, Docs
    <3>4. CASE CommitReady(w, d)
      BY <3>3, <3>4 DEF CommitReady, LiveStates
    <3>5. CASE CommitFailed(w, d)
      BY <1>3, <3>3, <3>5 DEF CommitFailed, WithFailure, LiveStates
    <3> QED
      BY <1>3, <3>2, <3>4, <3>5
         DEF Run, TakeJob, LoadDocument, ParseFile, DeleteOldVectors, UpsertVectors,
             RunRaises, CloseRaises, JobFails, JobFinishes, WorkerDies
  <2>2. \A e \in DocIds : docs[e] \in Docs
    BY DEF TypeOK
  <2>3. \A e \in DocIds \ {d} : docs'[e] = docs[e]
    BY <2>1, <2>2 DEF TypeOK
  <2>4. docs'[d].status = s /\ docs'[d].content = docs[d].content /\ docs'[d].kb = docs[d].kb
    BY <2>1, <2>2 DEF TypeOK, Docs
  <2> QED
    BY <1>1, <2>1, <2>3, <2>4 DEF SameRows, Live, LiveStates
<1> QED
  BY <1>1, <1>2, <1>3

(* No run, job or new base touches a file, a request or what is remembered  *)
(* of them.                                                                 *)
Quiet ==
  /\ SameRows /\ UNCHANGED <<files, reqs>>
  /\ hist'.rolledBack = hist.rolledBack /\ hist'.leaked = hist.leaked
  /\ hist'.lostUploads = hist.lostUploads /\ hist'.halfDeleted = hist.halfDeleted

LEMMA OthersAreQuiet ==
  ASSUME TypeOK, [Next]_vars, \A r \in Reqs : ~Request(r)
  PROVE  Quiet
<1>1. CASE UNCHANGED <<docs, files, reqs, hist>>
  BY <1>1 DEF Quiet, SameRows, Live
<1>2. ASSUME NEW w \in Workers, NEW d \in DocIds, Run(w, d) PROVE Quiet
  <2>1. /\ hist'.rolledBack = hist.rolledBack /\ hist'.leaked = hist.leaked
        /\ hist'.lostUploads = hist.lostUploads /\ hist'.halfDeleted = hist.halfDeleted
    BY <1>2 DEF Run, TakeJob, LoadDocument, RecordAttempt, ParseFile, DeleteOldVectors,
       UpsertVectors, CommitReady, RunRaises, CloseRaises, CommitFailed, JobFails,
       JobFinishes, WorkerDies, TypeOK
  <2> QED
    BY <1>2, <2>1, RunKeepsRows DEF Quiet
<1> QED
  BY <1>1, <1>2 DEF Next, vars, CreateBase, Queue, RetryJob, JobDue, AbandonedJob, JobExpires

(* What requests do to rows: one inserts a row, one deletes rows, the others *)
(* leave them.                                                              *)
LEMMA RequestKeepsRows ==
  ASSUME TypeOK, NEW r \in Reqs, Request(r), ~InsertDocument(r), ~DropRows(r)
  PROVE  SameRows
<1>1. CASE UNCHANGED docs
  BY <1>1 DEF SameRows, Live
<1>2. CASE SaveJobId(r)
  <2>1. \A d \in DocIds : docs[d] \in Docs /\ docs'[d] \in {docs[d], [docs[d] EXCEPT !.job = d]}
    BY <1>2 DEF SaveJobId, TypeOK
  <2>2. \A d \in DocIds : /\ docs'[d].content = docs[d].content /\ docs'[d].kb = docs[d].kb
                          /\ docs'[d].status = docs[d].status
    BY <2>1 DEF Docs
  <2> QED
    BY <2>2 DEF SameRows, Live
<1> QED
  BY <1>1, <1>2, AsideUnchanged DEF Request, Aside, EnqueueJob

Inserts(r, d, c) ==
  /\ docs[d].status = "FREE" /\ kbs[reqs[r].kb] = "live" /\ reqs[r].kb \in KBs
  /\ docs'[d].status = "PROCESSING" /\ docs'[d].kb = reqs[r].kb /\ docs'[d].content = c
  /\ \A e \in DocIds \ {d} : docs'[e] = docs[e]
  /\ reqs[r].pc = "written" /\ reqs'[r].pc = "inserted" /\ reqs'[r].docs = {d}
  /\ reqs'[r].paths = reqs[r].paths /\ reqs'[r].kb = reqs[r].kb
  /\ \A q \in Reqs \ {r} : reqs'[q] = reqs[q]
  /\ UNCHANGED <<files, hist, vectors, jobs, workers>>

LEMMA InsertedRow ==
  ASSUME IngestionAssumption, TypeOK, NEW r \in Reqs, InsertDocument(r)
  PROVE  \E d \in DocIds, c \in reqs[r].paths : Inserts(r, d, c)
<1>1. PICK c \in reqs[r].paths, d \in FreeIds :
        /\ Insertable(reqs[r].kb, c)
        /\ docs' = [docs EXCEPT ![d] = [status |-> "PROCESSING", kb |-> reqs[r].kb,
                                        content |-> c, attempts |-> 0, job |-> None]]
        /\ reqs' = [reqs EXCEPT ![r] = [@ EXCEPT !.pc = "inserted", !.docs = {d}]]
  BY DEF InsertDocument
<1>2. d \in DocIds /\ docs[d].status = "FREE" /\ reqs[r] \in Requests
  BY DEF FreeIds, TypeOK
<1>3. reqs[r].kb \in KBs /\ kbs[reqs[r].kb] = "live"
  BY <1>1, <1>2 DEF Insertable, Requests
<1>4. /\ docs'[d].status = "PROCESSING" /\ docs'[d].kb = reqs[r].kb /\ docs'[d].content = c
      /\ \A e \in DocIds \ {d} : docs'[e] = docs[e]
  BY <1>1, <1>2 DEF TypeOK
<1>5. /\ reqs'[r].pc = "inserted" /\ reqs'[r].docs = {d}
      /\ reqs'[r].paths = reqs[r].paths /\ reqs'[r].kb = reqs[r].kb
      /\ \A q \in Reqs \ {r} : reqs'[q] = reqs[q]
  BY <1>1, <1>2 DEF TypeOK, Requests
<1> QED
  BY <1>1, <1>2, <1>3, <1>4, <1>5 DEF InsertDocument, Inserts

Removed(r) == {d \in DocIds : Live(d) /\ (d \in reqs[r].docs \/ docs[d].kb = reqs[r].kb)}

Deletes(r) ==
  /\ \A d \in DocIds :
       /\ docs'[d].content = docs[d].content /\ docs'[d].kb = docs[d].kb
       /\ docs'[d].status = IF d \in Removed(r) THEN "DELETED" ELSE docs[d].status
  /\ reqs[r].pc = "dropRows" /\ reqs'[r].pc = "unlink"
  /\ reqs'[r].docs = reqs[r].docs /\ reqs'[r].paths = reqs[r].paths
  /\ reqs'[r].kb = reqs[r].kb
  /\ \A q \in Reqs \ {r} : reqs'[q] = reqs[q]
  /\ UNCHANGED <<files, hist, vectors, jobs, workers>>

LEMMA DeletedRows ==
  ASSUME TypeOK, NEW r \in Reqs, DropRows(r)
  PROVE  Deletes(r)
<1>1. \A d \in DocIds : docs[d] \in Docs
  BY DEF TypeOK
<1>2. \A d \in DocIds : docs'[d] = IF d \in Removed(r) THEN [docs[d] EXCEPT !.status = "DELETED"]
                                   ELSE docs[d]
  BY DEF DropRows, Removed
<1>3. \A d \in DocIds :
        /\ docs'[d].content = docs[d].content /\ docs'[d].kb = docs[d].kb
        /\ docs'[d].status = IF d \in Removed(r) THEN "DELETED" ELSE docs[d].status
  BY <1>1, <1>2 DEF Docs
<1>4. reqs' = [reqs EXCEPT ![r].pc = "unlink"] /\ reqs[r] \in Requests
  BY DEF DropRows, TypeOK
<1>5. /\ reqs'[r].pc = "unlink"
      /\ reqs'[r].docs = reqs[r].docs /\ reqs'[r].paths = reqs[r].paths
      /\ reqs'[r].kb = reqs[r].kb
      /\ \A q \in Reqs \ {r} : reqs'[q] = reqs[q]
  BY <1>4 DEF TypeOK, Requests
<1> QED
  BY <1>3, <1>4, <1>5 DEF DropRows, Deletes

(* Rows in use keep their content and base; a deleted row stays deleted.    *)
LEMMA RowsPersistStep ==
  ASSUME IngestionAssumption, TypeOK, [Next]_vars PROVE RowsPersist
<1>1. CASE SameRows
  BY <1>1 DEF SameRows, RowsPersist
<1>2. ASSUME NEW r \in Reqs, InsertDocument(r) PROVE RowsPersist
  BY <1>2, InsertedRow DEF RowsPersist, Live, Inserts
<1>3. ASSUME NEW r \in Reqs, DropRows(r) PROVE RowsPersist
  <2>1. Deletes(r)
    BY <1>3, DeletedRows
  <2>2. \A d \in DocIds :
          /\ docs'[d].content = docs[d].content /\ docs'[d].kb = docs[d].kb
          /\ docs'[d].status = docs[d].status \/ (Live(d) /\ docs'[d].status = "DELETED")
    BY <2>1, Zenon DEF Deletes, Removed
  <2> QED
    BY <2>2 DEF RowsPersist, Live, LiveStates
<1> QED
  BY <1>1, <1>2, <1>3, OthersAreQuiet, RequestKeepsRows DEF Quiet

LEMMA RowsShapedStep ==
  ASSUME IngestionAssumption, TypeOK, RowsShaped, UploadsWritten, [Next]_vars
  PROVE  RowsShaped'
<1>1. CASE SameRows
  BY <1>1 DEF SameRows, RowsShaped
<1>2. ASSUME NEW r \in Reqs, InsertDocument(r) PROVE RowsShaped'
  <2>1. PICK d \in DocIds, c \in reqs[r].paths : Inserts(r, d, c)
    BY <1>2, InsertedRow
  <2>2. c \in Contents /\ docs'[d].kb \in KBs /\ docs'[d].content = c
        /\ docs'[d].status = "PROCESSING"
    BY <2>1 DEF Inserts, UploadsWritten, UploadWritten
  <2>3. \A e \in DocIds \ {d} : docs'[e] = docs[e]
    BY <2>1 DEF Inserts
  <2> QED
    BY <2>2, <2>3 DEF RowsShaped, Live
<1>3. ASSUME NEW r \in Reqs, DropRows(r) PROVE RowsShaped'
  <2>1. Deletes(r)
    BY <1>3, DeletedRows
  <2>2. \A d \in DocIds :
          /\ docs'[d].content = docs[d].content /\ docs'[d].kb = docs[d].kb
          /\ docs'[d].status \in {docs[d].status, "DELETED"}
    BY <2>1, Zenon DEF Deletes
  <2> QED
    BY <2>2 DEF RowsShaped, Live, LiveStates
<1> QED
  BY <1>1, <1>2, <1>3, OthersAreQuiet, RequestKeepsRows DEF Quiet

LEMMA SameRowsKeepDeletion ==
  ASSUME SameRows, NEW q \in Reqs, reqs[q].docs \subseteq DocIds, DeletionComplete(q),
         \/ reqs'[q] = reqs[q]
         \/ /\ reqs[q].pc = "dropVectors" /\ reqs'[q].pc = "dropRows"
            /\ reqs'[q].docs = reqs[q].docs /\ reqs'[q].paths = reqs[q].paths
            /\ reqs'[q].kb = reqs[q].kb
  PROVE  DeletionComplete(q)'
BY DEF SameRows, DeletionComplete, Locking, Removing

(* A deletion starts with every document of its base.                       *)
LEMMA DeletionStarts ==
  ASSUME IngestionAssumption, TypeOK, RowsShaped, NEW r \in Reqs,
         \/ \E d \in DocIds : BeginDeleteDocument(r, d)
         \/ \E kb \in KBs : BeginDeleteBase(r, kb)
  PROVE  DeletionComplete(r)'
<1>1. \A d \in DocIds : Live(d) => docs[d].kb # None /\ docs[d].status # "FREE"
  BY DEF RowsShaped, IngestionAssumption, Live, LiveStates
<1>2. ASSUME NEW d \in DocIds, BeginDeleteDocument(r, d) PROVE DeletionComplete(r)'
  <2>1. /\ reqs'[r] = [pc |-> "dropVectors", kb |-> None, docs |-> {d}, paths |-> {docs[d].content}]
        /\ Live(d) /\ UNCHANGED docs
    BY <1>2 DEF BeginDeleteDocument, TypeOK
  <2>2. /\ reqs'[r].pc = "dropVectors" /\ reqs'[r].kb = None /\ reqs'[r].docs = {d}
        /\ reqs'[r].paths = {docs[d].content}
    BY <2>1
  <2> QED
    BY <1>1, <2>1, <2>2 DEF DeletionComplete, Locking, Removing, Live
<1>3. ASSUME NEW kb \in KBs, BeginDeleteBase(r, kb) PROVE DeletionComplete(r)'
  <2> DEFINE members == {d \in DocIds : Live(d) /\ docs[d].kb = kb}
  <2>1. /\ reqs'[r] = [pc |-> "dropVectors", kb |-> kb, docs |-> members,
                       paths |-> {docs[d].content : d \in members}]
        /\ UNCHANGED docs
    BY <1>3 DEF BeginDeleteBase, TypeOK
  <2>2. /\ reqs'[r].pc = "dropVectors" /\ reqs'[r].kb = kb /\ reqs'[r].docs = members
        /\ reqs'[r].paths = {docs[d].content : d \in members}
    BY <2>1
  <2> QED
    BY <1>1, <2>1, <2>2 DEF DeletionComplete, Locking, Removing, Live
<1> QED
  BY <1>2, <1>3

LEMMA DeletionsCompleteStep ==
  ASSUME IngestionAssumption, TypeOK, RowsShaped, DeletionsComplete, [Next]_vars
  PROVE  DeletionsComplete'
<1> SUFFICES ASSUME NEW q \in Reqs PROVE DeletionComplete(q)'
  BY DEF DeletionsComplete
<1>1. DeletionComplete(q) /\ reqs[q].docs \subseteq DocIds /\ reqs[q] \in Requests
  BY DEF DeletionsComplete, TypeOK, Requests
<1>2. CASE \A r \in Reqs : ~Request(r)
  BY <1>1, <1>2, OthersAreQuiet, SameRowsKeepDeletion DEF Quiet
<1>3. ASSUME NEW r \in Reqs, InsertDocument(r) PROVE DeletionComplete(q)'
  <2>1. PICK d \in DocIds, c \in reqs[r].paths : Inserts(r, d, c)
    BY <1>3, InsertedRow
  <2>2. CASE q = r
    BY <2>1, <2>2 DEF DeletionComplete, Locking, Removing, Inserts
  <2>3. CASE q # r
    <3>1. ~(Locking(q) /\ reqs[q].kb = reqs[r].kb)
      BY <1>3, <2>1, <2>3 DEF Inserts, InsertDocument, Locked, Locking, IngestionAssumption
    <3>2. Removing(q) => d \notin reqs[q].docs
      BY <1>1, <2>1 DEF DeletionComplete, Inserts
    <3>3. reqs'[q] = reqs[q] /\ \A e \in DocIds \ {d} : docs'[e] = docs[e]
      BY <2>1, <2>3 DEF Inserts
    <3>4. Locking(q) => \A e \in DocIds : Live(e)' /\ docs'[e].kb = reqs[q].kb => e \in reqs[q].docs
      BY <1>1, <2>1, <3>1, <3>3 DEF Inserts, DeletionComplete, Live
    <3>5. Removing(q) => \A e \in reqs[q].docs : docs'[e] = docs[e]
      BY <1>1, <3>2, <3>3
    <3> QED
      BY <1>1, <3>3, <3>4, <3>5 DEF DeletionComplete, Locking, Removing, Live
  <2> QED
    BY <2>2, <2>3
<1>4. ASSUME NEW r \in Reqs, DropRows(r) PROVE DeletionComplete(q)'
  <2>1. \A d \in DocIds :
          /\ docs'[d].content = docs[d].content /\ docs'[d].kb = docs[d].kb
          /\ docs'[d].status = IF d \in Removed(r) THEN "DELETED" ELSE docs[d].status
    BY <1>4, DeletedRows DEF Deletes
  <2>2. \A d \in DocIds : /\ Live(d)' <=> Live(d) /\ d \notin Removed(r)
                          /\ docs'[d].status = "FREE" => docs[d].status = "FREE"
    BY <2>1 DEF Live, LiveStates
  <2>3. CASE q = r
    <3>1. /\ reqs[q].pc = "dropRows" /\ reqs'[q].pc = "unlink"
          /\ reqs'[q].docs = reqs[q].docs /\ reqs'[q].paths = reqs[q].paths
      BY <1>4, <2>3, DeletedRows DEF Deletes
    <3>2. \A d \in reqs[q].docs : ~Live(d)'
      BY <1>1, <2>2, <2>3 DEF Removed
    <3>3. Removing(q) /\ Removing(q)' /\ ~Locking(q)'
      BY <3>1 DEF Locking, Removing
    <3>4. \A d \in reqs[q].docs : docs'[d].status # "FREE" /\ docs'[d].content = docs[d].content
      BY <1>1, <2>1, <2>2, <3>3 DEF DeletionComplete
    <3> QED
      BY <1>1, <3>1, <3>2, <3>3, <3>4 DEF DeletionComplete
  <2>4. CASE q # r
    <3>1. reqs'[q] = reqs[q]
      BY <1>4, <2>4, DeletedRows DEF Deletes
    <3>2. \A d \in reqs[q].docs : docs'[d].content = docs[d].content
      BY <1>1, <2>1
    <3>3. \A d \in reqs[q].docs : docs[d].status # "FREE" => docs'[d].status # "FREE"
      BY <1>1, <2>2
    <3>4. Locking(q)' <=> Locking(q)
      BY <3>1 DEF Locking
    <3>5. Removing(q)' <=> Removing(q)
      BY <3>1, <3>4 DEF Removing
    <3>6. Locking(q) => \A d \in DocIds : Live(d)' /\ docs'[d].kb = reqs[q].kb => d \in reqs[q].docs
      BY <1>1, <2>1, <2>2 DEF DeletionComplete
    <3>7. reqs[q].pc = "unlink" => \A d \in reqs[q].docs : ~Live(d)'
      BY <1>1, <2>2 DEF DeletionComplete
    <3> QED
      BY <1>1, <3>1, <3>2, <3>3, <3>4, <3>5, <3>6, <3>7 DEF DeletionComplete
  <2> QED
    BY <2>3, <2>4
<1>5. ASSUME NEW r \in Reqs, Request(r), ~InsertDocument(r), ~DropRows(r)
      PROVE  DeletionComplete(q)'
  <2>1. SameRows
    BY <1>5, RequestKeepsRows
  <2>2. CASE q # r
    <3>1. reqs'[q] = reqs[q]
      BY <1>5, <2>2 DEF Request, BeginUpload, RefreshDocument, RollbackUpload, EnqueueJob,
         SaveJobId, BeginDeleteDocument, BeginDeleteBase, DropVectors, UnlinkFiles, RequestDies, TypeOK
    <3> QED
      BY <1>1, <2>1, <3>1, SameRowsKeepDeletion
  <2>3. CASE q = r /\ (\/ \E d \in DocIds : BeginDeleteDocument(r, d)
                       \/ \E kb \in KBs : BeginDeleteBase(r, kb))
    BY <2>3, DeletionStarts
  <2>4. CASE q = r /\ DropVectors(r)
    <3>1. /\ reqs[q].pc = "dropVectors" /\ reqs'[q].pc = "dropRows"
          /\ reqs'[q].docs = reqs[q].docs /\ reqs'[q].paths = reqs[q].paths
          /\ reqs'[q].kb = reqs[q].kb
      BY <1>1, <2>4 DEF DropVectors, TypeOK, Requests
    <3> QED
      BY <1>1, <2>1, <3>1, SameRowsKeepDeletion
  <2>5. CASE q = r /\ (\/ \E kb \in KBs, c \in Contents : BeginUpload(r, kb, c)
                       \/ RefreshDocument(r) \/ RollbackUpload(r) \/ EnqueueJob(r)
                       \/ SaveJobId(r) \/ UnlinkFiles(r) \/ RequestDies(r))
    <3>1. ASSUME NEW p \in {"refreshed", "enqueued"}, reqs' = [reqs EXCEPT ![q].pc = p]
          PROVE  reqs'[q].pc = p
      BY <1>1, <3>1 DEF TypeOK, Requests
    <3>2. CASE RefreshDocument(r) \/ EnqueueJob(r)
      <4>1. reqs'[q].pc \in {"refreshed", "enqueued"}
        BY <2>5, <3>1, <3>2 DEF RefreshDocument, EnqueueJob
      <4> QED
        BY <4>1 DEF DeletionComplete, Locking, Removing
    <3>3. CASE RollbackUpload(r) \/ SaveJobId(r) \/ UnlinkFiles(r) \/ RequestDies(r)
      <4>1. reqs'[q].pc = "idle"
        BY <2>5, <3>3 DEF RollbackUpload, SaveJobId, UnlinkFiles, RequestDies, TypeOK, IdleReq
      <4> QED
        BY <4>1 DEF DeletionComplete, Locking, Removing
    <3>4. ASSUME NEW kb \in KBs, NEW c \in Contents, BeginUpload(r, kb, c)
          PROVE  DeletionComplete(q)'
      <4>1. reqs'[q].pc = "written"
        BY <2>5, <3>4 DEF BeginUpload, TypeOK
      <4> QED
        BY <4>1 DEF DeletionComplete, Locking, Removing
    <3> QED
      BY <2>5, <3>2, <3>3, <3>4
  <2> QED
    BY <1>5, <2>2, <2>3, <2>4, <2>5 DEF Request
<1> QED
  BY <1>2, <1>3, <1>4, <1>5

(* What is remembered of accidents is never forgotten.                      *)
LEMMA HistoryGrows ==
  ASSUME TypeOK, [Next]_vars
  PROVE  /\ hist.rolledBack \subseteq hist'.rolledBack /\ hist.leaked \subseteq hist'.leaked
         /\ hist.lostUploads \subseteq hist'.lostUploads
         /\ hist.halfDeleted \subseteq hist'.halfDeleted
<1>1. CASE \A r \in Reqs : ~Request(r)
  BY <1>1, OthersAreQuiet DEF Quiet
<1>2. ASSUME NEW r \in Reqs, RollbackUpload(r) PROVE
         /\ hist.rolledBack \subseteq hist'.rolledBack /\ hist.leaked \subseteq hist'.leaked
         /\ hist.lostUploads \subseteq hist'.lostUploads
         /\ hist.halfDeleted \subseteq hist'.halfDeleted
  BY <1>2 DEF RollbackUpload, TypeOK
<1>3. ASSUME NEW r \in Reqs, RequestDies(r) PROVE
         /\ hist.rolledBack \subseteq hist'.rolledBack /\ hist.leaked \subseteq hist'.leaked
         /\ hist.lostUploads \subseteq hist'.lostUploads
         /\ hist.halfDeleted \subseteq hist'.halfDeleted
  BY <1>3 DEF RequestDies, TypeOK
<1>4. ASSUME NEW r \in Reqs, Request(r), ~RollbackUpload(r), ~RequestDies(r) PROVE UNCHANGED hist
  BY <1>4 DEF Request, BeginUpload, InsertDocument, RefreshDocument, EnqueueJob, SaveJobId,
     BeginDeleteDocument, BeginDeleteBase, DropVectors, DropRows, UnlinkFiles
<1> QED
  BY <1>1, <1>2, <1>3, <1>4

(* A content with a row, on the disk or rolled back stays one of these.     *)
LEMMA TracedStays ==
  ASSUME IngestionAssumption, TypeOK, RowsShaped, DeletionsComplete, [Next]_vars,
         NEW c \in Contents, Traced(c)
  PROVE  Traced(c)'
<1>1. ASSUME NEW d \in DocIds, docs[d].content = c PROVE Traced(c)'
  <2>1. docs[d].status # "FREE"
    BY <1>1 DEF RowsShaped, IngestionAssumption
  <2> QED
    BY <1>1, <2>1, RowsPersistStep DEF RowsPersist, Traced
<1>2. CASE \A r \in Reqs : ~Request(r)
  BY <1>1, <1>2, OthersAreQuiet DEF Quiet, Traced
<1>3. ASSUME NEW r \in Reqs, RollbackUpload(r) PROVE Traced(c)'
  <2>1. files' = files \ reqs[r].paths /\ hist'.rolledBack = hist.rolledBack \cup reqs[r].paths
    BY <1>3 DEF RollbackUpload, TypeOK
  <2> QED
    BY <1>1, <2>1 DEF Traced
<1>4. ASSUME NEW r \in Reqs, UnlinkFiles(r) PROVE Traced(c)'
  <2>1. CASE c \in reqs[r].paths
    <3>1. \E d \in reqs[r].docs : docs[d].content = c
      BY <1>4, <2>1 DEF UnlinkFiles, DeletionsComplete, DeletionComplete, Removing
    <3>2. reqs[r].docs \subseteq DocIds
      BY DEF TypeOK, Requests
    <3> QED
      BY <1>1, <3>1, <3>2
  <2>2. CASE c \notin reqs[r].paths
    BY <1>1, <1>4, <2>2 DEF UnlinkFiles, Traced
  <2> QED
    BY <2>1, <2>2
<1>5. ASSUME NEW r \in Reqs, Request(r), ~RollbackUpload(r), ~UnlinkFiles(r) PROVE Traced(c)'
  <2>1. files \subseteq files'
    BY <1>5 DEF Request, BeginUpload, InsertDocument, RefreshDocument, EnqueueJob, SaveJobId,
       BeginDeleteDocument, BeginDeleteBase, DropVectors, DropRows, RequestDies
  <2>2. hist'.rolledBack = hist.rolledBack
    BY <1>5 DEF Request, BeginUpload, InsertDocument, RefreshDocument, EnqueueJob, SaveJobId,
       BeginDeleteDocument, BeginDeleteBase, DropVectors, DropRows, RequestDies, TypeOK
  <2> QED
    BY <1>1, <2>1, <2>2 DEF Traced
<1> QED
  BY <1>2, <1>3, <1>4, <1>5

(* A step of request r leaves the others as they are.                       *)
LEMMA RequestIsAlone ==
  ASSUME TypeOK, NEW r \in Reqs, Request(r), NEW q \in Reqs \ {r}
  PROVE  reqs'[q] = reqs[q]
BY DEF Request, BeginUpload, InsertDocument, RefreshDocument, RollbackUpload, EnqueueJob,
   SaveJobId, BeginDeleteDocument, BeginDeleteBase, DropVectors, DropRows, UnlinkFiles,
   RequestDies, TypeOK

(* Where a request goes from its program counter, and comes from.           *)
LEMMA RequestMoves ==
  ASSUME IngestionAssumption, TypeOK, NEW r \in Reqs, Request(r)
  PROVE  /\ reqs'[r].pc = "written" => \E kb \in KBs, c \in Contents : BeginUpload(r, kb, c)
         /\ reqs[r].pc = "written" => InsertDocument(r) \/ RollbackUpload(r) \/ RequestDies(r)
         /\ reqs[r].pc = "unlink" => UnlinkFiles(r) \/ RequestDies(r)
         /\ reqs[r].pc = "dropRows" => DropRows(r) \/ RequestDies(r)
         /\ reqs'[r].pc = "dropRows" => DropVectors(r)
         /\ reqs[r].pc = "inserted" => RefreshDocument(r) \/ RollbackUpload(r) \/ RequestDies(r)
         /\ reqs[r].pc = "refreshed" => EnqueueJob(r) \/ RequestDies(r)
<1>1. ASSUME NEW p \in ReqPcs, reqs' = [reqs EXCEPT ![r].pc = p] PROVE reqs'[r].pc = p
  BY <1>1 DEF TypeOK, Requests
<1>2. ASSUME InsertDocument(r) PROVE reqs[r].pc = "written" /\ reqs'[r].pc = "inserted"
  BY <1>2, InsertedRow DEF Inserts
<1>3. ASSUME RefreshDocument(r) PROVE reqs[r].pc = "inserted" /\ reqs'[r].pc = "refreshed"
  BY <1>1, <1>3 DEF RefreshDocument, ReqPcs
<1>4. ASSUME EnqueueJob(r) PROVE reqs[r].pc = "refreshed" /\ reqs'[r].pc = "enqueued"
  BY <1>1, <1>4 DEF EnqueueJob, ReqPcs
<1>5. ASSUME DropVectors(r) PROVE reqs[r].pc = "dropVectors" /\ reqs'[r].pc = "dropRows"
  BY <1>1, <1>5 DEF DropVectors, ReqPcs
<1>6. ASSUME DropRows(r) PROVE reqs[r].pc = "dropRows" /\ reqs'[r].pc = "unlink"
  BY <1>1, <1>6 DEF DropRows, ReqPcs
<1>7. ASSUME RollbackUpload(r) \/ SaveJobId(r) \/ UnlinkFiles(r) \/ RequestDies(r)
      PROVE  reqs'[r].pc = "idle"
  BY <1>7 DEF RollbackUpload, SaveJobId, UnlinkFiles, RequestDies, TypeOK, IdleReq
<1>8. /\ RollbackUpload(r) => reqs[r].pc \in {"written", "inserted"}
      /\ SaveJobId(r) => reqs[r].pc = "enqueued"
      /\ UnlinkFiles(r) => reqs[r].pc = "unlink"
  BY DEF RollbackUpload, SaveJobId, UnlinkFiles
<1>9. ASSUME \/ \E d \in DocIds : BeginDeleteDocument(r, d)
             \/ \E kb \in KBs : BeginDeleteBase(r, kb)
      PROVE  reqs[r].pc = "idle" /\ reqs'[r].pc = "dropVectors"
  BY <1>9 DEF BeginDeleteDocument, BeginDeleteBase, TypeOK
<1>10. ASSUME \E kb \in KBs, c \in Contents : BeginUpload(r, kb, c)
       PROVE  reqs[r].pc = "idle" /\ reqs'[r].pc = "written"
  BY <1>10 DEF BeginUpload, TypeOK
<1>11. \/ \E kb \in KBs, c \in Contents : BeginUpload(r, kb, c)
       \/ \E d \in DocIds : BeginDeleteDocument(r, d)
       \/ \E kb \in KBs : BeginDeleteBase(r, kb)
       \/ InsertDocument(r) \/ RefreshDocument(r) \/ RollbackUpload(r)
       \/ EnqueueJob(r) \/ SaveJobId(r) \/ DropVectors(r) \/ DropRows(r) \/ UnlinkFiles(r)
       \/ RequestDies(r)
  BY DEF Request
<1> QED
  BY <1>2, <1>3, <1>4, <1>5, <1>6, <1>7, <1>8, <1>9, <1>10, <1>11

LEMMA UploadsWrittenStep ==
  ASSUME IngestionAssumption, TypeOK, FilesKnown, [Next]_vars
  PROVE  UploadsWritten'
<1> USE DEF FilesKnown
<1> SUFFICES ASSUME NEW q \in Reqs, reqs'[q].pc = "written"
             PROVE  \E c \in Contents : reqs'[q].paths = {c} /\ Traced(c)'
  BY DEF UploadsWritten, UploadWritten
<1>1. CASE reqs'[q] = reqs[q]
  BY <1>1, TracedStays DEF UploadsWritten, UploadWritten
<1>2. CASE \A r \in Reqs : ~Request(r)
  BY <1>1, <1>2, OthersAreQuiet DEF Quiet
<1>3. ASSUME NEW r \in Reqs, Request(r), r # q
      PROVE  \E c \in Contents : reqs'[q].paths = {c} /\ Traced(c)'
  BY <1>1, <1>3, RequestIsAlone
<1>4. ASSUME Request(q) PROVE \E c \in Contents : reqs'[q].paths = {c} /\ Traced(c)'
  <2>1. PICK kb \in KBs, c \in Contents : BeginUpload(q, kb, c)
    BY <1>4, RequestMoves
  <2>2. reqs'[q].paths = {c} /\ c \in files'
    BY <2>1 DEF BeginUpload, TypeOK
  <2> QED
    BY <2>2 DEF Traced
<1> QED
  BY <1>2, <1>3, <1>4

FileWanted(c) ==
  \/ \E d \in DocIds : Live(d) /\ docs[d].content = c
  \/ \E r \in Reqs : reqs[r].pc \in {"written", "unlink"} /\ c \in reqs[r].paths
  \/ c \in hist.leaked

(* Whoever wants a file still wants it after a step, or has unlinked it, or *)
(* died and is remembered.                                                  *)
LEMMA FileStaysWanted ==
  ASSUME IngestionAssumption, TypeOK, FilesKnown, [Next]_vars,
         NEW c \in files, c \in files', FileWanted(c)
  PROVE  FileWanted(c)'
<1> USE DEF FilesKnown
<1>1. \A x \in hist.leaked : x \in hist'.leaked
  BY HistoryGrows
<1>2. ASSUME NEW d \in DocIds, Live(d), docs[d].content = c PROVE FileWanted(c)'
  <2>1. docs[d].status # "FREE" /\ docs'[d].content = c
    BY <1>2, RowsPersistStep DEF RowsPersist, Live, LiveStates
  <2>2. CASE Live(d)'
    BY <2>1, <2>2 DEF FileWanted
  <2>3. CASE ~Live(d)'
    <3>1. PICK r \in Reqs : DropRows(r)
      <4>1. ~SameRows
        BY <1>2, <2>3 DEF SameRows
      <4>2. PICK r \in Reqs : Request(r) /\ (InsertDocument(r) \/ DropRows(r))
        BY <4>1, OthersAreQuiet, RequestKeepsRows DEF Quiet
      <4>3. ~InsertDocument(r)
        BY <1>2, <2>3, InsertedRow DEF Inserts, Live, LiveStates
      <4> QED
        BY <4>2, <4>3
    <3>2. d \in Removed(r) /\ reqs'[r].pc = "unlink" /\ reqs'[r].paths = reqs[r].paths
          /\ Locking(r) /\ Removing(r)
      BY <1>2, <2>3, <3>1, DeletedRows DEF Deletes, Live, Locking, Removing
    <3>3. d \in reqs[r].docs
      BY <3>2 DEF Removed, DeletionsComplete, DeletionComplete
    <3>4. c \in reqs[r].paths
      BY <1>2, <3>2, <3>3 DEF DeletionsComplete, DeletionComplete
    <3> QED
      BY <3>2, <3>4 DEF FileWanted
  <2> QED
    BY <2>2, <2>3
<1>3. ASSUME NEW r \in Reqs, reqs[r].pc \in {"written", "unlink"}, c \in reqs[r].paths
      PROVE  FileWanted(c)'
  <2>1. CASE reqs'[r] = reqs[r]
    BY <1>3, <2>1 DEF FileWanted
  <2>2. CASE ~Request(r)
    BY <2>1, <2>2, RequestIsAlone, OthersAreQuiet DEF Quiet
  <2>3. CASE InsertDocument(r)
    <3>1. PICK d \in DocIds, x \in reqs[r].paths : Inserts(r, d, x)
      BY <2>3, InsertedRow
    <3>2. x = c
      BY <1>3, <3>1 DEF Inserts, UploadsWritten, UploadWritten
    <3> QED
      BY <3>1, <3>2 DEF Inserts, FileWanted, Live, LiveStates
  <2>4. CASE RollbackUpload(r) \/ UnlinkFiles(r)
    BY <1>3, <2>4 DEF RollbackUpload, UnlinkFiles
  <2>5. CASE RequestDies(r)
    <3>1. hist'.leaked = hist.leaked \cup reqs[r].paths
      BY <1>3, <2>5 DEF RequestDies, TypeOK
    <3> QED
      BY <1>3, <3>1 DEF FileWanted
  <2> QED
    BY <1>3, <2>2, <2>3, <2>4, <2>5, RequestMoves
<1> QED
  BY <1>1, <1>2, <1>3 DEF FileWanted

LEMMA NoLeakedFileStep ==
  ASSUME IngestionAssumption, TypeOK, FilesKnown, NoLeakedFile, [Next]_vars
  PROVE  NoLeakedFile'
<1> SUFFICES ASSUME NEW c \in files' PROVE FileWanted(c)'
  BY DEF NoLeakedFile, FileWanted
<1>1. CASE c \in files
  BY <1>1, FileStaysWanted DEF NoLeakedFile, FileWanted
<1>2. CASE c \notin files
  <2>1. PICK r \in Reqs, kb \in KBs : BeginUpload(r, kb, c)
    <3>1. PICK r \in Reqs : Request(r)
      BY <1>2, OthersAreQuiet DEF Quiet
    <3> QED
      BY <1>2, <3>1 DEF Request, BeginUpload, InsertDocument, RefreshDocument, RollbackUpload,
         EnqueueJob, SaveJobId, BeginDeleteDocument, BeginDeleteBase, DropVectors, DropRows,
         UnlinkFiles, RequestDies
  <2>2. reqs'[r].pc = "written" /\ reqs'[r].paths = {c}
    BY <2>1 DEF BeginUpload, TypeOK
  <2> QED
    BY <2>2 DEF FileWanted
<1> QED
  BY <1>1, <1>2

(* A step takes a file away only for a rolled back upload or for a deletion *)
(* of a document of that content, which is gone.                            *)
LEMMA FileGoesWithRow ==
  ASSUME TypeOK, DeletionsComplete, [Next]_vars, NEW c \in files, c \notin files'
  PROVE  c \in hist'.rolledBack \/ \E e \in DocIds : ~Live(e) /\ docs[e].content = c
<1>1. PICK r \in Reqs : Request(r)
  BY OthersAreQuiet DEF Quiet
<1>2. CASE RollbackUpload(r)
  BY <1>2 DEF RollbackUpload, TypeOK
<1>3. CASE UnlinkFiles(r)
  <2>1. c \in reqs[r].paths /\ reqs[r].pc = "unlink" /\ reqs[r].docs \subseteq DocIds
    BY <1>3 DEF UnlinkFiles, TypeOK, Requests
  <2> QED
    BY <2>1 DEF DeletionsComplete, DeletionComplete, Removing
<1> QED
  BY <1>1, <1>2, <1>3 DEF Request, BeginUpload, InsertDocument, RefreshDocument,
     EnqueueJob, SaveJobId, BeginDeleteDocument, BeginDeleteBase, DropVectors, DropRows, RequestDies

LEMMA UnsharedFileKeptStep ==
  ASSUME IngestionAssumption, TypeOK, FilesKnown, UnsharedFileKept, [Next]_vars
  PROVE  UnsharedFileKept'
<1> USE DEF FilesKnown
<1> SUFFICES ASSUME NEW d \in DocIds, Live(d)', docs'[d].content \notin hist'.rolledBack,
                    \A e \in DocIds \ {d} : docs'[e].content # docs'[d].content
             PROVE  docs'[d].content \in files'
  BY DEF UnsharedFileKept
<1> DEFINE c == docs'[d].content
<1>1. c \notin hist.rolledBack
  BY HistoryGrows
<1>2. c \in Contents /\ RowsShaped'
  BY RowsShapedStep DEF RowsShaped
<1>3. \A e \in DocIds \ {d} : docs[e].content # c
  <2> SUFFICES ASSUME NEW e \in DocIds \ {d}, docs[e].content = c PROVE FALSE
    OBVIOUS
  <2>1. docs[e].status # "FREE"
    BY <1>2 DEF RowsShaped, IngestionAssumption
  <2> QED
    BY <2>1, RowsPersistStep DEF RowsPersist
<1>4. CASE Live(d)
  <2>1. docs[d].content = c
    BY <1>4, RowsPersistStep DEF RowsPersist, Live, LiveStates
  <2>2. c \in files
    BY <1>1, <1>3, <1>4, <2>1 DEF UnsharedFileKept
  <2> QED
    BY <1>3, <1>4, <2>2, FileGoesWithRow
<1>5. CASE ~Live(d)
  <2>1. PICK r \in Reqs : InsertDocument(r)
    <3>1. ~SameRows
      BY <1>5 DEF SameRows
    <3>2. PICK r \in Reqs : Request(r) /\ (InsertDocument(r) \/ DropRows(r))
      BY <3>1, OthersAreQuiet, RequestKeepsRows DEF Quiet
    <3>3. ~DropRows(r)
      BY <1>5, DeletedRows DEF Deletes, Live, LiveStates
    <3> QED
      BY <3>2, <3>3
  <2>2. PICK e \in DocIds, x \in reqs[r].paths : Inserts(r, e, x)
    BY <2>1, InsertedRow
  <2>3. e = d /\ x = c
    BY <1>5, <2>2 DEF Inserts, Live
  <2>4. docs[d].content = None /\ c # None
    BY <1>2, <2>2, <2>3 DEF Inserts, RowsShaped, IngestionAssumption
  <2>5. Traced(c)
    BY <2>2, <2>3 DEF Inserts, UploadsWritten, UploadWritten
  <2>6. c \in files
    BY <1>1, <1>3, <2>4, <2>5 DEF Traced
  <2> QED
    BY <2>2, <2>6 DEF Inserts
<1> QED
  BY <1>4, <1>5

LEMMA FilesInvariant == Spec => [](FilesKnown /\ NoLeakedFile /\ UnsharedFileKept)
<1> USE IngestionAssumption
<1>1. Init => FilesKnown /\ NoLeakedFile /\ UnsharedFileKept
  BY DEF Init, FilesKnown, RowsShaped, DeletionsComplete, DeletionComplete, UploadsWritten,
     UploadWritten, Locking, Removing, Live, LiveStates, IdleReq, NoLeakedFile, UnsharedFileKept
<1>2. TypeOK /\ FilesKnown /\ NoLeakedFile /\ UnsharedFileKept /\ [Next]_vars
        => (FilesKnown /\ NoLeakedFile /\ UnsharedFileKept)'
  BY RowsShapedStep, DeletionsCompleteStep, UploadsWrittenStep, NoLeakedFileStep,
     UnsharedFileKeptStep DEF FilesKnown
<1> QED
  BY <1>1, <1>2, TypeCorrect, PTL DEF Spec

(* Deleting documents and bases misses no file, for any number of requests  *)
(* in any order: a file nobody wants was left by an API process that died.  *)
THEOREM NoFileLeaks == Spec => []NoLeakedFile
BY FilesInvariant, PTL

(* A document that shares its content with no other row and no rolled back  *)
(* upload keeps its file as long as its row.                                *)
THEOREM UnsharedFilesKept == Spec => []UnsharedFileKept
BY FilesInvariant, PTL
-----------------------------------------------------------------------------
(* Vectors.  A run past its upsert has points in the collection unless a    *)
(* deletion took them, and a deletion past its vector step has left only    *)
(* points that were written after it.                                       *)
Searchable(d) == d \in vectors \/ Deleting(d) \/ d \in hist.halfDeleted

RunsUpserted == \A w \in Workers, d \in DocIds : At(w, "ready", d) => Searchable(d)

DroppedVectors ==
  \A r \in Reqs : reqs[r].pc = "dropRows" =>
    \A d \in reqs[r].docs : d \in vectors => d \in hist.overlapped

VectorsKnown ==
  RunsUpserted /\ DroppedVectors /\ ReadyIsSearchable /\ OrphanVectorsOnlyFromOverlap

(* What a step can do to the status of a row.                               *)
LEMMA StatusChanges ==
  ASSUME IngestionAssumption, TypeOK, [Next]_vars,
         NEW d \in DocIds, docs'[d].status # docs[d].status
  PROVE  \/ /\ docs[d].status = "FREE" /\ docs'[d].status = "PROCESSING"
            /\ \E r \in Reqs : \E c \in reqs[r].paths : Inserts(r, d, c)
         \/ /\ Live(d) /\ docs'[d].status = "DELETED"
            /\ \E r \in Reqs : Deletes(r) /\ d \in Removed(r)
         \/ /\ docs'[d].status = "PROCESSING"
            /\ \E w \in Workers : RecordAttempt(w, d)
         \/ /\ docs'[d].status = "READY"
            /\ \E w \in Workers : CommitReady(w, d)
         \/ /\ docs'[d].status = "FAILED"
            /\ \E w \in Workers : CommitFailed(w, d)
<1>1. \A e \in DocIds : docs[e] \in Docs
  BY DEF TypeOK
<1>2. ASSUME NEW r \in Reqs, InsertDocument(r)
      PROVE  /\ docs[d].status = "FREE" /\ docs'[d].status = "PROCESSING"
             /\ \E c \in reqs[r].paths : Inserts(r, d, c)
  <2>1. PICK e \in DocIds, c \in reqs[r].paths : Inserts(r, e, c)
    BY <1>2, InsertedRow
  <2>2. e = d
    BY <2>1 DEF Inserts
  <2> QED
    BY <2>1, <2>2 DEF Inserts
<1>3. ASSUME NEW r \in Reqs, DropRows(r)
      PROVE  Live(d) /\ docs'[d].status = "DELETED" /\ Deletes(r) /\ d \in Removed(r)
  BY <1>3, DeletedRows DEF Deletes, Removed
<1>4. ASSUME NEW r \in Reqs, SaveJobId(r) PROVE FALSE
  <2>1. docs'[d] \in {docs[d], [docs[d] EXCEPT !.job = d]}
    BY <1>4 DEF SaveJobId
  <2> QED
    BY <1>1, <2>1 DEF Docs
<1>5. ASSUME NEW r \in Reqs, Request(r), ~InsertDocument(r), ~DropRows(r), ~SaveJobId(r)
      PROVE  FALSE
  BY <1>5, AsideUnchanged DEF Request, Aside, EnqueueJob
<1>6. ASSUME NEW w \in Workers, NEW e \in DocIds, Run(w, e)
      PROVE  \/ docs'[d].status = "PROCESSING" /\ RecordAttempt(w, d)
             \/ docs'[d].status = "READY" /\ CommitReady(w, d)
             \/ docs'[d].status = "FAILED" /\ CommitFailed(w, d)
  <2>1. CASE RecordAttempt(w, e)
    <3>1. docs' = [docs EXCEPT ![e].attempts = @ + 1, ![e].status = "PROCESSING"]
      BY <2>1 DEF RecordAttempt
    <3>2. e = d
      BY <3>1 DEF TypeOK
    <3>3. docs'[d].status = "PROCESSING"
      BY <1>1, <3>1, <3>2 DEF TypeOK, Docs
    <3> QED
      BY <2>1, <3>2, <3>3
  <2>2. CASE CommitReady(w, e)
    <3>1. e = d
      BY <2>2 DEF CommitReady, TypeOK
    <3>2. docs'[d].status = "READY"
      BY <1>1, <2>2, <3>1 DEF CommitReady, TypeOK, Docs
    <3> QED
      BY <2>2, <3>1, <3>2
  <2>3. CASE CommitFailed(w, e)
    <3>1. docs' = [docs EXCEPT ![e].status = "FAILED"]
      BY <2>3 DEF CommitFailed, WithFailure
    <3>2. e = d
      BY <3>1 DEF TypeOK
    <3>3. docs'[d].status = "FAILED"
      BY <1>1, <3>1, <3>2 DEF TypeOK, Docs
    <3> QED
      BY <2>3, <3>2, <3>3
  <2> QED
    BY <1>6, <2>1, <2>2, <2>3
       DEF Run, TakeJob, LoadDocument, ParseFile, DeleteOldVectors, UpsertVectors, RunRaises,
           CloseRaises, JobFails, JobFinishes, WorkerDies
<1> QED
  BY <1>2, <1>3, <1>4, <1>5, <1>6 DEF Next, vars, CreateBase, Queue, RetryJob, JobDue,
     AbandonedJob, JobExpires

(* Where a run past its upsert comes from, how a run comes to its end, and   *)
(* where a finished run goes.                                               *)
LEMMA RunEnds ==
  ASSUME TypeOK, [Next]_vars, NEW w \in Workers, NEW d \in DocIds
  PROVE  /\ At(w, "ready", d)' => At(w, "ready", d) \/ UpsertVectors(w, d)
         /\ At(w, "returned", d)' => At(w, "returned", d) \/ CommitReady(w, d)
         /\ At(w, "raised", d)' =>
              At(w, "raised", d) \/ CommitFailed(w, d) \/ CloseRaises(w, d)
         /\ At(w, "returned", d) =>
              \/ At(w, "returned", d)' \/ JobFinishes(w, d)
              \/ RunRaises(w, d) \/ CloseRaises(w, d) \/ WorkerDies(w, d)
<1>1. CASE workers' = workers
  BY <1>1 DEF At
<1>2. ASSUME NEW v \in Workers, NEW e \in DocIds, Run(v, e), v # w PROVE workers'[w] = workers[w]
  BY <1>2 DEF Run, TakeJob, LoadDocument, RecordAttempt, ParseFile, DeleteOldVectors,
     UpsertVectors, CommitReady, RunRaises, CloseRaises, CommitFailed, JobFails, JobFinishes,
     WorkerDies, TypeOK
<1>3. ASSUME NEW e \in DocIds, Run(w, e)
      PROVE  /\ workers'[w].pc = "ready" => UpsertVectors(w, e)
             /\ workers'[w].pc = "returned" => CommitReady(w, e)
             /\ workers'[w].pc = "raised" => CommitFailed(w, e) \/ CloseRaises(w, e)
  BY <1>3 DEF Run, TakeJob, LoadDocument, RecordAttempt, ParseFile, DeleteOldVectors,
     UpsertVectors, CommitReady, RunRaises, CloseRaises, CommitFailed, JobFails, JobFinishes,
     WorkerDies, TypeOK, IdleWorker, WorkerStates
<1>4. ASSUME NEW e \in DocIds,
             \/ UpsertVectors(w, e) \/ CommitReady(w, e)
             \/ CommitFailed(w, e) \/ CloseRaises(w, e),
             workers'[w].doc = d
      PROVE  e = d
  BY <1>4 DEF UpsertVectors, CommitReady, CommitFailed, CloseRaises, At, TypeOK, WorkerStates
<1>5. ASSUME NEW e \in DocIds, Run(w, e), workers[w].pc = "returned"
      PROVE  JobFinishes(w, e) \/ RunRaises(w, e) \/ CloseRaises(w, e) \/ WorkerDies(w, e)
  BY <1>5 DEF Run, TakeJob, LoadDocument, RecordAttempt, ParseFile, DeleteOldVectors,
     UpsertVectors, CommitReady, CommitFailed, JobFails, At
<1>6. ASSUME NEW e \in DocIds, At(w, "returned", d),
             JobFinishes(w, e) \/ RunRaises(w, e) \/ CloseRaises(w, e) \/ WorkerDies(w, e)
      PROVE  e = d
  BY <1>6 DEF JobFinishes, RunRaises, CloseRaises, WorkerDies, At
<1>7. CASE \E v \in Workers, e \in DocIds : Run(v, e)
  BY <1>2, <1>3, <1>4, <1>5, <1>6, <1>7 DEF At
<1>8. CASE ~\E v \in Workers, e \in DocIds : Run(v, e)
  BY <1>1, <1>8, AsideUnchanged DEF Next, vars, CreateBase, Request, Aside, InsertDocument,
     EnqueueJob, SaveJobId, DropRows, Queue, RetryJob, JobDue, AbandonedJob, JobExpires
<1> QED
  BY <1>7, <1>8

(* What is remembered of late upserts stays; what is remembered of a run    *)
(* goes only with the next run of the document, or with its next READY.     *)
LEMMA LateGrows ==
  ASSUME TypeOK, [Next]_vars
  PROVE  /\ hist.overlapped \subseteq hist'.overlapped
         /\ \A d \in hist.cutShort : d \in hist'.cutShort \/ \E w \in Workers : TakeJob(w, d)
         /\ \A d \in hist.unconfirmed :
              d \in hist'.unconfirmed \/ \E w \in Workers : CommitReady(w, d)
<1>1. ASSUME NEW w \in Workers, NEW e \in DocIds, Run(w, e)
      PROVE  /\ hist.overlapped \subseteq hist'.overlapped
             /\ TakeJob(w, e) \/ hist.cutShort \subseteq hist'.cutShort
             /\ hist.cutShort \ {e} \subseteq hist'.cutShort
             /\ CommitReady(w, e) \/ hist.unconfirmed \subseteq hist'.unconfirmed
             /\ hist.unconfirmed \ {e} \subseteq hist'.unconfirmed
  <2>1. CASE TakeJob(w, e)
    BY <2>1 DEF TakeJob, TypeOK
  <2>2. CASE UpsertVectors(w, e)
    BY <2>2 DEF UpsertVectors, TypeOK
  <2>3. CASE CommitReady(w, e)
    BY <2>3 DEF CommitReady, TypeOK
  <2>4. CASE RunRaises(w, e) \/ CloseRaises(w, e)
    BY <2>4 DEF RunRaises, CloseRaises, Unconfirmed, TypeOK
  <2>5. CASE CommitFailed(w, e)
    BY <2>5 DEF CommitFailed, TypeOK
  <2>6. CASE WorkerDies(w, e)
    BY <2>6 DEF WorkerDies, Unconfirmed, TypeOK
  <2> QED
    BY <1>1, <2>1, <2>2, <2>3, <2>4, <2>5, <2>6 DEF Run, LoadDocument, RecordAttempt, ParseFile,
       DeleteOldVectors, JobFails, JobFinishes
<1>2. ASSUME NEW r \in Reqs, Request(r)
      PROVE  /\ hist'.overlapped = hist.overlapped /\ hist'.cutShort = hist.cutShort
             /\ hist'.unconfirmed = hist.unconfirmed
  <2>1. CASE RollbackUpload(r)
    BY <2>1 DEF RollbackUpload, TypeOK
  <2>2. CASE RequestDies(r)
    BY <2>2 DEF RequestDies, TypeOK
  <2> QED
    BY <1>2, <2>1, <2>2 DEF Request, BeginUpload, InsertDocument, RefreshDocument, EnqueueJob,
       SaveJobId, BeginDeleteDocument, BeginDeleteBase, DropVectors, DropRows, UnlinkFiles
<1>3. CASE \E w \in Workers, e \in DocIds : Run(w, e)
  <2>1. PICK w \in Workers, e \in DocIds : Run(w, e)
    BY <1>3
  <2>2. \A d \in hist.cutShort : d \in hist'.cutShort \/ TakeJob(w, d)
    BY <1>1, <2>1
  <2>3. \A d \in hist.unconfirmed : d \in hist'.unconfirmed \/ CommitReady(w, d)
    BY <1>1, <2>1
  <2> QED
    BY <1>1, <2>1, <2>2, <2>3
<1>4. CASE ~\E w \in Workers, e \in DocIds : Run(w, e)
  BY <1>2, <1>4 DEF Next, vars, CreateBase, Queue, RetryJob, JobDue, AbandonedJob, JobExpires
<1> QED
  BY <1>3, <1>4

(* What a step can do to the collection.                                    *)
LEMMA CollectionChanges ==
  ASSUME TypeOK, [Next]_vars
  PROVE  \/ vectors' = vectors
         \/ \E w \in Workers, e \in DocIds :
              UpsertVectors(w, e) /\ vectors' = vectors \cup {e}
         \/ \E w \in Workers, e \in DocIds :
              DeleteOldVectors(w, e) /\ vectors' = vectors \ {e}
         \/ \E r \in Reqs : DropVectors(r) /\ vectors' = vectors \ reqs[r].docs
<1>1. ASSUME NEW r \in Reqs, Request(r), ~DropVectors(r) PROVE UNCHANGED vectors
  BY <1>1 DEF Request, BeginUpload, InsertDocument, RefreshDocument, RollbackUpload, EnqueueJob,
     SaveJobId, BeginDeleteDocument, BeginDeleteBase, DropRows, UnlinkFiles, RequestDies
<1>2. ASSUME NEW w \in Workers, NEW e \in DocIds, Run(w, e),
             ~UpsertVectors(w, e), ~DeleteOldVectors(w, e)
      PROVE  UNCHANGED vectors
  BY <1>2 DEF Run, TakeJob, LoadDocument, RecordAttempt, ParseFile, CommitReady, RunRaises,
     CloseRaises, CommitFailed, JobFails, JobFinishes, WorkerDies
<1>3. \A r \in Reqs : DropVectors(r) => vectors' = vectors \ reqs[r].docs
  BY DEF DropVectors
<1>4. \A w \in Workers, e \in DocIds : UpsertVectors(w, e) => vectors' = vectors \cup {e}
  BY DEF UpsertVectors
<1>5. \A w \in Workers, e \in DocIds : DeleteOldVectors(w, e) => vectors' = vectors \ {e}
  BY DEF DeleteOldVectors
<1>6. CASE \E r \in Reqs : Request(r)
  BY <1>1, <1>3, <1>6
<1>7. CASE \E w \in Workers, e \in DocIds : Run(w, e)
  BY <1>2, <1>4, <1>5, <1>7
<1> QED
  BY <1>6, <1>7 DEF Next, vars, CreateBase, Queue, RetryJob, JobDue, AbandonedJob, JobExpires

LEMMA VectorsChange ==
  ASSUME TypeOK, [Next]_vars, NEW d
  PROVE  /\ d \in vectors' /\ d \notin vectors =>
              d \in DocIds /\ \E w \in Workers : UpsertVectors(w, d)
         /\ d \in vectors /\ d \notin vectors' =>
              \/ \E w \in Workers : DeleteOldVectors(w, d)
              \/ \E r \in Reqs : DropVectors(r) /\ d \in reqs[r].docs
<1>1. CASE vectors' = vectors
  BY <1>1
<1>2. CASE \E w \in Workers, e \in DocIds : UpsertVectors(w, e) /\ vectors' = vectors \cup {e}
  BY <1>2
<1>3. CASE \E w \in Workers, e \in DocIds : DeleteOldVectors(w, e) /\ vectors' = vectors \ {e}
  BY <1>3
<1>4. CASE \E r \in Reqs : DropVectors(r) /\ vectors' = vectors \ reqs[r].docs
  BY <1>4
<1> QED
  BY <1>1, <1>2, <1>3, <1>4, CollectionChanges

(* A deletion past its vector step goes on, or dies and is remembered.      *)
LEMMA DeletingStays ==
  ASSUME IngestionAssumption, TypeOK, [Next]_vars,
         NEW d \in DocIds, docs[d].status # "FREE", Deleting(d)
  PROVE  Deleting(d)' \/ d \in hist'.halfDeleted
<1>1. CASE ~Live(d)
  BY <1>1, RowsPersistStep DEF RowsPersist, Deleting
<1>2. ASSUME NEW r \in Reqs, reqs[r].pc = "dropRows", d \in reqs[r].docs
      PROVE  Deleting(d)' \/ d \in hist'.halfDeleted
  <2>1. CASE reqs'[r] = reqs[r]
    BY <1>2, <2>1 DEF Deleting
  <2>2. CASE DropRows(r)
    <3>1. ~Live(d)'
      BY <1>2, <2>2, DeletedRows DEF Deletes, Removed, Live, LiveStates
    <3> QED
      BY <3>1 DEF Deleting
  <2>3. CASE RequestDies(r)
    BY <1>2, <2>3 DEF RequestDies, TypeOK
  <2>4. CASE ~Request(r)
    BY <2>1, <2>4, RequestIsAlone, OthersAreQuiet DEF Quiet
  <2> QED
    BY <1>2, <2>2, <2>3, <2>4, RequestMoves
<1> QED
  BY <1>1, <1>2 DEF Deleting

LEMMA SearchableStays ==
  ASSUME IngestionAssumption, TypeOK, [Next]_vars,
         NEW d \in DocIds, docs[d].status # "FREE", Searchable(d),
         \A w \in Workers : ~DeleteOldVectors(w, d)
  PROVE  Searchable(d)'
<1>1. CASE d \in vectors
  <2>1. ASSUME NEW r \in Reqs, DropVectors(r), d \in reqs[r].docs PROVE Deleting(d)'
    <3>1. reqs[r] \in Requests /\ reqs' = [reqs EXCEPT ![r].pc = "dropRows"]
      BY <2>1 DEF DropVectors, TypeOK
    <3>2. reqs'[r].pc = "dropRows" /\ reqs'[r].docs = reqs[r].docs
      BY <3>1 DEF TypeOK, Requests
    <3> QED
      BY <2>1, <3>2 DEF Deleting
  <2> QED
    BY <1>1, <2>1, VectorsChange DEF Searchable
<1>2. CASE Deleting(d)
  BY <1>2, DeletingStays DEF Searchable
<1>3. CASE d \in hist.halfDeleted
  BY <1>3, HistoryGrows DEF Searchable
<1> QED
  BY <1>1, <1>2, <1>3 DEF Searchable

LEMMA RunsUpsertedStep ==
  ASSUME IngestionAssumption, TypeOK, Counting, RunsUpserted, [Next]_vars
  PROVE  RunsUpserted'
<1> SUFFICES ASSUME NEW w \in Workers, NEW d \in DocIds, At(w, "ready", d)'
             PROVE  Searchable(d)'
  BY DEF RunsUpserted
<1>1. CASE At(w, "ready", d)
  <2>1. jobs[d].st = "started" /\ docs[d].status # "FREE"
    BY <1>1 DEF At, Counting, WorkersHoldJobs, UploadsHaveNoJob, IngestionAssumption
  <2>2. \A v \in Workers : ~DeleteOldVectors(v, d)
    BY <1>1 DEF At, Counting, WorkersHoldJobs, DeleteOldVectors, IngestionAssumption
  <2> QED
    BY <1>1, <2>1, <2>2, SearchableStays DEF RunsUpserted
<1>2. CASE UpsertVectors(w, d)
  BY <1>2 DEF UpsertVectors, Searchable
<1> QED
  BY <1>1, <1>2, RunEnds

LEMMA ReadyIsSearchableStep ==
  ASSUME IngestionAssumption, TypeOK, RunsInProgress, RunsUpserted, ReadyIsSearchable, [Next]_vars
  PROVE  ReadyIsSearchable'
<1> SUFFICES ASSUME NEW d \in DocIds, docs'[d].status = "READY" PROVE Searchable(d)'
  BY DEF ReadyIsSearchable, Searchable
<1>1. CASE docs[d].status = "READY"
  <2>1. \A w \in Workers : ~DeleteOldVectors(w, d)
    BY <1>1 DEF DeleteOldVectors, At, RunsInProgress
  <2> QED
    BY <1>1, <2>1, SearchableStays DEF ReadyIsSearchable, Searchable
<1>2. CASE docs[d].status # "READY"
  <2>1. PICK w \in Workers : CommitReady(w, d)
    BY <1>2, StatusChanges
  <2>2. /\ Searchable(d) /\ docs[d].status # "FREE"
        /\ UNCHANGED <<vectors, reqs>> /\ hist'.halfDeleted = hist.halfDeleted
    BY <2>1 DEF CommitReady, RunsUpserted, Live, LiveStates, TypeOK
  <2>3. Live(d) /\ Live(d)'
    BY <2>1 DEF CommitReady, Live, LiveStates
  <2> QED
    BY <2>2, <2>3 DEF Searchable, Deleting
<1> QED
  BY <1>1, <1>2

LEMMA DroppedVectorsStep ==
  ASSUME IngestionAssumption, TypeOK, DroppedVectors, [Next]_vars
  PROVE  DroppedVectors'
<1> SUFFICES ASSUME NEW r \in Reqs, reqs'[r].pc = "dropRows",
                    NEW d \in reqs'[r].docs, d \in vectors'
             PROVE  d \in hist'.overlapped
  BY DEF DroppedVectors
<1>1. CASE reqs'[r] = reqs[r]
  <2>1. d \in DocIds /\ reqs[r].pc = "dropRows" /\ d \in reqs[r].docs
    BY <1>1 DEF TypeOK, Requests
  <2>2. CASE d \in vectors
    BY <2>1, <2>2, LateGrows DEF DroppedVectors
  <2>3. CASE d \notin vectors
    <3>1. PICK w \in Workers : UpsertVectors(w, d)
      BY <2>1, <2>3, VectorsChange
    <3> QED
      BY <2>1, <3>1 DEF UpsertVectors, Deleting, TypeOK
  <2> QED
    BY <2>2, <2>3
<1>2. CASE ~Request(r)
  BY <1>1, <1>2, RequestIsAlone, OthersAreQuiet DEF Quiet
<1>3. CASE Request(r)
  <2>1. DropVectors(r) /\ reqs[r] \in Requests
    BY <1>3, RequestMoves DEF TypeOK
  <2>2. reqs'[r].docs = reqs[r].docs /\ vectors' = vectors \ reqs[r].docs
    BY <2>1 DEF DropVectors, TypeOK, Requests
  <2> QED
    BY <2>2
<1> QED
  BY <1>2, <1>3

LEMMA OrphanVectorsStep ==
  ASSUME IngestionAssumption, TypeOK, DeletionsComplete, DroppedVectors,
         OrphanVectorsOnlyFromOverlap, [Next]_vars
  PROVE  OrphanVectorsOnlyFromOverlap'
<1> SUFFICES ASSUME NEW d \in vectors', ~Live(d)' PROVE d \in hist'.overlapped
  BY DEF OrphanVectorsOnlyFromOverlap
<1>1. d \in DocIds
  BY VectorsChange DEF TypeOK
<1>2. CASE d \notin vectors
  <2>1. PICK w \in Workers : UpsertVectors(w, d)
    BY <1>1, <1>2, VectorsChange
  <2>2. Deleting(d)
    BY <2>1 DEF UpsertVectors, Deleting, Live
  <2> QED
    BY <2>1, <2>2 DEF UpsertVectors, TypeOK
<1>3. CASE d \in vectors /\ ~Live(d)
  BY <1>3, LateGrows DEF OrphanVectorsOnlyFromOverlap
<1>4. CASE d \in vectors /\ Live(d)
  <2>1. PICK r \in Reqs : Deletes(r) /\ d \in Removed(r)
    BY <1>1, <1>4, StatusChanges DEF Live, LiveStates
  <2>2. d \in reqs[r].docs
    BY <2>1 DEF Deletes, Removed, DeletionsComplete, DeletionComplete, Locking
  <2> QED
    BY <1>4, <2>1, <2>2, LateGrows DEF Deletes, DroppedVectors
<1> QED
  BY <1>2, <1>3, <1>4

LEMMA VectorsInvariant == Spec => []VectorsKnown
<1> USE IngestionAssumption
<1>1. Init => VectorsKnown
  BY DEF Init, VectorsKnown, RunsUpserted, DroppedVectors, ReadyIsSearchable,
     OrphanVectorsOnlyFromOverlap, At, IdleWorker, IdleReq
<1>2. TypeOK /\ Counting /\ RunsInProgress /\ FilesKnown /\ VectorsKnown /\ [Next]_vars
        => VectorsKnown'
  BY RunsUpsertedStep, ReadyIsSearchableStep, DroppedVectorsStep, OrphanVectorsStep
     DEF VectorsKnown, FilesKnown
<1> QED
  BY <1>1, <1>2, TypeCorrect, CountingInvariant, ProgressInvariant, FilesInvariant, PTL DEF Spec

(* A READY document can be found, or a deletion is on its way or died.      *)
THEOREM ReadyDocumentsSearchable == Spec => []ReadyIsSearchable
<1>1. VectorsKnown => ReadyIsSearchable
  BY DEF VectorsKnown
<1> QED
  BY <1>1, VectorsInvariant, PTL

(* Text of deleted documents is left only by a run that overlapped the      *)
(* deletion, whatever else is interleaved.                                  *)
THEOREM OrphansOnlyFromOverlap == Spec => []OrphanVectorsOnlyFromOverlap
<1>1. VectorsKnown => OrphanVectorsOnlyFromOverlap
  BY DEF VectorsKnown
<1> QED
  BY <1>1, VectorsInvariant, PTL
-----------------------------------------------------------------------------
(* Jobs.  A document without a job keeps its upload; a run that ends leaves *)
(* its outcome in the row, or is remembered as cut short; and the run that  *)
(* made a document READY was the last one of its job, or is remembered as   *)
(* unconfirmed.                                                             *)
RunsSettle ==
  /\ \A w \in Workers, d \in DocIds : At(w, "returned", d) => docs[d].status # "PROCESSING"
  /\ \A w \in Workers, d \in DocIds :
       At(w, "raised", d) /\ docs[d].status = "PROCESSING" => d \in hist.cutShort
  /\ \A d \in DocIds : jobs[d].st = "started" =>
       d \in hist.cutShort \/ \E w \in Workers : workers[w].doc = d
  /\ \A w \in Workers : workers[w].pc = "idle" => workers[w].doc = None

ReadyHasNoRun ==
  \A d \in DocIds : docs[d].status = "READY" =>
    \/ d \in hist.unconfirmed
    \/ jobs[d].st \in {"finished", "expired"}
    \/ \E w \in Workers : At(w, "returned", d)

JobsKnown == RunsSettle /\ ProcessingHasJob /\ ReadyHasNoRun

(* What the queue, and what a worker, does to the state of a job.           *)
LEMMA QueueMoves ==
  ASSUME TypeOK, NEW e \in DocIds, Queue(e), NEW d \in DocIds, jobs'[d].st # jobs[d].st
  PROVE  \/ jobs'[d].st = "queued" /\ jobs[d].st \in {"scheduled", "failed"}
         \/ AbandonedJob(d) /\ jobs[d].st = "started" /\ jobs'[d].st \in {"scheduled", "failed"}
         \/ jobs'[d].st = "expired" /\ jobs[d].st \in {"failed", "finished"}
<1>1. AfterFailure(jobs[d]).st \in {"scheduled", "failed"} /\ jobs[d] \in Jobs
  BY DEF AfterFailure, Rescheduled, Exhausted, TypeOK
<1>2. e = d
  BY DEF Queue, RetryJob, JobDue, AbandonedJob, JobExpires, TypeOK
<1>3. CASE AbandonedJob(d)
  BY <1>1, <1>3 DEF AbandonedJob, TypeOK
<1>4. CASE RetryJob(d) \/ JobDue(d)
  BY <1>1, <1>4 DEF RetryJob, JobDue, TypeOK, Jobs
<1>5. CASE JobExpires(d)
  BY <1>1, <1>5 DEF JobExpires, TypeOK, Jobs
<1> QED
  BY <1>2, <1>3, <1>4, <1>5 DEF Queue

LEMMA RunMovesJob ==
  ASSUME TypeOK, NEW w \in Workers, NEW e \in DocIds, Run(w, e),
         NEW d \in DocIds, jobs'[d].st # jobs[d].st
  PROVE  \/ TakeJob(w, d) /\ jobs[d].st = "queued" /\ jobs'[d].st = "started"
         \/ JobFinishes(w, d) /\ jobs'[d].st = "finished"
         \/ JobFails(w, d) /\ jobs'[d].st \in {"scheduled", "failed"}
<1>1. AfterFailure(jobs[d]).st \in {"scheduled", "failed"} /\ jobs[d] \in Jobs
  BY DEF AfterFailure, Rescheduled, Exhausted, TypeOK
<1>2. CASE TakeJob(w, e)
  <2>1. e = d
    BY <1>2 DEF TakeJob, TypeOK
  <2> QED
    BY <1>1, <1>2, <2>1 DEF TakeJob, TypeOK, Jobs
<1>3. CASE JobFinishes(w, e)
  <2>1. e = d
    BY <1>3 DEF JobFinishes, TypeOK
  <2> QED
    BY <1>1, <1>3, <2>1 DEF JobFinishes, TypeOK, Jobs
<1>4. CASE JobFails(w, e)
  <2>1. e = d
    BY <1>4 DEF JobFails, TypeOK
  <2> QED
    BY <1>1, <1>4, <2>1 DEF JobFails, TypeOK
<1>5. ~LoadDocument(w, e)
  BY <1>1 DEF LoadDocument, TypeOK, Jobs
<1> QED
  BY <1>2, <1>3, <1>4, <1>5 DEF Run, RecordAttempt, ParseFile, DeleteOldVectors, UpsertVectors,
     CommitReady, RunRaises, CloseRaises, CommitFailed, WorkerDies

LEMMA RequestMovesJob ==
  ASSUME Counting, NEW r \in Reqs, Request(r), NEW d \in DocIds, jobs'[d].st # jobs[d].st
  PROVE  jobs[d].st = "none" /\ jobs'[d].st = "queued"
<1>1. EnqueueJob(r)
  BY AsideUnchanged DEF Request, Aside, InsertDocument, SaveJobId, DropRows
<1>2. d \in reqs[r].docs => jobs[d].st = "none"
  BY <1>1 DEF EnqueueJob, Counting, UploadsHaveNoJob, Uploading
<1> QED
  BY <1>1, <1>2 DEF EnqueueJob

(* A job stays, and nothing starts a finished one again.                    *)
LEMMA JobsStay ==
  ASSUME IngestionAssumption, TypeOK, Counting, [Next]_vars, NEW d \in DocIds
  PROVE  /\ jobs[d].st # "none" => jobs'[d].st # "none"
         /\ jobs[d].st \in {"finished", "expired"} => jobs'[d].st \in {"finished", "expired"}
<1>1. CASE jobs'[d].st = jobs[d].st
  BY <1>1
<1>2. ASSUME jobs'[d].st # jobs[d].st, NEW w \in Workers,
             JobFinishes(w, d) \/ JobFails(w, d)
      PROVE  jobs[d].st = "started"
  BY <1>2 DEF JobFinishes, JobFails, At, Counting, WorkersHoldJobs, IngestionAssumption
<1>3. CASE jobs'[d].st # jobs[d].st
  BY <1>2, <1>3, QueueMoves, RunMovesJob, RequestMovesJob DEF Next, vars, CreateBase
<1> QED
  BY <1>1, <1>3

(* Where a job that is over, and one that runs, come from.                  *)
LEMMA JobsEnd ==
  ASSUME IngestionAssumption, TypeOK, Counting, [Next]_vars, NEW d \in DocIds,
         jobs'[d].st # jobs[d].st
  PROVE  /\ jobs'[d].st = "started" => \E w \in Workers : TakeJob(w, d)
         /\ jobs'[d].st = "finished" => \E w \in Workers : JobFinishes(w, d)
         /\ jobs'[d].st = "failed" => AbandonedJob(d) \/ \E w \in Workers : JobFails(w, d)
         /\ jobs'[d].st = "expired" => jobs[d].st \in {"failed", "finished"}
BY QueueMoves, RunMovesJob, RequestMovesJob DEF Next, vars, CreateBase

(* A row becomes PROCESSING by its insertion, before it has a job, or by    *)
(* the run that records its attempt.                                        *)
LEMMA ProcessingBegins ==
  ASSUME IngestionAssumption, TypeOK, Counting, [Next]_vars, NEW d \in DocIds,
         docs'[d].status = "PROCESSING", docs[d].status # "PROCESSING"
  PROVE  \/ jobs[d].st = "none" /\ jobs'[d].st = "none"
         \/ /\ jobs[d].st = "started" /\ jobs'[d].st = "started"
            /\ \E w \in Workers : At(w, "parse", d)'
<1>1. ASSUME NEW w \in Workers, RecordAttempt(w, d)
      PROVE  /\ jobs[d].st = "started" /\ jobs'[d].st = "started"
             /\ At(w, "parse", d)'
  BY <1>1 DEF RecordAttempt, At, Counting, WorkersHoldJobs, IngestionAssumption, TypeOK,
     WorkerStates
<1>2. ASSUME NEW r \in Reqs, NEW c \in reqs[r].paths, Inserts(r, d, c)
      PROVE  jobs[d].st = "none" /\ jobs'[d].st = "none"
  BY <1>2 DEF Inserts, Counting, UploadsHaveNoJob
<1> QED
  BY <1>1, <1>2, StatusChanges

LEMMA RunsSettleStep ==
  ASSUME IngestionAssumption, TypeOK, Counting, RunsSettle, [Next]_vars
  PROVE  RunsSettle'
<1>1. ASSUME NEW w \in Workers, NEW d \in DocIds, At(w, "returned", d)'
      PROVE  docs'[d].status # "PROCESSING"
  <2>1. CASE CommitReady(w, d)
    BY <2>1 DEF CommitReady, TypeOK, Docs
  <2>2. CASE At(w, "returned", d)
    <3>1. /\ docs[d].status # "PROCESSING" /\ jobs[d].st = "started"
          /\ \A v \in Workers : workers[v].doc = d => v = w
      BY <2>2 DEF RunsSettle, At, Counting, WorkersHoldJobs, IngestionAssumption
    <3>2. \A v \in Workers : ~RecordAttempt(v, d)
      BY <2>2, <3>1 DEF RecordAttempt, At
    <3>3. docs[d].status # "FREE"
      BY <3>1 DEF Counting, UploadsHaveNoJob
    <3> QED
      BY <3>1, <3>2, <3>3, StatusChanges
  <2> QED
    BY <1>1, <2>1, <2>2, RunEnds
<1>2. ASSUME NEW w \in Workers, NEW d \in DocIds, At(w, "raised", d)',
             docs'[d].status = "PROCESSING"
      PROVE  d \in hist'.cutShort
  <2>1. CASE CommitFailed(w, d)
    BY <1>2, <2>1 DEF CommitFailed, WithFailure, Live, LiveStates, TypeOK, Docs
  <2>2. CASE CloseRaises(w, d)
    BY <1>2, <2>2 DEF CloseRaises, RunsSettle
  <2>3. CASE At(w, "raised", d)
    <3>1. /\ jobs[d].st = "started" /\ d # None
          /\ \A v \in Workers : workers[v].doc = d => v = w
      BY <2>3 DEF At, Counting, WorkersHoldJobs, IngestionAssumption
    <3>2. docs[d].status = "PROCESSING"
      <4>1. \A v \in Workers : ~RecordAttempt(v, d)
        BY <2>3, <3>1 DEF RecordAttempt, At
      <4>2. docs[d].status # "FREE"
        BY <3>1 DEF Counting, UploadsHaveNoJob
      <4> QED
        BY <1>2, <4>1, <4>2, StatusChanges
    <3>3. \A v \in Workers : ~TakeJob(v, d)
      BY <3>1 DEF TakeJob
    <3> QED
      BY <2>3, <3>2, <3>3, LateGrows DEF RunsSettle
  <2> QED
    BY <1>2, <2>1, <2>2, <2>3, RunEnds
<1>3. ASSUME NEW d \in DocIds, jobs'[d].st = "started"
      PROVE  d \in hist'.cutShort \/ \E w \in Workers : workers'[w].doc = d
  <2>1. CASE jobs[d].st # "started"
    <3>1. PICK w \in Workers : TakeJob(w, d)
      BY <1>3, <2>1, JobsEnd
    <3>2. workers'[w].doc = d
      BY <3>1 DEF TakeJob, TypeOK
    <3> QED
      BY <3>2
  <2>2. CASE jobs[d].st = "started" /\ d \in hist.cutShort
    BY <2>2, LateGrows DEF TakeJob
  <2>3. ASSUME NEW w \in Workers, jobs[d].st = "started", workers[w].doc = d, workers'[w].doc # d
        PROVE  d \in hist'.cutShort
    <3>1. PICK v \in Workers, e \in DocIds : Run(v, e)
      <4>1. workers' # workers
        BY <2>3
      <4> QED
        BY <4>1, AsideUnchanged DEF Next, vars, CreateBase, Request, Aside, InsertDocument,
           EnqueueJob, SaveJobId, DropRows, Queue, RetryJob, JobDue, AbandonedJob, JobExpires
    <3>2. v = w
      BY <2>3, <3>1, RunIsAlone DEF Counting
    <3>3. ~TakeJob(w, e)
      BY <2>3 DEF TakeJob, RunsSettle, IngestionAssumption
    <3>4. e = d
      BY <2>3, <3>1, <3>2, <3>3, RunIsAlone DEF Counting
    <3>5. CASE JobFails(w, d) \/ JobFinishes(w, d)
      <4>1. AfterFailure(jobs[d]).st \in {"scheduled", "failed"}
        BY DEF AfterFailure, Rescheduled, Exhausted
      <4> QED
        BY <1>3, <3>5, <4>1 DEF JobFails, JobFinishes, TypeOK, Jobs
    <3>6. CASE WorkerDies(w, d)
      BY <3>6 DEF WorkerDies, TypeOK
    <3>7. CASE ~JobFails(w, d) /\ ~JobFinishes(w, d) /\ ~WorkerDies(w, d)
      <4>1. PICK pc : workers' = [workers EXCEPT ![w].pc = pc]
        BY <3>1, <3>2, <3>3, <3>4, <3>7 DEF Run, LoadDocument, RecordAttempt, ParseFile,
           DeleteOldVectors, UpsertVectors, CommitReady, RunRaises, CloseRaises, CommitFailed
      <4> QED
        BY <2>3, <4>1 DEF TypeOK, WorkerStates
    <3> QED
      BY <3>5, <3>6, <3>7
  <2> QED
    BY <1>3, <2>1, <2>2, <2>3 DEF RunsSettle
<1>4. ASSUME NEW w \in Workers, workers'[w].pc = "idle" PROVE workers'[w].doc = None
  <2>1. CASE workers'[w] = workers[w]
    BY <1>4, <2>1 DEF RunsSettle
  <2>2. ASSUME NEW v \in Workers, NEW e \in DocIds, Run(v, e) PROVE workers'[w].doc = None
    <3>1. CASE v # w
      BY <2>1, <2>2, <3>1, RunIsAlone DEF Counting
    <3>2. CASE v = w
      <4>1. CASE JobFails(w, e) \/ JobFinishes(w, e) \/ WorkerDies(w, e)
        BY <4>1 DEF JobFails, JobFinishes, WorkerDies, IdleWorker, TypeOK
      <4>2. CASE TakeJob(w, e)
        BY <1>4, <4>2 DEF TakeJob, TypeOK
      <4>3. ASSUME NEW pc \in WorkerPcs \ {"idle"}, workers' = [workers EXCEPT ![w].pc = pc]
            PROVE  FALSE
        BY <1>4, <4>3 DEF TypeOK, WorkerStates
      <4> QED
        BY <2>2, <3>2, <4>1, <4>2, <4>3 DEF Run, LoadDocument, RecordAttempt, ParseFile,
           DeleteOldVectors, UpsertVectors, CommitReady, RunRaises, CloseRaises, CommitFailed,
           WorkerPcs
    <3> QED
      BY <3>1, <3>2
  <2> QED
    BY <2>1, <2>2, AsideUnchanged DEF Next, vars, CreateBase, Request, Aside, InsertDocument,
       EnqueueJob, SaveJobId, DropRows, Queue, RetryJob, JobDue, AbandonedJob, JobExpires
<1> QED
  BY <1>1, <1>2, <1>3, <1>4 DEF RunsSettle, At

LEMMA ProcessingHasJobStep ==
  ASSUME IngestionAssumption, TypeOK, TypeOK', Counting, RunsSettle, ProcessingHasJob, [Next]_vars
  PROVE  ProcessingHasJob'
<1> SUFFICES ASSUME NEW d \in DocIds, docs'[d].status = "PROCESSING",
                    jobs'[d].st \notin {"queued", "started", "scheduled"}
             PROVE  \/ /\ jobs'[d].st = "none"
                       /\ \/ \E r \in Reqs : reqs'[r].pc \in {"inserted", "refreshed"}
                                         /\ d \in reqs'[r].docs
                          \/ d \in hist'.lostUploads
                    \/ jobs'[d].st \in {"failed", "expired"} /\ d \in hist'.cutShort
  BY DEF ProcessingHasJob
<1>1. CASE jobs'[d].st = "none"
  <2>1. jobs[d].st = "none"
    BY <1>1, JobsStay
  <2>2. CASE docs[d].status # "PROCESSING"
    <3>1. \A w \in Workers : ~RecordAttempt(w, d)
      BY <2>1 DEF RecordAttempt, At, Counting, WorkersHoldJobs, IngestionAssumption
    <3>2. PICK r \in Reqs : \E c \in reqs[r].paths : Inserts(r, d, c)
      BY <2>2, <3>1, StatusChanges
    <3> QED
      BY <1>1, <3>2 DEF Inserts
  <2>3. CASE d \in hist.lostUploads
    BY <1>1, <2>3, HistoryGrows
  <2>4. ASSUME NEW r \in Reqs, reqs[r].pc \in {"inserted", "refreshed"}, d \in reqs[r].docs
        PROVE  \/ reqs'[r].pc \in {"inserted", "refreshed"} /\ d \in reqs'[r].docs
               \/ d \in hist'.lostUploads
    <3>1. CASE ~Request(r)
      BY <2>4, <3>1, RequestIsAlone, OthersAreQuiet DEF Quiet
    <3>2. CASE RefreshDocument(r)
      BY <2>4, <3>2 DEF RefreshDocument, TypeOK, Requests
    <3>3. CASE RollbackUpload(r)
      BY <2>4, <3>3 DEF RollbackUpload, TypeOK
    <3>4. CASE RequestDies(r)
      BY <2>4, <3>4 DEF RequestDies, TypeOK
    <3>5. CASE EnqueueJob(r)
      BY <1>1, <2>1, <2>4, <3>5 DEF EnqueueJob
    <3> QED
      BY <2>4, <3>1, <3>2, <3>3, <3>4, <3>5, RequestMoves
  <2> QED
    BY <1>1, <2>1, <2>2, <2>3, <2>4 DEF ProcessingHasJob
<1>2. CASE jobs'[d].st # "none"
  <2>1. docs[d].status = "PROCESSING"
    BY <1>2, ProcessingBegins
  <2>2. CASE jobs'[d].st = jobs[d].st
    <3>1. jobs[d].st \in {"failed", "expired"} /\ d \in hist.cutShort
      BY <1>2, <2>1, <2>2 DEF ProcessingHasJob
    <3> QED
      BY <2>2, <3>1, LateGrows DEF TakeJob
  <2>3. CASE \E w \in Workers : JobFinishes(w, d)
    BY <2>1, <2>3 DEF JobFinishes, RunsSettle
  <2>4. CASE jobs'[d].st = "failed" /\ \E w \in Workers : JobFails(w, d)
    BY <2>1, <2>4 DEF JobFails, RunsSettle
  <2>5. CASE jobs'[d].st = "failed" /\ AbandonedJob(d)
    BY <2>5 DEF AbandonedJob, RunsSettle
  <2>6. CASE jobs'[d].st = "expired" /\ jobs[d].st \in {"failed", "finished"}
    <3>1. d \in hist.cutShort
      BY <2>1, <2>6 DEF ProcessingHasJob
    <3> QED
      BY <2>6, <3>1, LateGrows DEF TakeJob
  <2>7. jobs'[d].st \in {"finished", "failed", "expired"}
    BY <1>2 DEF Jobs, TypeOK
  <2> QED
    BY <2>2, <2>3, <2>4, <2>5, <2>6, <2>7, JobsEnd
<1> QED
  BY <1>1, <1>2

LEMMA ReadyHasNoRunStep ==
  ASSUME IngestionAssumption, TypeOK, Counting, ReadyHasNoRun, [Next]_vars
  PROVE  ReadyHasNoRun'
<1> SUFFICES ASSUME NEW d \in DocIds, docs'[d].status = "READY"
             PROVE  \/ d \in hist'.unconfirmed
                    \/ jobs'[d].st \in {"finished", "expired"}
                    \/ \E w \in Workers : At(w, "returned", d)'
  BY DEF ReadyHasNoRun, At
<1>1. ASSUME NEW w \in Workers, CommitReady(w, d) PROVE At(w, "returned", d)'
  BY <1>1 DEF CommitReady, At, TypeOK, WorkerStates
<1>2. CASE docs[d].status # "READY"
  BY <1>1, <1>2, StatusChanges
<1>3. CASE d \in hist.unconfirmed
  BY <1>1, <1>3, LateGrows
<1>4. CASE jobs[d].st \in {"finished", "expired"}
  BY <1>4, JobsStay
<1>5. ASSUME NEW w \in Workers, At(w, "returned", d)
      PROVE  d \in hist'.unconfirmed \/ jobs'[d].st = "finished" \/ At(w, "returned", d)'
  <2>1. JobFinishes(w, d) => jobs'[d].st = "finished"
    BY DEF JobFinishes, TypeOK, Jobs
  <2>2. RunRaises(w, d) \/ CloseRaises(w, d) \/ WorkerDies(w, d) => d \in hist'.unconfirmed
    <3>1. workers[w].pc = "returned" /\ Unconfirmed(w, d) = hist.unconfirmed \cup {d}
      BY <1>5 DEF At, Unconfirmed
    <3>2. RunRaises(w, d) \/ CloseRaises(w, d) => hist'.unconfirmed = Unconfirmed(w, d)
      BY DEF RunRaises, CloseRaises, TypeOK
    <3>3. WorkerDies(w, d) => hist'.unconfirmed = Unconfirmed(w, d)
      BY DEF WorkerDies, TypeOK
    <3> QED
      BY <3>1, <3>2, <3>3
  <2> QED
    BY <1>5, <2>1, <2>2, RunEnds
<1> QED
  BY <1>2, <1>3, <1>4, <1>5 DEF ReadyHasNoRun

LEMMA JobsInvariant == Spec => []JobsKnown
<1> USE IngestionAssumption
<1>1. Init => JobsKnown
  BY DEF Init, JobsKnown, RunsSettle, ProcessingHasJob, ReadyHasNoRun, At, IdleWorker
<1>2. TypeOK /\ TypeOK' /\ Counting /\ JobsKnown /\ [Next]_vars => JobsKnown'
  BY RunsSettleStep, ProcessingHasJobStep, ReadyHasNoRunStep DEF JobsKnown
<1> QED
  BY <1>1, <1>2, TypeCorrect, CountingInvariant, PTL DEF Spec

(* A document shows PROCESSING only while its upload or its job is at work, *)
(* or after its upload failed behind the commit of its row, or after its    *)
(* last run was cut short before its outcome was in the row; a job that     *)
(* finished left none.                                                      *)
THEOREM ProcessingIsWorkedOn == Spec => []ProcessingHasJob
<1>1. JobsKnown => ProcessingHasJob
  BY DEF JobsKnown
<1> QED
  BY <1>1, JobsInvariant, PTL

(* A document leaves READY only by deletion, unless the run that committed  *)
(* READY raised or died before RQ noted its end.                            *)
THEOREM ReadyStaysReady == Spec => ReadyIsFinal
<1> DEFINE Kept == \A d \in DocIds :
             docs[d].status = "READY" /\ docs'[d].status \in LiveStates =>
               docs'[d].status = "READY" \/ d \in hist.unconfirmed
<1>1. ASSUME IngestionAssumption, TypeOK, Counting, JobsKnown, [Next]_vars PROVE Kept
  <2> SUFFICES ASSUME NEW d \in DocIds, docs[d].status = "READY", docs'[d].status \in LiveStates,
                      docs'[d].status # "READY", d \notin hist.unconfirmed
               PROVE  FALSE
    OBVIOUS
  <2>1. PICK w \in Workers : RecordAttempt(w, d) \/ CommitFailed(w, d)
    BY <1>1, StatusChanges DEF LiveStates
  <2>2. workers[w].doc = d /\ workers[w].pc # "returned" /\ d # None
    BY <1>1, <2>1 DEF RecordAttempt, CommitFailed, At, IngestionAssumption
  <2>3. jobs[d].st = "started" /\ \A v \in Workers : workers[v].doc = d => v = w
    BY <1>1, <2>2 DEF Counting, WorkersHoldJobs
  <2> QED
    BY <1>1, <2>2, <2>3 DEF JobsKnown, ReadyHasNoRun, At
<1>2. TypeOK /\ Counting /\ JobsKnown /\ [Next]_vars => [Kept]_vars
  BY <1>1, IngestionAssumption
<1> QED
  BY <1>2, TypeCorrect, CountingInvariant, JobsInvariant, PTL DEF Spec, ReadyIsFinal
=============================================================================
