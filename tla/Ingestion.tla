------------------------------ MODULE Ingestion ------------------------------
(***************************************************************************)
(* Document ingestion of the knowledge component.                          *)
(*                                                                         *)
(* Five stores change without a common transaction: the SQL database       *)
(* (kbs, docs), the upload directory (files), the Qdrant collection        *)
(* (vectors), the RQ job records in Redis (jobs), and the memory of the    *)
(* two kinds of processes that write to them: admin requests handled by    *)
(* the API (reqs) and RQ workers (workers).  A request or a run is a       *)
(* record with a program counter; one action is what the code does between *)
(* two awaits, so every call to another store ends an action.              *)
(***************************************************************************)
EXTENDS Naturals, FiniteSets

CONSTANTS
  KBs,          \* knowledge bases an admin may create
  Contents,     \* file contents, i.e. the paths upload_directory/<sha256><suffix>
  Unreadable,   \* the contents no parser extracts text from
  None,         \* SQL NULL, and the field of a record that is not in use
  DocIds,       \* primary keys the documents table hands out, ascending
  Reqs,         \* admin requests that may be in flight together
  Workers,      \* RQ worker processes
  RetryMax,     \* Retry(max=...) of the RQ job
  ManualLimit,  \* the bound of can_retry
  ApiFaults,    \* may a request lose a store or the API process die?
  WorkerFaults  \* may a run lose a store, time out, or the worker die?

ASSUME IngestionAssumption ==
  /\ DocIds \subseteq Nat
  /\ None \notin KBs \cup Contents \cup DocIds
  /\ Unreadable \subseteq Contents
  /\ RetryMax \in Nat
  /\ ManualLimit \in Nat
  /\ ManualLimit <= RetryMax + 1
  /\ ApiFaults \in BOOLEAN
  /\ WorkerFaults \in BOOLEAN

VARIABLES
  kbs,         \* knowledge_bases: is the row absent, live or deleted
  docs,        \* documents, by primary key
  files,       \* the contents present in the upload directory
  vectors,     \* the documents with points in Qdrant
  jobs,        \* RQ job records, by the document their key is made from
  reqs,        \* API requests
  workers,     \* RQ workers
  unrecorded,  \* history: runs per document that never raised attempts (capped)
  hist         \* history: the accidents the properties refer to

vars == <<kbs, docs, files, vectors, jobs, reqs, workers, unrecorded, hist>>

LiveStates == {"PROCESSING", "READY", "FAILED"}
Docs == [status : LiveStates \cup {"FREE", "DELETED"}, kb : KBs \cup {None},
         content : Contents \cup {None}, attempts : Nat, job : DocIds \cup {None}]
Jobs == [st : {"none", "queued", "started", "scheduled", "failed", "finished", "expired"},
         left : Nat, meta : Nat]
ReqPcs == {"idle", "written", "inserted", "refreshed", "enqueued",
           "dropVectors", "dropRows", "unlink"}
WorkerPcs == {"idle", "load", "record", "parse", "replace", "upsert", "ready",
              "except", "raised", "returned"}
Paths == Contents \cup {None}
Requests == [pc : ReqPcs, kb : KBs \cup {None},
             docs : SUBSET DocIds, paths : SUBSET Paths]
WorkerStates == [pc : WorkerPcs, doc : DocIds \cup {None}]

IdleReq    == [pc |-> "idle", kb |-> None, docs |-> {}, paths |-> {}]
IdleWorker == [pc |-> "idle", doc |-> None]

TypeOK ==
  /\ kbs \in [KBs -> {"absent", "live", "deleted"}]
  /\ docs \in [DocIds -> Docs]
  /\ files \subseteq Contents
  /\ vectors \subseteq DocIds
  /\ jobs \in [DocIds -> Jobs]
  /\ reqs \in [Reqs -> Requests]
  /\ workers \in [Workers -> WorkerStates]
  /\ unrecorded \in [DocIds -> 0..RetryMax + 1]
  /\ hist \in [cutShort : SUBSET DocIds, halfDeleted : SUBSET DocIds,
               overlapped : SUBSET DocIds, leaked : SUBSET Paths,
               rolledBack : SUBSET Paths, lostUploads : SUBSET DocIds,
               unconfirmed : SUBSET DocIds]

Live(d) == docs[d].status \in LiveStates
FreeIds == {d \in DocIds : docs[d].status = "FREE"}
Stored(kb, c) == \E d \in DocIds : Live(d) /\ docs[d].kb = kb /\ docs[d].content = c

(* Mutants of Locked: the SELECT without FOR UPDATE, and an upload that     *)
(* takes the same lock and waits for itself.                                *)
NoLock(kb) == FALSE
LockedByUploads(kb) == kb # None /\ \E r \in Reqs : reqs[r].kb = kb

(* SELECT ... FOR UPDATE on a knowledge base, held until the deletion       *)
(* commits or fails; an INSERT of a document of that base waits for it.     *)
Locked(kb) ==
  kb # None /\ \E r \in Reqs : reqs[r].kb = kb /\ reqs[r].pc \in {"dropVectors", "dropRows"}

Init ==
  /\ kbs = [k \in KBs |-> "absent"]
  /\ docs = [d \in DocIds |-> [status |-> "FREE", kb |-> None, content |-> None,
                               attempts |-> 0, job |-> None]]
  /\ files = {}
  /\ vectors = {}
  /\ jobs = [d \in DocIds |-> [st |-> "none", left |-> 0, meta |-> 0]]
  /\ reqs = [r \in Reqs |-> IdleReq]
  /\ workers = [w \in Workers |-> IdleWorker]
  /\ unrecorded = [d \in DocIds |-> 0]
  /\ hist = [cutShort |-> {}, halfDeleted |-> {}, overlapped |-> {},
             leaked |-> {}, rolledBack |-> {}, lostUploads |-> {}, unconfirmed |-> {}]

-----------------------------------------------------------------------------
(* Requests *)

CreateBase(kb) ==
  /\ kbs[kb] = "absent"
  /\ kbs' = [kbs EXCEPT ![kb] = "live"]
  /\ UNCHANGED <<docs, files, vectors, jobs, reqs, workers, unrecorded, hist>>

(* save_document up to write_bytes: the base exists, the SELECT finds no    *)
(* duplicate, the file is written.  The second conjunct about FreeIds is    *)
(* the bound on how many documents are ever inserted.                       *)
BeginUpload(r, kb, c) ==
  /\ reqs[r].pc = "idle"
  /\ kbs[kb] = "live"
  /\ ~Stored(kb, c)
  /\ Cardinality({q \in Reqs : reqs[q].pc = "written"}) < Cardinality(FreeIds)
  /\ files' = files \cup {c}
  /\ reqs' = [reqs EXCEPT ![r] = [pc |-> "written", kb |-> kb, docs |-> {}, paths |-> {c}]]
  /\ UNCHANGED <<kbs, docs, vectors, jobs, workers, unrecorded, hist>>

(* The foreign key and uq_document_kb_sha256 as the INSERT meets them.      *)
Insertable(kb, c) == kb # None /\ kbs[kb] = "live" /\ ~Stored(kb, c)

InsertDocument(r) ==
  /\ reqs[r].pc = "written"
  /\ ~Locked(reqs[r].kb)
  /\ \E c \in reqs[r].paths, d \in FreeIds :
       /\ Insertable(reqs[r].kb, c)
       /\ \A e \in FreeIds : d <= e
       /\ docs' = [docs EXCEPT ![d] = [status |-> "PROCESSING", kb |-> reqs[r].kb,
                                       content |-> c, attempts |-> 0, job |-> None]]
       /\ reqs' = [reqs EXCEPT ![r] = [@ EXCEPT !.pc = "inserted", !.docs = {d}]]
  /\ UNCHANGED <<kbs, files, vectors, jobs, workers, unrecorded, hist>>

RefreshDocument(r) ==
  /\ reqs[r].pc = "inserted"
  /\ \A d \in reqs[r].docs : Live(d)
  /\ reqs' = [reqs EXCEPT ![r].pc = "refreshed"]
  /\ UNCHANGED <<kbs, docs, files, vectors, jobs, workers, unrecorded, hist>>

(* The except branch of save_document: commit or refresh raised, the file   *)
(* is unlinked whoever else needs it.                                       *)
RollbackUpload(r) ==
  /\ \/ /\ reqs[r].pc = "written"
        /\ ApiFaults \/ \E c \in reqs[r].paths : ~Insertable(reqs[r].kb, c)
     \/ /\ reqs[r].pc = "inserted"
        /\ ApiFaults \/ \E d \in reqs[r].docs : ~Live(d)
  /\ files' = files \ reqs[r].paths
  /\ hist' = [hist EXCEPT !.rolledBack = @ \cup reqs[r].paths,
                          !.lostUploads = @ \cup reqs[r].docs]
  /\ reqs' = [reqs EXCEPT ![r] = IdleReq]
  /\ UNCHANGED <<kbs, docs, vectors, jobs, workers, unrecorded>>

(* DocumentJobService.enqueue: an existing job of that key is returned as   *)
(* it is.                                                                   *)
EnqueueJob(r) ==
  /\ reqs[r].pc = "refreshed"
  /\ jobs' = [d \in DocIds |->
                IF d \in reqs[r].docs /\ jobs[d].st \in {"none", "expired"}
                THEN [st |-> "queued", left |-> RetryMax, meta |-> 0]
                ELSE jobs[d]]
  /\ reqs' = [reqs EXCEPT ![r].pc = "enqueued"]
  /\ UNCHANGED <<kbs, docs, files, vectors, workers, unrecorded, hist>>

(* document.job_id = job.id, a key made from the document; commit.  The     *)
(* UPDATE of a row deleted meanwhile raises and changes nothing.            *)
SaveJobId(r) ==
  /\ reqs[r].pc = "enqueued"
  /\ docs' = [d \in DocIds |->
                IF d \in reqs[r].docs /\ Live(d) THEN [docs[d] EXCEPT !.job = d] ELSE docs[d]]
  /\ reqs' = [reqs EXCEPT ![r] = IdleReq]
  /\ UNCHANGED <<kbs, files, vectors, jobs, workers, unrecorded, hist>>

BeginDeleteDocument(r, d) ==
  /\ reqs[r].pc = "idle"
  /\ Live(d)
  /\ reqs' = [reqs EXCEPT ![r] = [pc |-> "dropVectors", kb |-> None, docs |-> {d},
                                  paths |-> {docs[d].content}]]
  /\ UNCHANGED <<kbs, docs, files, vectors, jobs, workers, unrecorded, hist>>

(* KnowledgeBaseManagementService.delete takes the row lock, then reads the *)
(* documents of the base.                                                   *)
BeginDeleteBase(r, kb) ==
  LET members == {d \in DocIds : Live(d) /\ docs[d].kb = kb} IN
  /\ reqs[r].pc = "idle"
  /\ kbs[kb] = "live"
  /\ ~Locked(kb)
  /\ reqs' = [reqs EXCEPT ![r] = [pc |-> "dropVectors", kb |-> kb, docs |-> members,
                                  paths |-> {docs[d].content : d \in members}]]
  /\ UNCHANGED <<kbs, docs, files, vectors, jobs, workers, unrecorded, hist>>

(* Mutants of DropVectors: files unlinked before the rows are deleted, and  *)
(* a base deletion that leaves its points.                                  *)
DropVectorsAndFiles(r) ==
  /\ reqs[r].pc = "dropVectors"
  /\ vectors' = vectors \ reqs[r].docs
  /\ files' = files \ reqs[r].paths
  /\ reqs' = [reqs EXCEPT ![r].pc = "dropRows"]
  /\ UNCHANGED <<kbs, docs, jobs, workers, unrecorded, hist>>

DropDocumentVectors(r) ==
  /\ reqs[r].pc = "dropVectors"
  /\ vectors' = IF reqs[r].kb = None THEN vectors \ reqs[r].docs ELSE vectors
  /\ reqs' = [reqs EXCEPT ![r].pc = "dropRows"]
  /\ UNCHANGED <<kbs, docs, files, jobs, workers, unrecorded, hist>>

DropVectors(r) ==
  /\ reqs[r].pc = "dropVectors"
  /\ vectors' = vectors \ reqs[r].docs
  /\ reqs' = [reqs EXCEPT ![r].pc = "dropRows"]
  /\ UNCHANGED <<kbs, docs, files, jobs, workers, unrecorded, hist>>

(* DELETE and commit.  Deleting a base cascades to every document of it.    *)
DropRows(r) ==
  LET kb      == reqs[r].kb
      removed == {d \in DocIds : Live(d) /\ (d \in reqs[r].docs \/ docs[d].kb = kb)} IN
  /\ reqs[r].pc = "dropRows"
  /\ docs' = [d \in DocIds |->
                IF d \in removed THEN [docs[d] EXCEPT !.status = "DELETED"] ELSE docs[d]]
  /\ kbs' = [k \in KBs |-> IF k = kb THEN "deleted" ELSE kbs[k]]
  /\ reqs' = [reqs EXCEPT ![r].pc = "unlink"]
  /\ UNCHANGED <<files, vectors, jobs, workers, unrecorded, hist>>

UnlinkFiles(r) ==
  /\ reqs[r].pc = "unlink"
  /\ files' = files \ reqs[r].paths
  /\ reqs' = [reqs EXCEPT ![r] = IdleReq]
  /\ UNCHANGED <<kbs, docs, vectors, jobs, workers, unrecorded, hist>>

(* A store fails where the handler has no except branch, or the API process *)
(* dies: the request ends where it is.                                      *)
RequestDies(r) ==
  /\ ApiFaults
  /\ reqs[r].pc # "idle"
  /\ hist' = [hist EXCEPT
                !.leaked = IF reqs[r].pc \in {"written", "unlink"}
                           THEN @ \cup reqs[r].paths ELSE @,
                !.halfDeleted = IF reqs[r].pc = "dropRows"
                                THEN @ \cup reqs[r].docs ELSE @,
                !.lostUploads = IF reqs[r].pc \in {"inserted", "refreshed"}
                                THEN @ \cup reqs[r].docs ELSE @]
  /\ reqs' = [reqs EXCEPT ![r] = IdleReq]
  /\ UNCHANGED <<kbs, docs, files, vectors, jobs, workers, unrecorded>>

(* Mutant of RetryJob: can_retry is not asked.                              *)
RetryJobUnchecked(d) ==
  /\ jobs[d].st = "failed"
  /\ jobs' = [jobs EXCEPT ![d].st = "queued"]
  /\ UNCHANGED <<kbs, docs, files, vectors, reqs, workers, unrecorded, hist>>

(* POST /jobs/{id}/retry: can_retry, then requeue, which RQ accepts only    *)
(* for a job of the failed registry and which leaves retries_left alone.    *)
RetryJob(d) ==
  /\ jobs[d].st = "failed"
  /\ jobs[d].meta < ManualLimit
  /\ jobs' = [jobs EXCEPT ![d].st = "queued"]
  /\ UNCHANGED <<kbs, docs, files, vectors, reqs, workers, unrecorded, hist>>

-----------------------------------------------------------------------------
(* RQ, modelled from how jobs are enqueued here: Retry(max, interval), a    *)
(* result and a failure ttl, and a worker started with --with-scheduler.    *)

Rescheduled(job) == [st |-> "scheduled", left |-> job.left - 1, meta |-> job.meta]
Exhausted(job)   == [st |-> "failed", left |-> job.left, meta |-> job.meta]

AfterFailure(job) == IF job.left > 0 THEN Rescheduled(job) ELSE Exhausted(job)

JobDue(d) ==
  /\ jobs[d].st = "scheduled"
  /\ jobs' = [jobs EXCEPT ![d].st = "queued"]
  /\ UNCHANGED <<kbs, docs, files, vectors, reqs, workers, unrecorded, hist>>

(* Mutants of AbandonedJob: a job is taken from a worker that still runs    *)
(* it, an abandoned job is never noticed.                                   *)
StolenJob(d) ==
  /\ jobs[d].st = "started"
  /\ jobs' = [jobs EXCEPT ![d] = AfterFailure(@)]
  /\ UNCHANGED <<kbs, docs, files, vectors, reqs, workers, unrecorded, hist>>

IgnoredJob(d) == jobs[d].st = "started" /\ UNCHANGED vars

(* The registry of started jobs is cleaned of jobs no worker holds.         *)
AbandonedJob(d) ==
  /\ jobs[d].st = "started"
  /\ \A w \in Workers : workers[w].doc # d
  /\ jobs' = [jobs EXCEPT ![d] = AfterFailure(@)]
  /\ UNCHANGED <<kbs, docs, files, vectors, reqs, workers, unrecorded, hist>>

JobExpires(d) ==
  /\ jobs[d].st \in {"failed", "finished"}
  /\ jobs' = [jobs EXCEPT ![d].st = "expired"]
  /\ UNCHANGED <<kbs, docs, files, vectors, reqs, workers, unrecorded, hist>>

-----------------------------------------------------------------------------
(* Runs of process_document *)

(* History: cutShort speaks of the last run of a document.                  *)
TakeJob(w, d) ==
  /\ workers[w].pc = "idle"
  /\ jobs[d].st = "queued"
  /\ jobs' = [jobs EXCEPT ![d].st = "started"]
  /\ hist' = [hist EXCEPT !.cutShort = @ \ {d}]
  /\ workers' = [workers EXCEPT ![w] = [pc |-> "load", doc |-> d]]
  /\ UNCHANGED <<kbs, docs, files, vectors, reqs, unrecorded>>

At(w, pc, d) == workers[w].pc = pc /\ workers[w].doc = d

(* The row is read and the next attempt is saved in the job's meta.         *)
LoadDocument(w, d) ==
  /\ At(w, "load", d)
  /\ Live(d)
  /\ jobs' = [jobs EXCEPT ![d].meta = docs[d].attempts + 1]
  /\ workers' = [workers EXCEPT ![w].pc = "record"]
  /\ UNCHANGED <<kbs, docs, files, vectors, reqs, unrecorded, hist>>

RecordAttempt(w, d) ==
  /\ At(w, "record", d)
  /\ Live(d)
  /\ docs' = [docs EXCEPT ![d].attempts = @ + 1, ![d].status = "PROCESSING"]
  /\ workers' = [workers EXCEPT ![w].pc = "parse"]
  /\ UNCHANGED <<kbs, files, vectors, jobs, reqs, unrecorded, hist>>

Parsable(d) == docs[d].content \in files \ Unreadable

ParseFile(w, d) ==
  /\ At(w, "parse", d)
  /\ Parsable(d)
  /\ workers' = [workers EXCEPT ![w].pc = "replace"]
  /\ UNCHANGED <<kbs, docs, files, vectors, jobs, reqs, unrecorded, hist>>

DeleteOldVectors(w, d) ==
  /\ At(w, "replace", d)
  /\ vectors' = vectors \ {d}
  /\ workers' = [workers EXCEPT ![w].pc = "upsert"]
  /\ UNCHANGED <<kbs, docs, files, jobs, reqs, unrecorded, hist>>

(* Is a request past the vector step of a deletion of d, or the row gone?   *)
Deleting(d) == ~Live(d) \/ \E r \in Reqs : reqs[r].pc = "dropRows" /\ d \in reqs[r].docs

(* Mutant of UpsertVectors: no points are sent.                             *)
UpsertNothing(w, d) ==
  /\ At(w, "upsert", d)
  /\ workers' = [workers EXCEPT ![w].pc = "ready"]
  /\ UNCHANGED <<kbs, docs, files, vectors, jobs, reqs, unrecorded, hist>>

UpsertVectors(w, d) ==
  /\ At(w, "upsert", d)
  /\ vectors' = vectors \cup {d}
  /\ hist' = [hist EXCEPT !.overlapped = IF Deleting(d) THEN @ \cup {d} ELSE @]
  /\ workers' = [workers EXCEPT ![w].pc = "ready"]
  /\ UNCHANGED <<kbs, docs, files, jobs, reqs, unrecorded>>

CommitReady(w, d) ==
  /\ At(w, "ready", d)
  /\ Live(d)
  /\ docs' = [docs EXCEPT ![d].status = "READY"]
  /\ hist' = [hist EXCEPT !.unconfirmed = @ \ {d}]
  /\ workers' = [workers EXCEPT ![w].pc = "returned"]
  /\ UNCHANGED <<kbs, files, vectors, jobs, reqs, unrecorded>>

(* A run that ends before RecordAttempt leaves attempts as it was.          *)
CountUnrecorded(w, d) ==
  unrecorded' = [unrecorded EXCEPT ![d] =
                   IF workers[w].pc \in {"load", "record"} /\ @ < RetryMax + 1
                   THEN @ + 1 ELSE @]

(* History: the run of d ends without its job, its READY committed or not.  *)
Unconfirmed(w, d) ==
  IF workers[w].pc = "returned" THEN hist.unconfirmed \cup {d} ELSE hist.unconfirmed

(* Anything in the try block raises: the row is gone (LookupError, or an    *)
(* UPDATE that matches no row), the file is missing or yields no text, a    *)
(* store fails or the job's timeout strikes.  From "returned": the commit   *)
(* of READY was applied and its confirmation lost, or the session cannot be *)
(* closed.                                                                  *)
RunRaises(w, d) ==
  /\ \E pc \in {"load", "record", "parse", "replace", "upsert", "ready", "returned"} :
       /\ At(w, pc, d)
       /\ \/ WorkerFaults
          \/ pc \in {"load", "record", "ready"} /\ ~Live(d)
          \/ pc = "parse" /\ ~Parsable(d)
  /\ CountUnrecorded(w, d)
  /\ hist' = [hist EXCEPT !.unconfirmed = Unconfirmed(w, d)]
  /\ workers' = [workers EXCEPT ![w].pc = "except"]
  /\ UNCHANGED <<kbs, docs, files, vectors, jobs, reqs>>

(* client.close() in the finally block raises after a run that succeeded,   *)
(* or the job's timeout strikes there: the row stays READY, the job fails.  *)
CloseRaises(w, d) ==
  /\ WorkerFaults
  /\ At(w, "returned", d)
  /\ hist' = [hist EXCEPT !.unconfirmed = Unconfirmed(w, d)]
  /\ workers' = [workers EXCEPT ![w].pc = "raised"]
  /\ UNCHANGED <<kbs, docs, files, vectors, jobs, reqs, unrecorded>>

WithFailure(d) == IF Live(d) THEN [docs EXCEPT ![d].status = "FAILED"] ELSE docs

(* Mutant of CommitFailed: the except block forgets to commit FAILED.       *)
FailureUnsaved(w, d) ==
  /\ At(w, "except", d)
  /\ workers' = [workers EXCEPT ![w].pc = "raised"]
  /\ UNCHANGED <<kbs, docs, files, vectors, jobs, reqs, unrecorded, hist>>

(* The except block: the row, if it is still there, becomes FAILED.  The    *)
(* second disjunct is that block itself losing the database.                *)
CommitFailed(w, d) ==
  /\ At(w, "except", d)
  /\ \/ /\ docs' = WithFailure(d)
        /\ hist' = hist
     \/ /\ WorkerFaults
        /\ docs' = docs
        /\ hist' = [hist EXCEPT !.cutShort = @ \cup {d}]
  /\ workers' = [workers EXCEPT ![w].pc = "raised"]
  /\ UNCHANGED <<kbs, files, vectors, jobs, reqs, unrecorded>>

JobFails(w, d) ==
  /\ At(w, "raised", d)
  /\ jobs' = [jobs EXCEPT ![d] = AfterFailure(@)]
  /\ workers' = [workers EXCEPT ![w] = IdleWorker]
  /\ UNCHANGED <<kbs, docs, files, vectors, reqs, unrecorded, hist>>

JobFinishes(w, d) ==
  /\ At(w, "returned", d)
  /\ jobs' = [jobs EXCEPT ![d].st = "finished"]
  /\ workers' = [workers EXCEPT ![w] = IdleWorker]
  /\ UNCHANGED <<kbs, docs, files, vectors, reqs, unrecorded, hist>>

WorkerDies(w, d) ==
  /\ WorkerFaults
  /\ workers[w].doc = d
  /\ CountUnrecorded(w, d)
  /\ hist' = [hist EXCEPT !.cutShort = @ \cup {d}, !.unconfirmed = Unconfirmed(w, d)]
  /\ workers' = [workers EXCEPT ![w] = IdleWorker]
  /\ UNCHANGED <<kbs, docs, files, vectors, jobs, reqs>>

-----------------------------------------------------------------------------
Request(r) ==
  \/ \E kb \in KBs, c \in Contents : BeginUpload(r, kb, c)
  \/ InsertDocument(r) \/ RefreshDocument(r) \/ RollbackUpload(r)
  \/ EnqueueJob(r) \/ SaveJobId(r)
  \/ \E d \in DocIds : BeginDeleteDocument(r, d)
  \/ \E kb \in KBs : BeginDeleteBase(r, kb)
  \/ DropVectors(r) \/ DropRows(r) \/ UnlinkFiles(r)
  \/ RequestDies(r)

Queue(d) == RetryJob(d) \/ JobDue(d) \/ AbandonedJob(d) \/ JobExpires(d)

Run(w, d) ==
  \/ TakeJob(w, d) \/ LoadDocument(w, d) \/ RecordAttempt(w, d) \/ ParseFile(w, d)
  \/ DeleteOldVectors(w, d) \/ UpsertVectors(w, d) \/ CommitReady(w, d)
  \/ RunRaises(w, d) \/ CloseRaises(w, d) \/ CommitFailed(w, d)
  \/ JobFails(w, d) \/ JobFinishes(w, d) \/ WorkerDies(w, d)

Next ==
  \/ \E kb \in KBs : CreateBase(kb)
  \/ \E r \in Reqs : Request(r)
  \/ \E d \in DocIds : Queue(d)
  \/ \E w \in Workers, d \in DocIds : Run(w, d)

Spec == Init /\ [][Next]_vars
(* Workers, the scheduler and the registry clean-up keep running, and a     *)
(* request that was started is carried on.  Admins need not act, and        *)
(* nothing makes a worker die or a store fail.                              *)
Carry(r) ==
  \/ InsertDocument(r) \/ RefreshDocument(r) \/ RollbackUpload(r) \/ EnqueueJob(r)
  \/ SaveJobId(r) \/ DropVectors(r) \/ DropRows(r) \/ UnlinkFiles(r)

Proceed(w) == \E d \in DocIds : Run(w, d)

Fairness ==
  /\ \A r \in Reqs : WF_vars(Carry(r))
  /\ \A w \in Workers : WF_vars(Proceed(w))
  /\ \A d \in DocIds : WF_vars(JobDue(d)) /\ WF_vars(AbandonedJob(d))
  /\ \A d \in DocIds : SF_vars(\E w \in Workers : TakeJob(w, d))

FairSpec == Spec /\ Fairness

-----------------------------------------------------------------------------
(* Properties *)

(* A document is processed at most RetryMax + 1 times whatever crashes, how *)
(* often stores fail and how often an admin asks for another retry: the     *)
(* bound of can_retry and the retries RQ counts add up to one bound.        *)
AttemptsBounded == \A d \in DocIds : docs[d].attempts <= RetryMax + 1

(* The attempts in the job's meta, which can_retry reads from Redis, are    *)
(* those of the row, or one ahead while a commit is open or was lost.       *)
MetaFollowsAttempts ==
  \A d \in DocIds : jobs[d].meta \in {docs[d].attempts, docs[d].attempts + 1}

(* The retry endpoint accepts a failed job only when enough of its runs     *)
(* ended before recording their attempt: after RetryMax + 1 recorded runs   *)
(* every manual retry is refused.                                           *)
ManualRetryNeedsLostRuns ==
  \A d \in DocIds : jobs[d].st = "failed" /\ jobs[d].meta < ManualLimit =>
    unrecorded[d] > RetryMax + 1 - ManualLimit

(* A document that shows PROCESSING is worked on: its job waits, runs or is *)
(* scheduled, or an upload is about to enqueue one.  Exceptions: its upload *)
(* failed after the commit of the row, and then no job ever exists and      *)
(* uploading it again is refused; or its job is over, and then the last run *)
(* ended before its outcome was in the row, because the worker died or the  *)
(* except block lost the database.  A job that finished left no document so.*)
ProcessingHasJob ==
  \A d \in DocIds : docs[d].status = "PROCESSING" =>
    \/ jobs[d].st \in {"queued", "started", "scheduled"}
    \/ /\ jobs[d].st = "none"
       /\ \/ \E r \in Reqs : reqs[r].pc \in {"inserted", "refreshed"} /\ d \in reqs[r].docs
          \/ d \in hist.lostUploads
    \/ jobs[d].st \in {"failed", "expired"} /\ d \in hist.cutShort

(* READY is final once its job has ended well: a document leaves it only by *)
(* deletion, or if the run that committed READY raised or died before RQ    *)
(* noted its end (a lost confirmation, a session or a client that cannot be *)
(* closed, a timeout, a dead worker), so that the job was run again or the  *)
(* except block wrote FAILED.                                               *)
ReadyIsFinal ==
  [][\A d \in DocIds : docs[d].status = "READY" /\ docs'[d].status \in LiveStates =>
       docs'[d].status = "READY" \/ d \in hist.unconfirmed]_vars

(* A READY document is searchable: its points are in Qdrant unless a        *)
(* deletion has passed its vector step, and if that deletion then failed    *)
(* the document stays READY without points.                                 *)
ReadyIsSearchable ==
  \A d \in DocIds : docs[d].status = "READY" /\ d \notin vectors =>
    Deleting(d) \/ d \in hist.halfDeleted

(* Points of a document that is gone were written by a run that overlapped  *)
(* its deletion; no other order of steps leaves text of deleted documents   *)
(* in the collection.                                                       *)
OrphanVectorsOnlyFromOverlap ==
  \A d \in vectors : ~Live(d) => d \in hist.overlapped

(* Every file of the upload directory is wanted by a document, by an upload *)
(* or a deletion in progress, or was left behind by an API process that     *)
(* died: deleting a base misses no file, whatever is uploaded meanwhile.    *)
NoLeakedFile ==
  \A c \in files :
    \/ \E d \in DocIds : Live(d) /\ docs[d].content = c
    \/ \E r \in Reqs : reqs[r].pc \in {"written", "unlink"} /\ c \in reqs[r].paths
    \/ c \in hist.leaked

(* A document that never shared its content with another one, nor with an   *)
(* upload that was rolled back, keeps its file until its row is deleted.    *)
UnsharedFileKept ==
  \A d \in DocIds :
    /\ Live(d)
    /\ docs[d].content \notin hist.rolledBack
    /\ \A e \in DocIds \ {d} : docs[e].content # docs[d].content
    => docs[d].content \in files

(* Ingestion keeps the promise of DocumentLifecycle to whoever reads the    *)
(* documents table.                                                         *)
Lifecycle == INSTANCE DocumentLifecycle WITH
               MaxRuns <- RetryMax + 1,
               status  <- [d \in DocIds |-> docs[d].status],
               runs    <- [d \in DocIds |-> docs[d].attempts]
ImplementsLifecycle == Lifecycle!Spec

(* An upload settles: however often its runs fail or die, the document      *)
(* becomes READY or FAILED or is deleted, or its job ends in the failed     *)
(* registry, unless the API lost the upload before it had a job.            *)
UploadSettles ==
  \A d \in DocIds : docs[d].status = "PROCESSING" ~>
    \/ docs[d].status # "PROCESSING"
    \/ jobs[d].st \in {"failed", "expired"} /\ d \in hist.cutShort
    \/ d \in hist.lostUploads

(* A request that was started ends, also the upload whose INSERT waits for  *)
(* the row lock of a deletion of its base.                                  *)
RequestsEnd == \A r \in Reqs : reqs[r].pc # "idle" ~> reqs[r].pc = "idle"

(* test_delete_removes_only_target_base_vectors_and_files: deleting a base  *)
(* keeps the files of the documents of every other base.                    *)
DeletingBaseKeepsOtherFiles ==
  [][\A r \in Reqs, d \in DocIds :
       /\ UnlinkFiles(r) /\ reqs[r].kb # None
       /\ Live(d) /\ docs[d].content \in files
       => docs[d].content \in files']_vars
=============================================================================
