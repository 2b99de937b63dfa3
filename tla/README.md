# EnterpriseMind: a verification project

TLA+ specifications of EnterpriseMind (`src/`), checked with TLC and, for most of
them, proved with TLAPS. A reader needs the repository and this directory.

- *Modules* (`*.tla`) model one part of the system each; `MC*.tla` add what a
  configuration needs, `*Proofs.tla` hold theorems and their proofs.
- *Configurations* (`*.cfg`) each ask one question of a module.
- `PROJECT.json` lists the components, the runs, for every property a mutant of
  the model that breaks it, the source lines behind every definition, the hazards,
  the findings and the theorems.

To repeat a check: `tlc -config IngestionRuns.cfg MCIngestion.tla`; to repeat the
proofs: `tlapm IngestionProofs.tla`.

Paths below are relative to `src/backend/app/` unless they start with `src/`.

## 1. Inventory

EnterpriseMind answers employees' questions from company documents and from SQL
data sets. A FastAPI process serves the API and the chat stream, RQ workers
ingest documents, PostgreSQL holds the tables, Qdrant the vectors (documents and
long-term memories), Redis the recent messages and the RQ jobs, a directory the
uploaded files. Two model providers stand behind a gateway, a local one and an
external one. A Vue application is the user interface.

| Component | State it keeps | Operations | Called by / calls |
|---|---|---|---|
| Ingestion (`knowledge/service.py`, `job_service.py`, `jobs.py`, `management.py`, `vector_store.py`) | rows of `knowledge_bases` and `documents`, files named by their hash, points in Qdrant, RQ job records | upload, enqueue, a worker's run, retry, delete document, delete base | admin API; SQL, disk, Qdrant, Redis |
| Tool manager (`tools/manager.py`) | per tool: circuit breaker, answer cache | `execute`, `close` | orchestrator; the retrieval tool |
| Monitoring (`monitoring/service.py`) | bounded queue, consumer task, stop flag, table of events | `record`, `start`, `stop`, the writer loop | every request, the lifespan; SQL |
| Prompt versions and gate (`evaluation/prompt_service.py`, `runner.py`) | versions, the active flag, evaluation runs | create, evaluate, activate, rollback | admin API; SQL, models |
| Orchestrator, gateway, retrieval, database agent (`agents/`, `model_gateway/`, `knowledge/retrieval.py`, `knowledge/reranker.py`, `database_agent/`) | nothing between requests; the prompts they send | route, retrieve, rerank, gate, answer, generate SQL, explain, compose | chat endpoints; models, Qdrant, SQL |
| Long-term memory (`conversations/memory_service.py`, `memory_store.py`) | points in Qdrant with the level they were recorded with | retrieve, maybe_store | orchestrator, chat endpoints |
| Conversations (`conversations/service.py`, `cache.py`, `api/chat.py`, `api/chat_stream.py`) | rows of conversations and messages, a Redis list per conversation | create, add message, recent context, delete, feedback | chat endpoints; SQL, Redis |
| Accounts and permissions (`auth/`, `knowledge/access.py`) | users, roles, departments, permissions | log in, create, change, disable; the rights of a request | every endpoint |
| Evaluation of prompts (`evaluation/runner.py`, `executor.py`, `judge.py`, `safety.py`, `scorers.py`) | a run, its scores and its verdict | execute the cases, score, judge, compare | admin API; orchestrator, models |
| Session of a tab (`src/frontend/src/modules/auth/store.ts`, `src/frontend/src/api/client.ts`, `src/frontend/src/router.ts`) | token and user of the page, token in `sessionStorage` | log in and out, guard, interceptor | every page; the API |
| Chat front end (`src/frontend/src/modules/chat/store.ts`, `api.ts`) | the list, the open conversation, its messages, `sending` | open, send, delete, stream events | the session; the API |
| Knowledge page (`src/frontend/src/modules/admin/knowledge/KnowledgeAdminView.vue`) | the active base, its documents, a timer | create, edit, upload, delete, poll | the session; the API |
| Benchmark, monitoring queries, traces, scripts, migrations, other admin views | none of their own | read, compute, display | see section 8 |

Where the behaviour is hard:

- **Five stores without a common transaction.** An upload, a run and a deletion
  each touch several of SQL, disk, Qdrant and Redis, in an order of awaits that
  any other request can get between; a worker may die at each of them and RQ will
  run the job again.
- **Shared state on one event loop.** Concurrent questions share a circuit
  breaker, a cache and the monitoring queue, and are interleaved at every await.
- **Two copies of a conversation.** Messages are rows, and the last of them a list in
  Redis that is written after the commit with three commands, read first, and never
  repaired.
- **Rights read piece by piece.** A request reads its user, the user's roles and the
  bases open to them one after another while admins change all three.
- **Concurrent admins.** Activations, rollbacks and evaluations of one prompt
  overlap under READ COMMITTED, where a statement sees what was committed before
  it began and the ORM session remembers what it loaded.
- **Levels of texts.** What may reach the external model is decided at eight
  places, each with a level computed from other parts of the turn.
- **A tab that overtakes itself.** Answers arrive late and out of order, after another
  conversation, another base, another page or another user is on the screen; a stream
  goes on meanwhile, a timer polls, and a 401 may be about a token that was replaced.
- **Scores that decide.** Hits of several searches, some of which failed, are fused,
  reranked by a model that may say anything, and put before thresholds; an evaluation
  averages what the cases did and releases a prompt on it.
- **Limits and time.** A full queue, a stop with a timeout, a circuit that opens
  and recovers, caches that expire.

## 2. Modules and how they relate

| Module | Models | Used by |
|---|---|---|
| `Ingestion` | ingestion, with crashes, retries and deletions | `MCIngestion`, `IngestionProofs` |
| `DocumentLifecycle` | abstract: what the documents table promises | `Ingestion` (refinement) |
| `ToolManager` | breaker, cache and runs of a tool | `MCToolManager`, `ToolManagerProofs` |
| `Monitoring` | queue, consumer, start and stop | `MonitoringProofs` |
| `LossyLog` | abstract: the table is an ordered excerpt of what was recorded | `Monitoring` (refinement) |
| `PromptRelease` | versions, runs, gate, activation and rollback | `MCPromptRelease`, `PromptReleaseProofs` |
| `Orchestrator` | a user's turns: routes, stages, what is sent to which model, memories | `OrchestratorProofs` |
| `Conversation` | a user's conversations in PostgreSQL and Redis: turns, recent messages, deletion | `MCConversation`, `ConversationProofs` |
| `Access` | users, permissions, bases; the rights of a question, the update of a user | `MCAccess`, `AccessProofs` |
| `Session` | the session of a tab: tokens, user, guard, interceptor, the mounted page | `ChatStore`, `KnowledgePage` |
| `ChatStore` | the chat of a tab, the streams of its turns, the conversations of the server | `FrontEnd` |
| `KnowledgePage` | the page of the knowledge bases: chains of calls and a timer | `FrontEnd` |
| `FrontEnd` | composition of the three: one tab and the server | `FrontEndProofs` |
| `Retrieval` | searches, fusion, reranking, evidence gate, with their scores | `Evaluation` |
| `Evaluation` | composition: a run whose cases retrieve, with its scores, averages and gate | `MCEvaluation`, `PromptReleaseProofs` |

Two modules compose others: `FrontEnd`, whose pages share a session that a failed
call of either may end, and `Evaluation`, whose cases run `Retrieval`. The other
components meet in calls that change nothing in the callee that the caller reads back,
except one: the orchestrator calls retrieval through the tool manager. `Orchestrator` has that
boundary as actions of its own (`CachedSearch`, `ToolFails`: an answer from the
cache, and a run that is rejected, raises or times out wherever it is), which is
all the caller can see of `ToolManager`. A turn of `Conversation` surrounds one of
`Orchestrator`, which neither reads nor writes the conversation; the bases of a
request in `Access` are what `Orchestrator` takes as the user's own.

An action is always *what the code does between two awaits* (or between two
statements of PostgreSQL): that is where other requests get in. A handler is a
record with a program counter.

## 3. Ingestion

**Correspondence.** `reqs[r]` is a request: `written` after `write_bytes`,
`inserted` after the commit, `refreshed`, `enqueued`, and for deletions
`dropVectors`, `dropRows`, `unlink`. `workers[w]` is a run of `process_document`
at one of its awaits. `jobs[d]` is the RQ record: its state, `retries_left` and
the `attempts` in its meta. `docs[d]` has the columns that decide something. RQ is
external and modelled from `Retry(max=3, interval=[10, 30, 60])`, the ttls and the
worker command with a scheduler: a failed run is scheduled again while retries are
left, a job whose worker died is found by the registry clean-up, an admin's
`requeue` leaves `retries_left` alone. A document's job key is made from its id.
`save_document` writes the file before it inserts the row; its `except` unlinks the
file. `SELECT ... FOR UPDATE` in the deletion of a base (`Locked`) makes an insert
wait; the foreign key and `uq_document_kb_sha256` are `Insertable`. `hist` and
`unrecorded` are history variables: which accidents happened.

**Runs.**

| Run | Bounds | Question |
|---|---|---|
| `IngestionFiles` | 2 bases, 2 contents, 2 documents, 2 requests, no worker, API faults | is a file kept exactly while somebody wants it? |
| `IngestionRuns` | 1 document, 2 requests, 2 workers, RetryMax 2, all faults | do attempts, retries, points, rows and jobs agree whatever dies or overlaps? Does it implement `DocumentLifecycle`? |
| `IngestionLive` | 1 document, 2 requests, 1 worker, RetryMax 2, worker faults, fairness | does an uploaded document settle, does every request end? |
| `IngestionSharedFile` | 2 bases with the same content | finding: see section 7 |

Files are shared only through their content, so two contents and two documents
give every way of sharing and not sharing; rows of the other properties are about
one document and its job, which no other document's job reads. Two requests are an
upload or a retry beside a deletion. The code's RetryMax is 3; with 2 a run can fail,
be retried, be lost, be retried by an admin and run out of retries. A system in which
every base and document is deleted or settled has nothing left to do, hence
`CHECK_DEADLOCK FALSE`.

**Fairness.** `WF` of each request's next step (a request that was started is
carried on), of each worker's next step, of the scheduler (`JobDue`) and of the
registry clean-up (`AbandonedJob`); `SF` of taking a queued job, because the queue is
FIFO and a worker comes back to it. Nothing makes an admin act. The worker's step is
fair as a whole, so a fault may be what happens each time: that an upload settles
means that the retries run out.

**Proved** (`IngestionProofs`), for any number of bases, documents, contents, requests,
workers and retries: every safety property of the runs, `TypeOK`, which no run repeats,
and `AttemptsBounded`, `MetaFollowsAttempts` and `ManualRetryNeedsLostRuns`, for which no
run is spent. Hardly one of them is inductive; four invariants carry them.

- `Counting`: the bound on attempts is about how many runs *may still begin*. It relates,
  for every document and wherever its job and its worker are, the retries that were used,
  the attempts in the row, those in the meta and the runs that ended unrecorded; at most
  one worker has a document, and it has it exactly while the job is started. The
  refinement of `DocumentLifecycle` needs from it that a run past `record` was counted.
- `FilesKnown`: a file is unlinked long after the deletion has read which rows it removes.
  So a deletion that holds its base's lock has all its rows (`DeletionComplete`: an insert
  would wait for it), the files on its list are those of its rows, and a file that was
  written is on the disk, or rolled back, or belonged to a row (`Traced`). From it follow
  `NoLeakedFile` and `UnsharedFileKept`: only a row of another base, or an upload between
  its write and its commit, can lose a file to a deletion.
- `VectorsKnown`: a run past its upsert has points, unless a deletion took them
  (`RunsUpserted`), and a deletion past its own vector step has left only points that an
  overlapping run wrote later (`DroppedVectors`). From it `ReadyIsSearchable` and
  `OrphanVectorsOnlyFromOverlap`.
- `JobsKnown`: a job that ran left its document settled or will be run again, unless a
  worker died in it or the `except` lost the database (`RunsSettle`); so what is PROCESSING is
  worked on, or is one of those, or an upload that was lost before it had a job
  (`ProcessingHasJob`). No run is left for a READY document unless one ended unconfirmed
  (`ReadyHasNoRun`), so nothing else takes READY back (`ReadyIsFinal`). `QueueMoves`,
  `RunMovesJob` and `RequestMovesJob` say once what the three kinds of steps do to a job.

READY may be taken back: after its commit the run awaits the confirmation, the exit of the
session and `client.close()` (`jobs.py:119`, `jobs.py:133`). If one of them raises the `except` writes FAILED,
or RQ runs the job of a READY document again; `RunRaises` and `CloseRaises` have both, and
`hist.unconfirmed` has the documents it happened to.

The liveness of uploads and requests (`IngestionLive`) is model-checked only.

## 4. Tool manager

**Correspondence.** One tool; `calls[c]` is a call of `execute` that awaits
`wait_for`; time is a `Tick`, and a time stamp is its age, capped where no comparison
looks further. `breaker` and `cache` are the objects of the manager, and an action
is one synchronous stretch of `execute`, up to `await` or after it. `AfterAllow`,
`AfterSuccess`, `AfterFailure` are the breaker's methods. Several calls may pass
`allow()` while the circuit is half open; a straggler of the time before the circuit
opened may succeed and close it. Both are in the code and in the model.

**Assumptions.** The event loop is on time: `wait_for` cancels a run in the tick its
timeout ends (`InTime`). Cancelling a request ends the call and records nothing
(`CancelledError` is not an `Exception`). A call that is refused for its tool, its
user's roles or its arguments changes nothing and is left out.

**Run.** `ToolManager`: 3 calls, 2 keys, threshold 3 (the code's), recovery 4,
timeout 2, ttl 3 ticks. Three overlapping calls are enough for stragglers beside two
probes and for all failures of a threshold to come at once; the three times differ and
are shorter than one another in the order of the code's settings, so their ends fall
before and after each other. `ClosesForGood` is checked under the fairness of the event
loop: time passes and runs that are due end. Its premises are about users, not about the
code: questions keep coming and not every run is cancelled.

**Proved** (`ToolManagerProofs`). All safety properties, for all thresholds and times,
of which a run repeats only `AnswersAreRecent`; the others are `TypeOK`,
`ClosedBelowThreshold`, `SilentWhenOpen`, `ProbeFailureReopens` and
`ClosedEarlyOnlyByStraggler`. Two parts make the invariant `TInv` inductive: a run in
flight while the circuit is open is at least as old as the opening
(`StragglersAreOlder`: an open circuit lets nothing start), so that with the timeout of
a run the circuit soon falls silent; and the run behind a cache entry began at most a
timeout before the entry was set (`ReadBounded`). `ClosesForGood` is model-checked only
(liveness).

## 5. Monitoring

**Correspondence.** `queue` is the `asyncio.Queue`, `task` the consumer at one of
its awaits with the batch it holds, `stopFlag` is `_stop_requested`. `WriteRaises` has
the write committed or not, since a connection may be lost after the commit;
`StopTimesOut` cancels the task where it waits. Python 3.12's `wait_for` returns the
item when it arrives with the timeout, so no event is lost there.

**Run.** `Monitoring`: queue of 3, batches of 2, 7 events, so a full batch, a partial
one, a full queue and a refused event all happen, with restarts; the table is an
excerpt (`LossyLog`), what was recorded before a `stop()` is drained, `stop()` returns
and the queue moves. Fairness is the event loop's: ready tasks run and timers
fire. That writes end is a premise of `QueueMoves`, since nothing bounds a write. The
run may stop when all events were recorded.

**Proved** (`MonitoringProofs`), for every size of queue and batch: `TypeOK`,
`AccountedFor` (every event is stored, on its way, refused by a full queue or lost to a
write; no run repeats these two), `StopDrains`, and the refinement of `LossyLog`. The
invariant needs `AskedToStop` beside them: only a consumer that was asked to stop can be
done, and the flag is not set behind the back of a running one. In the refinement
what is *pending* is the batch the consumer holds followed by the queue;
`TakesBatch` says that each step of the consumer moves events from the one to the other in
their order. `StopEnds` and `QueueMoves` are model-checked only (liveness).

## 6. Prompt versions and the release gate

**Correspondence.** A request is a record in `req`; a step is a statement under READ
COMMITTED, and the last write and its commit are one step. `old` is what the ORM
session loaded with the first query: later selects return those rows as they were
loaded (`InSession`). `Deactivate` is the start of the `UPDATE` that takes a snapshot of
the rows and queues for their locks (`ahead`: PostgreSQL grants them first come first
served); `Commit` is the rest. One metric stands for all metrics. `seed_stage4.py` has
created and activated version 1. Deleting the built-in's row is not offered by the API.

**Runs.** `PromptRelease`: 2 requests at once, 4 versions, 2 runs, two scores that
differ by more than the allowed drop. Two requests let every statement of one fall
between two of the other, a create be beaten, a run regress or supersede another, an
activation wait for a rollback; chains of three that wait for one another are covered
by the proofs, which hold for any number of requests.

**What it shows.** Activation asks the last run of the version, even when other runs finish
meanwhile (`ActivatedByLastRun`). The gate guards activation alone: the page for admins says
that a candidate must pass to be enabled, and `rollback` enables any lower version (section 7).

**Proved** (`PromptReleaseProofs`). `OneActive`, `ActivatedByLastRun` and
`RegressionSlipsOnlyIfRaced`, for any number of requests, and `TypeOK`,
`ConflictOnlyIfBeaten` and `UnpassedOnlyAfterRollback`, which no run repeats. That exactly one
version is active is not inductive: an update that began before another one committed
has to have that one's row among its own. The invariant `Switching` adds
`UpdatesOrdered`: any two updates in progress are ordered by the lock queue, a later one
takes every row an earlier one takes, and the row a request is about to set active is
among its own rows; so the active row is always among those the next update clears. The
gate's theorems rest on `RunsInv`: each request owns the run it began, and what a
session loaded can only have grown since.

## 6a. Orchestrator and the gateway

**Correspondence.** A text is its label. `turn` is a user's turn at one of its awaits;
`Send` records what parts with which labels go to the external model, when the gateway
would choose it for the level of the request (`Reaches`, `gateway.py`). `Highest`,
`CandidateLevel`, `DataLevel`, `FinalLevel` are the levels the stages compute.
`recent` is what the last turns put among the messages, `memories` what was
summarised, with the level it was recorded with. The summary after a turn is sent in two
parts: `own` are the texts of the turn, `recent` those of the turns before it. A tool that is rejected, raises or
times out may be cut at any of its awaits, and the search is made again
(`ToolFails`). An external call that fails may have delivered its prompt. The users'
access to documents is fixed before the turn.

**Runs.** `Orchestrator`: two turns, of which the messages reach back to both (`Window`,
eight messages in the code), internal texts may leave, memories of one turn reach
the next; two turns are what it takes for a text of one to be sent by another.
`Ask` stops at the bound, hence `CHECK_DEADLOCK FALSE`.

**What it shows.** Within a turn what the tools found stays: neither evidence nor rows leave
in any request of it, its summary included if the router may ask the model (`FindingsStayLocal`). Over several turns they may, as may the question:
`ProtectedLeavesOnly` is the list of the ways, each of which the code has (section 7).

**Proved** (`OrchestratorProofs`), whether internal texts may leave or not, for every
mode of the router, window and number of turns: `TypeOK` and the three properties of the
run. What a request sends is harmless by its own level (`SendKeeps`: the reranker's
covers the candidates of a known label, `FinalLevel` everything the answer is made of,
`DataLevel` never leaves), so `FindingsStayLocal` and `ProtectedLeavesOnly` need little
of the state but that labels are labels. `RecordedCoversTurn` is not inductive: a memory
gets its level many steps after the router chose the route. `LevelsKept` follows it: as long as
the answer is made the route covers the question, and the level of a turn that is done
covers all that was said in it, because an internal question that only the model could
place is raised to its own level (`Recognise`) and everything of the data task is sensitive.

## 6b. Conversations

**Correspondence.** A message is its primary key. `turns[t]` is a chat request of either
endpoint (`api/chat.py` and `api/chat_stream.py` make the same calls), its `pc` the
statement or command it is about to send: `insert` is `get` and `flush` of
`add_message`, `rpush`, `ltrim` and `expire` are `RedisRecentMessageCache.append`, `get`,
`lrange` and `select` are `recent_context`. The sequence of the table hands out keys
that a rollback does not give back. `deletion` is a `DELETE` in progress; the inserts
that hold a key-share lock on the conversation make it wait (`DeleteRows`). `hist` says
which accidents a conversation had: an append failed or was cut off (`gaps`, `cut`), two
turns overlapped (`mixed`), its list came back after its deletion (`orphans`).

**Run.** `Conversation`: one conversation (conversations share nothing but the table's
sequence), two turns at a time, limit 2 for the code's 8, four messages: two turns one
after the other fill the list and trim it, two at once interleave at every command. Any
turn may be cut off or fail at every statement, Redis may fail with the command carried
out or not, and the list may expire. When the conversation is deleted nothing is left to
do, hence `CHECK_DEADLOCK FALSE`.

**What it shows.** A turn's own
answer is among the messages its memory is made from. The context is the last messages of
the table *only* while no append failed, the list did not expire and no two tabs wrote at
once; each exception is real: a gap is never repaired, and a list that expired starts
again with the new messages and hides the older rows (`conversations/service.py:131`).

**Proved** (`ConversationProofs`), for any number of conversations and turns at once and
every limit: all properties of the run, `TypeOK`, and `ListsAreTrimmed`, which no run
repeats: a list is longer than the limit only by the messages of turns that have sent
RPUSH and not yet LTRIM. The three hold one another's steps: most of a turn is `Quiet`
(it leaves the lists, and every turn that is appending, alone), and the three commands
of an append, their failures and the dropping of a list are treated one by one. The
turns in progress are finitely many, an assumption that the bound on the list needs.
What a turn reads needs `ContextInv`, which relates the list to the table:

- `OwnAnswerIsRecent`. The last message a turn has stored is in the list with no other of
  its messages behind it, or the list is full of messages of others (`OwnListed`); the same
  of what the turn has read (`Recalls`). A message goes to the end of the list and a trim
  takes from its front, so others displace an answer only by filling the list.
- `RecentIsComplete`. While turns do not overlap and no append is lost, a turn is alone in
  its conversation (`AloneUnlessMixed`) and the newest of the list are the newest rows, but
  for the row that is committed and about to be appended (`ListsComplete`).

The rows by primary key (`Ascending`) are the sequence whose i-th member has i members up
to it: TLC evaluates that and the prover can reason about it, where `SetToSortSeq` is
opaque to it. That each place is taken once, so that the sequence is sorted and complete,
follows from finiteness (`PlaceIsTaken`, an injection of a finite set into one as large is
a surjection), and that a new key is appended at its end from the keys growing
(`AscendingGrows`).

## 6c. Accounts and rights

**Correspondence.** `requests[r]` is a question (`change` is None) or a `PATCH` of a user
with its body, at one of its statements: the row of its user, the user's roles, then the
bases that are open (`build_access_context`), or the row and the roles of the target.
An admin's own row is in the session already, so an update of itself uses what the
admission read. `Written` is what the flush of SQLAlchemy sends: the columns and the
links that differ from what was loaded. Bases and permissions are changed by single
statements of their own. `witness` is history.

**Run.** `Access`: two admins of two departments, one base, two requests at once, three
changes committed in all. One base is open or not by a role, a department or for all; an
update that loads before and writes after another one takes two requests. A system without
an active user does nothing, hence `CHECK_DEADLOCK FALSE`.

**What it shows.** A question is answered from bases that were open to its user at some
moment of the request, as long as only one change was committed meanwhile and its user
was not disabled by it; with two it may read one that never was. A stale update gives
nothing back that another has taken away, but two overlapping updates of one user leave
a set of roles nobody asked for. The last active admin can only go by giving up the
role, or by the update of somebody who is no longer an admin when it is written.

**Proved** (`AccessProofs`). `TypeOK` and the three properties, for any users, bodies of
updates and number of requests. `UpdatesWriteDifferences` and `LastAdminGoesByItself` rest
on `UpdateInv`: what is past the check of `update_user` does not disable its own admin,
and what was read of a row is the row, unless it is known to be stale.
`ContextOfItsMoment` rests on `QuestionInv`: before any change, what was read is current;
after one, what it opens was open, whichever statement the change fell behind: a change of
the user leaves the bases alone, a change of the bases leaves the user alone.

## 6d. The front end

**Correspondence.** `Session` has the token of the page's store and that of
`sessionStorage`, which the requests carry, apart: the interceptor clears only the
second. A token is the number of its login. The guard asks for the user when the store
has a token and no user, and sends a page with a token from `/login` to `/chat`, which
is why a page whose token was cleared by a 401 does not come to the login page
(`router.ts`, `client.ts:37`). In `ChatStore` a message on the screen is `live` when it
is the object the stream writes to, a loaded one is another object. The server's side of
a turn is in three steps (the conversation, the question, the answer), as in
`Conversation`; metadata and text come when it has answered. In `KnowledgePage` a chain
is a handler with its awaits: what it does next is in `then`, what it reads of the page
it reads when it gets there. What is only read is read when its answer arrives, what
changes something is done in one step and answered in another. The call that loads the bases
after a settled poll is still within the callback of the timer (`OfTimer`): when it fails, the
`catch` there stops whatever timer runs by then (`KnowledgeAdminView.vue:218`). `FrontEnd` says how the
pages follow the session: mounted, left, loaded again.

**Run.** `FrontEnd`: two users, one an admin, three logins, four clicks or expiries in
all (`MaxActs` counts what a user does and tokens that expire; what follows from them is not
bounded), two questions, one base at first and one more, two uploads, one poll under way
at a time. Two users and three logins allow a token, its successor of another user, and
that one's successor; two questions a conversation that is left while its answer is
written; two bases and two documents every way of being late. A turn that failed takes no
further step; the calls of an earlier page are forgotten when the page is shown again,
for they write to variables nobody sees. An upload that is under way when the page is left
starts its timer all the same, as in the code. At the bounds a tab has nothing left to do,
hence `CHECK_DEADLOCK FALSE`.

**What it shows.** Every property holds up to the exceptions it names, and each of these
is reachable (section 7): the screen shows the open conversation, and between two answers,
whatever calls are under way, the stored messages in their order; the documents on the page are those of the active base; an
upload is watched until it is settled. Without exception: no question or answer is
stored in a conversation of another user, whatever the store kept over a logout.

**Proved** (`FrontEndProofs`), for any users and number of logins, clicks, turns, bases
and documents: all properties of the run. Each step of the tab is one of the
session's `Moves`, or none; so the session is proved apart from the pages, and each page
apart from the other.

- `SessionInv` (`UserIsOwner`): until two requests of the session overlap there is at most
  one, it is about the page's own token, and none while a user is shown (`OneAtATime`).
- `CallsInv` (`TokenLostOnlyLate`): a call that was answered 401 has a token that is not
  accepted, then and ever after, so that what its late arrival clears was lost already,
  or is of a later login.
- `TurnsInv` (`TurnsStayWithOwner`): a turn past the lookup is bound to a conversation of
  the user of its token.
- `ScreenInv` (`ShownIsOpen`): a question is on the screen before its turn has a
  conversation. Until then the turn awaits its metadata, was asked in what is open, and the
  object its stream writes to is on the screen (`ScreenKnown`); what a conversation, and the
  answer that loads it, contains are turns bound to it (`EntriesBound`, `AnswersBound`).
- `PageInv` (`RowsOfActiveBase`, `WatchedUntilSettled`, `TimerFindsDocument`): a chain that
  is going to watch a document knows one that was uploaded to the base that is active now,
  unless the base changed during the upload (`ChainsKnown`); the same of the timer
  (`TimerKnown`); documents are asked for the active base only, and rows of another one
  are about to be replaced (`RowsKnown`).
- `CopyInv` (`ShownIsStored`): while a turn awaits its metadata the screen is ahead of the
  table, by the question and the placeholder of the answer that have no row yet, and beside
  the conversation the turn goes to, which may be new and not open (`AskedIn`). `Copied`
  compares the two by how far that turn has come (`Agree`): every message stands for an
  entry unless its turn has not stored it yet, every entry is shown, both are in the same
  order, failed turns apart. `TablesKnown` supplies what the order needs: an entry is in its
  log once (`Single`), and there only when its turn has come that far.

`ShownIsStored` compares the two sequences by their members and their order
(`Reproduces`) instead of selecting subsequences: `SelectSeq` is opaque to the prover. An
order-preserving correspondence admits no message twice, so it says no less.

## 6e. Retrieval and the evaluation of prompts

**Correspondence.** Scores are hundredths. A retrieval is two steps, since nothing of it
is shared: the searches, which `gather` ends together, with `fuse_hits`; the reranking, with
its fallback and `EvidenceGate.evaluate`. `results` is what each wording of the question
found, or `Failed`; `Places` are the hits of a passage, `Cut` the limit of the fused
list, `Higher` compares the keys of Python's sorts. The reply of the reranker is any
opinion on any of the candidates, out of range and NaN included (`Clamp` is what
`max(0.0, min(1.0, x))` makes of it). `Evaluation` puts cases to it one after another: an
agent that retrieves, or another. An output has the provider that answered, which is all that
`external_sent` depends on (`Sent`, `gateway.py:98`); a safety case may expect a refusal, a
provider, that nothing is sent outside, or several of these (`SafetyCasePasses`). `Scored`, `Measured` and `Value` are the scorers, `n`
and `sum` make the averages, `FallsBelow`, `JudgeGate` and `SafetyPassed` the verdict. Of
the metrics those three are kept that are computed differently; the others are averaged and
compared as these are. What the database sees of a run is in `PromptRelease`.

**Run.** `Evaluation`: three passages, scores on each side of the thresholds, which are
the code's, two wordings of two hits, and five prompt keys: two with cases like those of
`evaluation/cases`, one whose safety cases expect only that nothing is sent outside or only a
provider (`tests/evaluation/test_safety.py:27`), one whose safety case expects nothing, one
without safety cases.
`Limits` are 1 and 2, for only there does the cut bite among three passages;
`FailClosed` is FALSE, which releases more than the default. The keys are given as the rows of
their two files (`Files`), which `LoadCases` turns into cases. After a run another may
begin, so deadlock is checked.

**What it shows.** What the model says cannot make evidence: every citation was found,
near enough, by a search that answered. Without the model the gate answers exactly the
questions for which a search found a passage good enough, whichever searches failed,
unless the list was cut before the scores. An outage is a refusal that cases which
expect one pass; it costs a release only through the citations. A judge that was not
there counts as one that gave nothing, so `judge_fail_closed = False` does not open the
gate. Every safety case of a released version expected something and met all of it.

**Proved** (end of `PromptReleaseProofs`, which extends both modules), for
any cases, passages, scores and thresholds that `EvaluationAssumption` admits:
all properties of the run. `SafetyHeld`, `OutageCostsRelease` and `JudgeWasThere` are about
completed runs; the invariant `EvaluationInv` says what a run under way has made of the cases before the
current one: no safety case passed that went wrong or expects nothing (`SafetyTold`), a metric counts each
case that has it, and its sum is at most 100 for each of those that met no outage
(`OutagesTold`) or had a judge (`JudgementsTold`). At the end the current case is behind the
last, and the comparison with the baseline turns the sum into a share (`ShareOfDrop`).
Nothing of a search is used but that one without evidence is a refusal, so these hold
whatever retrieval does.

`EvidenceIsWhatWasFound` follows the scores through the three sorts: a candidate is a
passage some search found and its vector score the best of what was found (`FusedKnown`),
the reranker's opinion is clamped (`ClampIsNatural`), a ranking that is not empty has a
first (`SomeTop`: the comparison of keys is an order, `HigherIsOrder`), and without
opinions the first has the best vector score. The attempt to prove it showed one
instance on which it was false: with thresholds of 0, which the code does not have, a passage
that nobody found is "good enough"; `FoundIsAnswered` now says that it has to be found.

## 7. Findings

| Run | What the code does | What is said |
|---|---|---|
| `IngestionSharedFile` | files are named by their hash and shared by all bases; deleting a base unlinks the files of its documents, also those another base's document needs (`knowledge/management.py:96`) | a test wants only the target's files removed |

The run's counterexample is a behaviour of the model; `UnsharedFileKept` states what
does hold.

Observations made while modelling, without a run of their own. Where a passing property
names the exception, it is given.

*Backend.* `src/README.md:16` says that sensitive content is forced to the local model, and
the chat page tells the user so of every question (`ChatView.vue:157`). `ProtectedLeavesOnly` has
the ways round it: the rerank prompt holds the question and goes at the level of the candidates
(`knowledge/reranker.py:38`); a rewrite goes as internal whatever the question is
(`knowledge/query_rewriter.py:39`); memories
are appended to the prompt without their level (`agents/orchestrator.py:398`); a summary of
eight messages goes at the level of the last turn (`conversations/memory_service.py:186`), so
that a public question sends out the answer to a sensitive one before it. The runs of the active version were loaded
with it: one that completes before the second select is returned as it was, without
metrics, and nothing is compared (`evaluation/runner.py:449`, `models.py:68`;
`RegressionSlipsOnlyIfRaced`). The baseline is the version that is active when a run ends:
two candidates measured against version 1 may be released one over the other
(`runner.py:294`). Two `create()` of one prompt at once compute the same number; the
unique constraint refuses one, which tries again (`prompt_service.py:69`).
The page for admins says that a candidate must pass the gate to be enabled
(`PromptEvaluationView.vue:94`), but `rollback` activates the next lower version, which may
never have passed it (`prompt_service.py:185`; the theorem `UnpassedAreRolledBackTo`: there is
no other way). An
unknown label makes candidates public in the reranker and sensitive elsewhere
(`knowledge/reranker.py:167`); an exception in the data task loses the
knowledge answer of a composite (`agents/orchestrator.py:194`). An outage of the vector
store is told as missing evidence, a success, which the tool manager caches for 30 s
(`knowledge/retrieval.py:179`). A chat request keeps its session, and after a statement
its connection, while the models are called (`shared/database.py:20`). A document that is
deleted between the search and the commit of the answer breaks the foreign key of the
citations (`conversations/service.py:106`). The memories made of a conversation stay when
it is deleted (`conversations/service.py:158`).

*Retrieval and evaluation.* With a limit of 5 fused and 8 reranked candidates the tail of
`retrieve` that pads the list is never reached. The reranker takes NaN for 1.0
(`Clamp`), the judge for 0.0; `true` is an index, and an integer too large for a float
raises `OverflowError` past the fallback. `hit_count` counts a passage twice when one
search finds it twice. `minimum_judge_score or default` makes 0 the default.
`_case_passed` is shown and never gates. All safety cases of `evaluation/cases` are of
`finance_agent`, so that no candidate of the other prompts can be released
(`SafetyPassed` needs at least one).

*Front end.* The exceptions in the properties of section 6d are all reachable: metadata
that arrives after another conversation was opened (`mixed`), an answer that is written
into a message nobody sees (`behind`), documents of another base that come last
(`strayed`), a document nobody watches (`unwatched`), a timer that looks for its document
in the wrong base (`drifted`), a new token cleared by a late 401 (`late`), a user shown
beside the token of another (`crossed`). Logging out leaves the store of the chat as it
is for the next user of the tab.

## 8. Not modelled, and why

- *Parsing, chunking, embeddings, the wording of queries, SQL validation.* Pure data;
  where a decision depends on them the models choose nondeterministically among the outcomes.
- *Monitoring queries, traces.* Read-only.
- *`DemoCaseExecutor`* (`evaluation/executor.py`). Fixed answers by the words of the question, with
  no store and no model behind them.
- *Benchmark, scripts, migrations.* Run by hand, one at a time; `PromptRelease` starts
  where `seed_stage4.py` ends.
- *The other admin views, feedback, listings, log-in data, renaming a base.* Forms over single
  requests, or one statement each.
- *Application and configuration.* Beside the lifespan, which `Monitoring` has, objects are
  wired together once.

## 9. What is proved and what is only checked

| Proofs | Properties of a run | Only proved | Only model-checked |
|---|---|---|---|
| `IngestionProofs` | `NoLeakedFile`, `UnsharedFileKept`, `ReadyIsSearchable`, `OrphanVectorsOnlyFromOverlap`, `ProcessingHasJob`, `ReadyIsFinal`, `ImplementsLifecycle` | `TypeOK`, `AttemptsBounded`, `MetaFollowsAttempts`, `ManualRetryNeedsLostRuns` | `UploadSettles`, `RequestsEnd` (liveness) |
| `ToolManagerProofs` | `AnswersAreRecent` | `TypeOK`, `ClosedBelowThreshold`, `SilentWhenOpen`, `ClosedEarlyOnlyByStraggler`, `ProbeFailureReopens` | `ClosesForGood` (liveness) |
| `MonitoringProofs` | `StopDrains`, `ImplementsLossyLog` | `TypeOK`, `AccountedFor` | `StopEnds`, `QueueMoves` (liveness) |
| `PromptReleaseProofs` | all of `PromptRelease` and `Evaluation` | `TypeOK`, `EvaluationTypeOK`, `ConflictOnlyIfBeaten`, `UnpassedOnlyAfterRollback` | |
| `OrchestratorProofs` | all | `TypeOK` | |
| `ConversationProofs` | all | `TypeOK`, `ListsAreTrimmed` | |
| `AccessProofs` | all | `TypeOK` | |
| `FrontEndProofs` | all | | |

Every safety property of every passing run is proved. What stays with TLC is liveness: TLAPS
as installed proves neither `ENABLED` nor fairness.

The proofs assume what the modules say of their constants (`ASSUME`, checked by every
run) and nothing else. A type invariant that is proved is not among the invariants of a
run; that of `FrontEnd` is the one with no proof: TLC checked it on the instance above when
the bounds were chosen, and no proof of its other properties rests on it (`IInv` there
carries the types it needs). It holds only where `MaxTokens > 0`, since the first state may
already hold a token.

*Induction over data.* The library's induction theorems take an operator as a parameter,
which no prover here can instantiate. Where a proof needs one it takes the least
counterexample instead: a set of numbers that is not empty has a least member
(`LeastNatural`), a set of subsets of a finite set a smallest one (`SmallestSet`), both
from `WFMin`, which has no such parameter. That is how a finite set of scores has a greatest
(`MaxOfNaturals`), a ranking a first (`Topmost`) and a fold over a set a sum (`WeightsAdd`).
Where the code sorts or selects, the definition states what the result is instead of naming
a library operator whose recursion the prover cannot see (`Ascending`, `Reproduces`).

## 10. Plan

Done: the components of the inventory with a state of their own, and proofs of all safety
properties (section 9). What is left, in this order:

1. *Composition*: rights, cached answers and retrieval in one module: how long after a
   change a question may still be answered from what is no longer open.
2. *Data task*: the validator's rules for a statement.
