# Verification of the asynchronous distributed task processing system

TLA+ models of the Python program in `src/` (FastAPI API, Celery workers, Redis
Streams, Postgres, WebSockets, and a polling baseline on SQLite), model-checked
with TLC on small instances, with theorems proved by TLAPS for every value of the
constants. `PROJECT.json` lists the components, runs, mutants, the source lines
each definition stands for, findings, hazards and theorems.

Paths below are relative to `src/`; the application itself is under `src/src/`.

## 1. The system

    client --POST--> API --row QUEUED--> Postgres
                      |---send_task----> Redis (Celery broker) --> worker runs the task
    worker --XADD status / chunk / result--> Redis stream "tasks:events"
    stream --XREADGROUP (group "api")--> one StreamsConsumer per API process
    consumer --EventRouter--> handlers --> Postgres rows, WebSocket broadcasts --> clients

| Component | State it keeps | Operations | Module |
|---|---|---|---|
| Stream consumer group (`streams/consumer.py`, `client.py`) | stream, last-delivered-id, pending lists (Redis); the reply being walked (process) | create group, reclaim, XREADGROUP, dispatch, XACK, back-off, stop | `StreamConsumer`, abstract: `EventDelivery` |
| Publisher (`streams/publisher.py`) | none | XADD with the client's retry | `StreamConsumer.Publish`, `TaskReporter.Publish` |
| Router and handlers (`application/handlers.py`, `streams/router.py`) | `_status_cache`, `_cpu_ws_total_ms` per process; rows in Postgres | handle status, chunk, result | `EventPipeline` |
| Task reporter (`worker/reporter.py`) | `_batch`, `_chunk_index` | report, emit, `__exit__` | `TaskReporter` |
| Tasks (`worker/tasks/*.py`) | loop position, progress | one step per event they report | `ComputePiTask`, `DocumentAnalysisTask`, composed in `WorkerTasks` |
| WebSocket fan-out (`presentation/websockets.py`) | `_connections` per process | connect, disconnect, broadcast, endpoint | `TaskConnections` |
| Streaming demo clients (`demo/shared/*.js`, the pages' `app.js`, `demo/dashboard`) | per client: status, chunks, `completed`; the run button | start, open sockets, handle a message, finish | `StreamingClients` |
| Task submission (`application/services.py`, `celery/*`, `presentation/routes.py`) | task row, broker message, result backend | create_task, enqueue, SENT, run, expiry, check_progress, get_status | `TaskSubmission` |
| Postgres storage (`infrastructure/postgres/*`) | rows of four tables; each session's snapshot and pending changes | create_task, update_task_status, set_task_result, get_task, get_result, list_tasks | `PostgresStorage` |
| Polling baseline, compute_pi (`naive_worker/compute_pi`, its routes, `demo/shared/engine.js`) | SQLite row, worker loop, client | POST, claim, append, status, result, delete | `NaiveComputePi` |
| Polling baseline, document_analysis | SQLite row, snippets, shared cursor, client | the same with snippets | `NaiveDocumentAnalysis` |

Not modelled: pydantic models and protocols (declarations), migrations, the
engine and the foreign keys' cascades (nothing deletes a row), configuration and
dependency injection beyond the registrations and settings the modules use, pages
as far as they only render, styles and the reverse proxy. Partly modelled: the
Celery mapper (the state it makes of the backend, not its messages), the ORM (the
columns a session writes, and how a flush uses them). Left out of modelled parts:
request validation, the paging and filtering of `list_tasks`, task payloads (which
nothing changes after creation), and the CPU metrics of the baseline.

**Interactions.** Calls: route to service to repositories. Messages: broker and
stream. Shared state: the consumer group between API processes, rows between API
processes and requests, SQLite between the baseline worker and handlers in
threads. Callbacks: router to handlers to broadcast. Coroutines of one API process
interleave at awaits only; a module's action is the code between two awaits, one
database transaction, or one Redis command.

**What is hard.** Several processes read one group while they crash, restart and
reclaim; a call to Redis or Postgres that raises may have been executed; the ack
is outside the `try`; a throttle decides from a cache that is updated after the
transaction; a partial batch is flushed by `__exit__` while an exception unwinds;
sockets come and leave during a broadcast; a page's client may be late for the
last chunk it waits for; two sessions merge into one row from what each has read;
Celery's stores of SENT and of the outcome are each a GET and a SET and overlap; a
file may be downloaded by one worker while another scans it; `send_task` may raise with the message in the broker; several clients poll a row
that one of them deletes. The `hazards` of `PROJECT.json` give each with its line
and the properties that cover it.

**What makes each component correct.**
- consumer group: an entry goes to one process, in order, is acknowledged only
  after its handler returned, and is pending exactly until then;
- pipeline: the row does not fall behind what clients were told by `status_delta`
  or by a terminal state, never goes back, and memory for an ended task is freed;
- reporter and tasks: chunks assemble to a prefix of what was emitted, `is_last`
  means all of it, the progress a page shows is monotonic, a terminal status comes
  last;
- fan-out and its clients: the registry is exactly who listens; a client shows
  everything from the moment it joined; a run that was started comes to its end;
- submission: the row exists before any event; the answer to the caller agrees with
  the row; the result backend finds an accepted task and tells no outcome that no
  run had; a task reaches a terminal state unless one of a few named mishaps;
- storage: no field is lost between sessions, a status is never a mixture unless
  two updates overlap, readers find the rows they rely on, sessions end;
- baselines: nothing is deleted unread or while it is written; pollers stop.

## 2. Modules

`EventDelivery` is the promise to each entry (absent, queued, held, handled,
rejected, acknowledged, stranded), without processes or replies.

`StreamConsumer` is Redis' consumer group and the loop of `consumer.py`. Entries
are positions in `stream`. `group`, `last`, `pel` are the server's state; `pc`,
`batch`, `cur` that of each coroutine. `EnsureGroup`, `Reclaim`, `XReadGroup`,
`XReadGroupIdle`, `XReadGroupFails`, `Backoff`, `Dispatch`, `Ack`, `AckFails`,
`Stop`, `Crash` are the code between awaits; `RedisRestart` loses stream, group and
pending lists, as the compose file gives Redis no persistence. A dispatch returns
or raises; a payload that `decode_event` rejects (`"invalid"`) always raises. The
undelivered part of the stream is never trimmed, as MAXLEN is not used.

`EventPipeline` EXTENDS `StreamConsumer` and puts the handlers into the place of
the arbitrary outcome: `StoreStatus` (one transaction, then the cache),
`BroadcastStatus`, `StoreResult`, `BroadcastChunk`, each returning or raising, with
the transaction committed or not and the broadcast partly done or not when it
raises. Tasks publish the events of a `Script`; the scripts of the instances have
the shapes the task modules produce. Every pipeline step conjoins a step of the
consumer, so what is proved of the consumer holds of the pipeline
(`PipelineIsConsumer`, a lemma of the proofs).

`TaskReporter` is what both Celery tasks are built on: `Publish` with its retry
(the event may be twice in the stream) and its exceptions (with the event in the
stream or not), the batch and its index, and `__exit__`. `ComputePiTask` and
`DocumentAnalysisTask` EXTEND it with their control flow, and `WorkerTasks` is the
worker that runs one or the other; what both must satisfy is stated there, once.
Its history variable `assembled` is what a reader of the stream puts together who
takes each chunk id once, as the entries come (`Assemble`). The document need not
be complete: `_ensure_document` of another worker may be filling the same file, or
open it again and truncate it (`Download`), up to `DOCUMENT_BYTES`. `totalBytes` is
the size as the task found it, once; the scan reads to wherever the file ends now
(`fileEnd`), a hit is reported at most as `totalBytes`, a chunk without hits at
`tell`, whatever that is.

`TaskConnections` interleaves endpoints and the broadcasting coroutine at accept,
`receive_text` and `send_json`. The snapshot a broadcast iterates over is
`sending.todo`; `keys` are the keys of the dictionary. Sending to a socket that is
gone is silent, raises RuntimeError (caught: disconnected) or WebSocketDisconnect
(not caught: ends the broadcast).

`StreamingClients` EXTENDS it with what happens at either end of the sockets: a
task's `Script` of events is handled one by one, here (`BroadcastNext`) or by
another process or not at all (`HandledElsewhere`), and pages open their clients'
sockets when the POSTs are answered (`Answered`) and are done when each client,
streaming and polling, has `completed` (`Finish`). Of the polling side there is only
when it is through (`PollersComplete`, `polled`); why and whether it comes to that
is the subject of the `Naive` modules. The dashboard has neither polling clients nor
a run button. `client` is what each `StreamingEngine` has made of its
messages: `Delivered` is a `send_json` and the `_handleMessage` it leads to.
`ScriptAssumption` says of the scripts what `WorkerTasks` checks and proves of the
tasks: chunk ids do not go back.

`TaskSubmission` follows one document_analysis task from the request to its last
status. Celery (`SendTask`, `TakeMessage`, the SENT signal between the publish and
the return of `send_task`, the store of a run's outcome, `Expire`) is modelled from
how the program configures and uses it. A store is a GET and then a SET
(`ReadSent`/`WriteSent`, `ReadMeta`/`WriteMeta`), and either may fail; the SET is left
out when the GET found SUCCESS. A run goes through started, running, reported and
returned, and may raise or die in each. Its statuses reach the row in any order
(there may be several API processes), twice, or never: a handler raises, with or
without its write, a process dies with the entry, or Redis starts again and forgets
stream, queue and backend (`ApplyEvent`, `ApplyCopy`, `LoseEvent`, `RedisRestarts`). `StatusCode`, `CheckProgress` and `ToState` are
what the routes and the task manager answer in a state.

`PostgresStorage` has the committed `rows` of one task and the sessions on them at
READ COMMITTED, one action per SELECT, flush, COMMIT or rollback. A session's `seen`
is its identity map, `changes` what its flushes have sent: the columns whose value
differs from what it has read. A row another open transaction has written is waited
for. A reader's `selectinload`s run in any order, as neither `repositories.py:80` nor
SQLAlchemy fixes one (`Loads`, `Select`). The pipeline and the submission use the same writes as single steps.

`NaiveComputePi` and `NaiveDocumentAnalysis` are the polling baselines end to end:
the handlers' transactions one by one, the worker, and the demo's `PollingEngine`
with its stop conditions. SQLite and the browser timer are modelled from their use.

`MC*` modules define instances (sets of model values, scripts, subscriptions).
Modules whose constants are numbers or sets of model values are run directly.

## 3. Runs

Passing runs:

| Run | What it shows | Bounds, and why they are enough |
|---|---|---|
| `consumer_group` | entries are dispatched in order and by one process, acked only after handling, pending exactly until then; none is skipped; without disruption each is handled and acked, or its handler raises; `StreamConsumer` implements `EventDelivery` | two processes; three entries in replies of two, so that a full and a partial reply exist, and an abandoned rest; one stop, crash, lost reply or failed ack; one Redis restart; reclaiming of any subset. Safety for any bounds is proved (section 6) |
| `pipeline_single` | rows keep up with broadcasts and never regress, clients see order, memory is freed, every result is stored unless something failed | one process; two tasks, of which one ends with COMPLETED and a result; neighbouring percentages are throttled; a failed write or broadcast, a crash and a Redis restart in one behaviour |
| `worker_tasks` | both tasks: chunks count up, assemble to a prefix and `is_last` completes them; statuses, COMPLETED and result agree with what was streamed; progress as it is shown is monotonic; a terminal status comes last | batches of two, so that `__exit__` has a rest to flush; four digits; a document of five positions of which any part is there at first, and that grows or is truncated whenever the task looks at it (five are enough for a scan that passes the total, and one that is cut short); every split into chunks of lines, up to three hits per chunk with a limit of two; two calls that fail or repeat, or a crash |
| `streaming_clients` | the registry is who listens, and leavers are forgotten; each client shows what was handled since it joined, in order and without gaps; a run whose clients were all there before the last chunk, and whose pollers are through, gives its button back | a demo page with two clients and a dashboard card whose task fails (the two rules of completion, sharing of a key, and keys that come and go); three broadcasts, so that one is under way with one before and after; one endpoint error and one event that this process does not broadcast |
| `submission_faults` | events find the row; answers are true; the backend finds what was accepted or finished until it expires, and tells no outcome that no run had; a SUCCESS that no store overlaps stays; only a run that died or raised, a lost or overtaken last status or a Redis restart strands a task | two executions (a message published twice), so that the stores of two outcomes and of SENT overlap; three faults anywhere: enough for a repeated publish, and two of the failures that `OnlyLostRunsStrand` and `AnswersAreTrue` tell apart |
| `storage_transactions` | no time stamp is lost between sessions; a read finds every row the mappers take for granted, whatever the order of its SELECTs; an update of the row that was read leaves exactly its status; sessions end | two writers with any job each (status or result, with or without metadata; two is the least for an overtaken update, and a deadlock needs no more), one reader of any call and user, on a task that exists or is being created; a lost connection |
| `naive_pi_clients` | the worker keeps its row; nothing is deleted unread; a racing POST never resets a task; results never shrink nor lag the status; pollers stop | two POSTs, two pollers, three characters, one lost call or dead worker |
| `naive_document_clients` | with a shared cursor each client shows snippets without gaps, together they show all; nothing is orphaned; pollers stop | two pollers, three snippets, one lost reply or dead worker |

Deadlock is checked for the consumer and pipeline runs. It is off for tasks,
submission, clients, storage and baselines, where the modelled process really ends
(a task returns, a poller stops, all sockets are closed, the calls are answered).
That storage sessions do not wait for each other for ever is `EverySessionEnds`.

Every passing property has a mutant in `PROJECT.json`: a definition of the model
replaced by a plausible bug (`\* Mutant:` operators stand before the definition
they replace), with which TLC finds the property violated in the same run.

## 4. Where the code disagrees with its documents

Four runs end in a violation; each checks one sentence of the repository.

1. `consumer_reclaim`: `_reclaim` discards the reply of XAUTOCLAIM and the loop
   reads only `>`: reclaimed entries change owner and are never handled.
2. `pipeline_regress`: with two API processes an earlier status, handled late,
   replaces COMPLETED in the row.
3. `worker_completion`: `compute_pi` never reports a terminal status; its row
   stays RUNNING. (Hence the cache and meter entries of its task are never freed.)
4. `naive_pi_final`: pollers stop without the final result, because they stop at
   a terminal status, or because another client's fetch deleted the row.

More were met while modelling and follow from single lines or from properties that
hold, without a run of their own:

- the group is created at `$`, so after Redis lost its state entries published
  before an API process starts again are skipped (`client.py:44`);
- COMPLETED is published before the result, the reverse of README:50-51
  (`document_analysis.py:210`);
- progress may pass its total: `handle.tell()` is reported as it is
  (`document_analysis.py:202`), the size is taken once (`:140`), and another worker
  may still be downloading the file (`:70-75`). It then goes back to 100 %. The pages
  show `Math.min(progress * 100, 100)`, which does not (`ProgressNeverGoesBack`);
- SENT is stored by a GET and a SET that a fast worker overlaps: it may replace the
  SUCCESS or FAILURE of a run that has ended, for good, though the docstring says of
  SENT "accepted by the broker but not yet started" (`celery/app.py:22-28`), which it
  also outlasts when a worker starts the task;
  `check_progress` reads Postgres where `routes.py:85` says the Celery backend; and
  the backend says SUCCESS of a task that reported FAILED and returned;
- two updates of a status that overlap may leave a row that is neither of the two,
  as a session sends the columns that differ from what it has read
  (`repositories.py:134`); `UpdatesAreSnapshots` says when this cannot happen;
- `TaskAccessDeniedError` is not mapped by the routes: it is answered with 500;
- a demo page whose task fails before a chunk, or is faster than its sockets, runs
  for ever (`demo/document_analysis/app.js:216`, `demo/compute_pi/app.js:354`); the
  dashboard shows a FAILED task as COMPLETED (`demo/dashboard/app.js:98`);
- the baseline's `progress_current` counts one digit more than there are
  (`naive_worker/compute_pi/worker.py:48`).

## 5. Fairness

- `StreamConsumer.FairSpec`: weak fairness of each process' own next step,
  restart included. The event loop resumes a coroutine whose await completed;
  compose has `restart: unless-stopped` for the API. Reading an empty stream is
  excluded: it changes nothing. Publishing, failures and restarts of Redis are
  never fair.
- `EventPipeline.PipelineFairSpec`: also the workers run their tasks to the end. A handler
  may raise in it. Failed calls, stops, crashes and restarts of Redis are never fair, so
  nothing forces a fault; a process that ended is started again (its `EnsureGroup` is fair).
- `WorkerTasks`: a task is a sequential program that keeps running (`WF(Work)`); it may
  crash (a fault), and another worker's download is never fair.
- `StreamingClients.ClientsSpec`: the consumer goes on with the next event, the
  broadcasting coroutine and the endpoints whose client left are resumed, the pages'
  timers tick. Nobody need ever connect or leave, no process is forced to miss an
  event, and the polling clients need never be through.
- `PostgresStorage`: a session that began goes on, as its coroutine awaits the
  database. While it waits for a row the flush is disabled, so the fairness does not
  break a wait. Nobody need begin, and connections need not be lost.
- `TaskSubmission`: workers take messages and go on with their runs and stores, and
  consumers with the statuses. The request need not go on once it published: nothing
  waits for it. A raise, a crash, a loss is a fault.
- Baselines: requests get served, the worker keeps working, `setInterval` ticks.
  `SF(Complete)`: the file is finite, so the end of the scan, which alternates
  with updates, is reached.

## 6. Proofs

`StreamConsumer_proofs` proves for every set of processes, every COUNT in
`Nat \ {0}`, reclaiming or not, and every bound (assumptions `CountAssumption`,
`ReclaimAssumption`, `BoundAssumption`):

- `TypeCorrect`: `Spec => []TypeOK`
- `InOrder`: `Spec => []DispatchInOrder`
- `ExactlyOneInstance`: `Spec => []DispatchedOnce`
- `AckAfterHandling`: `Spec => []AckedWasHandled`
- `PendingExact`: `Spec => []PendingUntilAcked`
- `Refinement`: `Spec => ImplementsDelivery`, the abstract `EventDelivery` under
  the mapping `Fate`, step by step

None but the first is inductive. The invariant that is has four layers, each
proved from the layers below it:

- `LoopInv`: types, and that a process that handles an entry has a non-empty
  reply in hand, and one that neither handles nor acknowledges has none;
- `OrderInv`: the entries of every reply in hand are increasing and above those
  the process has dispatched, no two processes hold or have dispatched the same
  entry, and all are at most `last`. The argument: XREADGROUP hands out ids above
  `last` only, so a new reply lies above everything old;
- `AckInv`: the handler of an entry that is being acknowledged returned;
- `PelInv`: with a live group, the pending lists partition `since+1..last` minus
  the acknowledged entries, and without one they are empty. Reclaiming and acks by
  a process that is no longer the owner preserve it.

The refinement uses all four: an entry that one process dispatches or drops is in
nobody else's reply (`OrderInv`), an acknowledged one had been handled (`AckInv`),
and a reclaim that changes the owner in a pending list changes no fate.

In `EventPipeline_proofs` the lemma `PipelineIsConsumer` (`PipelineSpec => Spec`, by
construction: a handler stands in the place of a dispatch that returns or raises)
carries the consumer's theorems over: `PipelineHandlesOnce`, `PipelineAcksHandled`.
On that rest:

- `NeverShownTwice`: no event is broadcast twice, with any number of processes
  (no run checks it): what was shown was dispatched, and dispatches are once;
- `NothingKept`: `[]MemoryReleased`, with any number of processes, under
  `TerminalEndsScript`;
- `ShownAsPublished`: `[]ShownInOrder`, under `OneProcess`;
- `RowNeverRegresses` and `RowWithinDelta`: `StatusNeverRegresses` and
  `[]RowKeepsUpWithBroadcasts`, under `OneProcess`, `TerminalEndsScript`,
  `ProgressRises`.

The hypotheses: `OneProcess` is a deployment with one API process (with two these
fail, section 4). `TerminalEndsScript` and `ProgressRises` say of the scripts what a
task publishes: after its terminal status only the result or the same status again,
and statuses that do not go back. `MCEventPipeline` ASSUMEs them of its scripts,
and `pipeline_single` meets all three. `WorkerTasks_proofs` proves the first of the
tasks (`TerminalIsLast`), and the second of the progress that is shown
(`ProgressOnlyGrows`): a document whose file still grew when its size was taken may
report more than its total before it goes back to it, and to such a task
`RowNeverRegresses` does not apply. The invariant: `SourceInv` (the stream's content is each task's script
so far, in script order), `HandlerInv` (the types of a handler's memory, and what a
handler between its transaction and its broadcast has stored), and `RowInv`: a row
is QUEUED as created or was written from an event that was dispatched or is in
hand, and no cached percentage is above the row. That is what makes the row
monotonic even if a write failed after its commit or a restart emptied the cache:
whatever is in hand comes later in the stream than what the row was written from.
`KeepsUpInv` adds, for the last status shown, that it was stored or throttled.

`StreamingClients_proofs` proves, for any tasks, sockets, subscriptions and bounds
(`TaskOfAssumption`, `BoundAssumption`), `ConnectionsTypeCorrect` and
`RegistryCorrect` (`Spec => []RegistryMatchesClients` of `TaskConnections`): with the
types the property is inductive, because a socket is only dropped when nobody
listens there any more, and its key goes with the last socket. `ClientsRegistered`
is the same of `ClientsSpec`: every step of the pages and the stream is a step of
the connections, or leaves them alone.

`ShownInFull` (`ClientsSpec => []ShownSinceJoined`, with `ScriptAssumption`) is what
clients are promised. `ContentInv`: whatever was handled was broadcast here, or is
noted in `elsewhere`. `ClientInv` relates each client to the broadcasts: a socket
the one under way has still to serve was registered before its event was handled,
which needs the registry to be exact (`RegistryMatchesClients`), so nothing old is
ever delivered; a client has every chunk broadcast since it joined, but for one
that it waits for or whose broadcast an exception cut off; and what it has lies
before the one it waits for, so that an `Append` keeps the order.

`TaskSubmission_proofs` proves, for any set of runs and any number of faults:

- `RowComesFirst`: `Spec => []EventsFindRow`; inductive with `StoredInv`: without a
  row the request has not reached the broker, and nothing ran;
- `AnswersHold`: `Spec => []AnswersAreTrue`, from `AnsweredInv`: who is sending has
  published or had a fault, and a rejected task that is still QUEUED had two;
- `BackendHolds`: `Spec => []BackendAgrees`, from `BackendInv`: while nothing expired,
  PENDING means that no store of the task has been completed, and an outcome in the
  backend is that of a run that returned or raised. Nothing is assumed of the order
  of the GETs and SETs;
- `SuccessStays`: `Spec => SuccessSettles`: with SUCCESS stored and no store between
  its GET and its SET, no later store gets as far as a SET.

`PostgresStorage_proofs` proves, for any sessions and payloads:

- `ReadersHold`: `Spec => []ReadersSeeWholeTasks`, in whatever order a reader's SELECTs
  run. `RowsInv`: a task, its metadata and its status come together. `SessionInv` is
  what makes a commit keep that: a row a session read is still there, and what it
  sends for a row it did not find has every column. `ReaderInv`: who found a task
  finds the rows of each table it has read since, but for the result;
- `UpdatesHold`: `Spec => UpdatesAreSnapshots`, from `SessionInv`: what a session
  sends for the status are exactly the differences from what it has read;
- `StampsKept`: `Spec => []StampsSurvive`, with `WritersAssumption` (a time is not
  null). `StampsInv`: each time in the rows is that of the last commit whose session
  set it. An open session has read no time of its own, so its time always differs
  from what it has read and is sent, and it sends no field that it does not set;
  a commit writes result and metadata with the same time, or neither.

`WorkerTasks_proofs` proves, for a document of any length with any hits, complete,
growing or truncated, any number of digits, any batch size and any faults, `ProgressOnlyGrows`
(`[]ProgressNeverGoesBack`) and `TerminalIsLast` (`[]TerminalStatusIsLast`).
`ProgressInv` relates what was told to where the task is: no report so far, as it is
shown, is above the position of the next one, which for a hit is counted in characters and for a
chunk is the position in the file. `QuietInv`: before the stage that ends the task
no terminal status is in the stream, and after it nothing but what may follow one.

The rest of the module is about chunks and reports, just as general.
`ChunksInPlace`: a chunk holds the items emitted at `id * BATCH_SIZE`, none comes
before the chunk it continues, and the `is_last` chunk ends where the emitted items
end. `ChunkInv`: the unsent batch is what was emitted after the chunks of the ids
below the index; it can be full only after a flush that failed, and then the task
emits no more. From it `StreamAssembles` (`Spec => []ChunksAssemble`) with
`AssembledInv`: a reader has everything that was emitted as soon as the chunk of the
current index is in the stream, and else all but the batch; while the task emits,
that chunk is not there. Hence it does not matter whether the flush that failed
had published its batch before `__exit__` sent it again under the same id.

`ResultInPlace`: a result carries what was emitted (or its length) and comes after
the `is_last` chunk, COMPLETED only at the end of the file as the task found it,
unless it was truncated since; `FinalInv`: no result
before the task ends, no final report without the `is_last` chunk. `CountInv`: the
last status of `compute_pi` is the number of digits, or one more while the batch is
not full. `ReportsMatchStream` (`Spec => []ReportsAgree`) puts the three together.

`NaiveComputePi_proofs` proves, for any requests, clients, length and faults,
`RowKept` (`[]WorkerKeepsItsRow`), `DeletedDelivered` (`[]DeletedOnceDelivered`) and the
action properties `NeverReset` (`PostNeverResets`) and `KeepsUp` (`ResultKeepsUp`).
`RowInv`: the row's digits lag the worker, `done` means complete, and a request
about to delete answers all digits. `GoneInv`: a row is gone because a client has it
all. `OnceInv`: of a task that was created once, the row a request is about to
delete is complete or gone already, so it is not the worker's.

`NaiveDocumentAnalysis_proofs` proves, for any clients, snippets and faults,
`NoOrphanSnippets` (`[]NoOrphans`), `WithoutGaps` (`[]ShownWithoutGaps`) and, of a task
with a client (`Clients # {}`), `NothingLeftOut` (`[]EverySnippetShown`). `WorkerInv`:
while the worker works its row is RUNNING, and a request that deletes has read
`done`. `CursorInv`: a request starts where what its client has shown ends.
`CoverInv`: without a fault, no position from which a request can start leaves a
snippet below it that nobody shows or is being sent; this is why a shared cursor
and a deletion by whichever client comes first lose nothing.

What the proofs changed in the models: the alternatives of `Fate` overlapped, so
that CASE left its value to a choice; they are now tried in order.
`ProgressNeverGoesBack`, `ChunksInOrder` and `StatusLeadsDigits` are stated on the
stream itself instead of a filtered copy, and `assembled` and `client` were folds
over it: what a fold yields for every stream would need induction over data, while a
variable that each step extends can be related to the stream by an invariant.
`MemoryReleased` turned out to need no single process, but `TerminalEndsScript`.

## 7. Only model-checked

Liveness: fairness and ENABLED are out of TLAPS' reach. Every invariant and every
action property that a passing run checks is stated by a theorem of section 6,
under the hypotheses named there.

## 8. Abstractions

- An event is its kind, task, state and percentage or chunk id. Percentages are
  small integers and `STATUS_DELTA` a number of steps. Times, ETAs and CPU readings
  are left out; the keys of the CPU meter are kept, their values not. A time stamp
  of the metadata is the session that wrote it.
- In the pipeline and the submission a write either commits, or raises with or
  without having committed, and the last writer wins. How the columns of two open
  sessions combine is the subject of `PostgresStorage`. The event handlers pass no
  metadata; the storage's sessions may, as their signatures allow.
- `PostgresStorage` models READ COMMITTED, locks of rows, and the identity map and
  unit of work of SQLAlchemy from how the repository uses them; the foreign keys
  share locks that no session here waits for.
- `RowKeepsUpWithBroadcasts`, `StatusNeverRegresses` and `ShownInOrder` are stated for
  one API process: with two they fail, which `pipeline_regress` shows for the row.
  `MemoryReleased`, checked with one process, is proved for any number.
- `StreamingClients` has the sockets of one API process; what other processes do to
  its clients is the events they take (`HandledElsewhere`). Clients do not connect
  again, as in the code.
- A document's snippet is its position; its text is not modelled.
- Counters are bounded by the constants called `Max...`, each named a bound in its
  module. Failures are counted, so that "without a fault" can be said.
- After a Redis restart the running consumers of the real system keep getting
  NOGROUP until a process restarts; the model does the same (`XReadGroupFails`
  with a lost group). Entries published before the group was created again are
  skipped, and `EveryEntryDelivered` excepts just those and what the server lost: every
  other entry, also one published after a restart, is handed out. What a crashed process held is stranded (`EveryEntryHandled`).
- `NaiveComputePi` promises nothing for a task that a slow POST creates again
  after a client's fetch deleted it (`CreatedAgain`).
- In `TaskSubmission` one RUNNING stands for the many of a run, and the stream's
  entries are a set of statuses: which process handles which, and when, is the
  subject of `StreamConsumer` and `EventPipeline`.
- A second worker on the queue table of a baseline is not modelled, as one is
  deployed; nor are the lost updates of the CPU totals.

## 9. Plan

Order of work: consumer group, pipeline, tasks, connections, submission and
baselines came first: the path of an event is the system's core. Then its two ends:
the streaming clients, and the storage under overlapping sessions, with proofs of
the fan-out, the submission and the storage; then proofs of the refinement, the
pipeline, the tasks and the baselines, and last of what clients show and what the
stream of a task assembles to. What is left is the paging and filter of
`list_tasks`, whose SELECTs may show a task whose status
has changed since it was filtered.
