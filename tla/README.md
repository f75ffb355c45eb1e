# CatchHole AI backend: TLA+ models

This directory holds TLA+ modules that model the Python workers and the chat
runtime of the CatchHole AI backend, TLC configurations that check them on small
instances, and proofs of their main properties for every instance. File and line
references are relative to the repository root (`src/` here).

## 1. The system

The repository holds the worker processes of a service that analyses the episodes
of a novel. A Spring backend, not in this repository, owns the jobs, their leases
and checkpoints, and the ledger of AI tokens. The parts of this repository ask it
for work over HTTP, read sources from S3, call LLM and embedding providers, and
report back. Two kinds of state are written directly: rows of the shared
PostgreSQL database (`episode_chunks`, `setting_candidates`, the retrieval index),
and a SQLite outbox on the disk of the chat process.

    Spring (jobs, leases, checkpoints, token ledger, chat attempts)
      ^ claim / heartbeat / checkpoint / complete / fail      ^ start / calls / finish
      |                                                       |
    worker process: loop -> job task -> stages -> metering    chat process: runtime -> outbox
      |                          |              \-> provider  |       \-> provider
      +-> thread pool -> database                             +-> SQLite

Nothing is shared between two processes but Spring and the database, and no job
is owned for good: a lease that lapses lets another execution in while the first
one may still be running. What is hard in this code follows from that: awaits at
which a task is cancelled, threads that cannot be cancelled, HTTP posts that are
applied although their answer is lost, and executions that overlap.

### 1.1 Inventory

**Token metering** (`app/usage/metering.py`, with the ledger calls of
`app/clients/spring_worker_client.py`). State: the process-wide semaphore of
requests; per request, its reservation in Spring's ledger and the asyncio task
that closes it. Operations: reserve, call the provider, settle or release, retry a
transient error after a backoff, clean up after a cancellation. Used by every
worker through an LLM or embedding client that wraps it. Hard: a cancellation at
any await must neither leak the permit nor abandon a reservation; ledger calls go
on in detached tasks; posts are repeated. Correct when permits are conserved, no
provider call is made without a reservation, an entry is closed once and by what
the provider reported, and every reservation is closed in the end.

**Analysis job** (`app/worker/analysis_job_worker.py`, `lease_heartbeat.py`,
`blocking_io.py`, the services under `app/services/`). State: the execution's
position, the checkpoint it resumed from, its heartbeat, the thread that runs its
transaction; Spring's job row; rows of chunks and candidates. Operations: claim,
the stages chunks, characters, character comparison, world settings, world
comparison; checkpoint reports; complete and fail. Hard: a takeover while the
former execution or its thread is still at work, lost answers to reports,
resuming in the middle. Correct when stages come in order and once, rows already
reported as saved stay, candidates are those of one run, and a stopped execution
ends nothing.

**Worker scheduler** (`scripts/run_analysis_worker.py`). State: slots, the claim
under way, active tasks, the stop event. Operations: take a slot, claim, start a
task, idle, drain, cancel, close. Hard: a stop request that races a claim, a slot
that is given back by the right party, the drain's deadline. Correct when slots
are conserved, nothing starts after a stop request and the process closes.

**Chat execution runtime and outbox** (`app/chatbot/runtime.py`, `outbox.py`,
`client.py`, `http_app.py`). State: tasks by attempt, promised report slots, the
durable rows, what the delivery loop has sent. Operations: dispatch, take
ownership, reserve and make paid calls, store a result or usage, flush, deliver,
time out, shut down, boot. Hard: duplicate dispatch, lost answers, concurrent paid
calls cut short by the deadline, a full outbox, a crash between a paid call and
its record. Correct when a question is handled once, each paid call leaves a
usage, promised rows always fit, and reports are delivered.

**Episode validation run** (`app/worker/episode_validation_worker.py`,
`app/validation/`). State: two branches of one execution, its gate, what it does
with each item; Spring's published stages and units. Operations: load the
checkpoint, plan the segments, merge, judge, check typos, publish each result,
complete; heartbeat and cancellation. Hard: branches and judges that run at once
and fail apart, publications whose answer is lost, resuming. Correct when the
reported outcome agrees with what is published, published work is neither
repeated nor undone, and a stopped execution is silent.

**Validation ledger** (`app/validation/execution.py`). State: requests not yet
settled, detached metering tasks, the steps of `aclose`. Operations: reserve, settle,
mark UNKNOWN, drain, close. Hard: settle and UNKNOWN of one request race; the drain
must see tasks that appear while it waits; the shutdown meets a cancelled execution
that is still unwinding. Correct when no UNKNOWN follows a settle, a successful drain
leaves nothing open, and the HTTP client is closed last.

**Validation runner** (`scripts/run_validation_worker.py`). State: jobs in slots, the
claim under way, failures in a row. Operations: claim, reap, pause, drain, cancel,
close. Hard: the stop request, a cancellation and the closing of the worker meet a
claim or each other. Correct when every job has a slot, none is forgotten, and none
outlives the clients.

**Retrieval index** (`app/retrieval/store.py`, `service.py`,
`app/validation/index_fill.py`). State: one header and its chunk rows per source.
Operations: prepare, save a batch, finish, fail, inspect. Hard: the source changes
while it is embedded; a campaign and a validation's fill work on one source. Correct
when a vector stands beside the text it was made from, and a finished one stays.

**Retrieval backfill** (`app/retrieval/backfill.py`). State: a campaign with its
cursor, budget and in-flight marker in SQLite. Operations: sweep, admit, call,
account, block, resume. Hard: a crash between a paid call and its accounting. Correct
when the budget bounds what may have been charged, nothing is called after a call of
unknown usage, and the timer does not start the same failing sweep for ever.

**Character comparison** (`app/worker/character_fact_comparison_worker.py`,
`app/analysis/character_fact_comparison_pipeline.py`,
`character_fact_comparator.py`). State: a claimed batch, its segments, the decisions
made and retained, the context token. Operations: read the context, compare a
segment, halve it, keep the independent decisions of an invalid answer, ask for
single candidates, save, start again on a stale token, complete or fail. Correct when
each decision stands on those before it that are kept, each candidate is decided or
failed once, and the job's outcome agrees with what was saved.

**World setting comparison** (`app/analysis/world_setting_manuscript_pipeline.py`,
`world_setting_pipeline.py`, `world_setting_batch_recovery.py`). State: batches
claimed ahead with decisions made ahead; the groups of a rejected answer. Operations:
claim ahead, decide jointly, look again, use, drop, resolve and claim again, save;
recover. Correct when batches are closed as a sequential loop would, on the context
they were decided on, and nothing is kept that was decided on what failed.

**Relationship worker** (`app/worker/relationship_worker.py`,
`app/analysis/relationship_pipeline.py`). State: the job's analysis (absent,
PREPARED with frozen observations, finished). Operations: extract and freeze, compare,
save, complete or fail. Correct when a take-over resumes from what is frozen.

**Chat answer pipeline** (`app/chatbot/hybrid_agent.py`, `hybrid.py`, `qa.py`). State:
spent tools and calls, what was read, the draft and the best partial answer.
Operations: search, read, check, answer in two stages, merge, explore again, publish.
Correct when the checks made ahead always leave what the end of the run needs, and no
later draft takes an answered part away.

**Inspection reading and judging** (`app/validation/judging.py`, `corpus.py`,
`typo.py`). State: the searches of the corpus with a cache and a lock, the shared
budget, receipts; the typo suggestions accepted so far. Operations: judge, search,
search for changes, decide; check a core, publish it, take it over. Correct when a
query is searched once, no suspicion is accepted without its search, and suggestions
never overlap.

**Cutting** (`app/chunking/chunk_splitter.py`, `app/retrieval/chunking.py`, the
setting grid of `app/validation/contracts.py`). Functions of a text. Correct when no
word is lost, slices are within their limits, and the cutting goes on.

**Set-up of the hosts** (`deploy/bootstrap-chat-runtime.py`). State: env files,
private state files, the running API container. Operations: prepare-ai, prepare-api,
activate-api under the lock of a host; edits of an operator without it. Hard: it may
break off between any two writes and is run again by every rollout. Correct when the
set-up ends as one undisturbed run would have ended it, with one secret, and what the
operator turned off stays off.

**Not to be modelled**: prompts and answer schemas, S3 and provider clients, SQL
ranking, monitoring, the health API, chat replay, the other deployment scripts,
evaluations. They are I/O, data or tools outside the running service (section 5).

`PROJECT.json` lists every component with its status, and under `hazards` what is
hard to test, each at its line with the properties that cover it.

## 2. Modules

| module | models | checked by |
| --- | --- | --- |
| `MeteringContract` | what a metered request promises, without tasks or messages | refined by `TokenMetering` |
| `TokenMetering` | `app/usage/metering.py` and the ledger's posts | `MCTokenMetering` |
| `TokenMetering_proofs` | theorems about `TokenMetering` | tlapm |
| `JobStages` | the ladder of checkpoints of one job | refined by `AnalysisJob` |
| `AnalysisJob` | the executions of one analysis job | `MCWorkers`, `MCAnalysisJob` |
| `AnalysisJob_proofs` | theorems about `AnalysisJob` | tlapm |
| `WorkerScheduler` | the loop of one worker process | `MCWorkers` |
| `CharacterComparison` | the comparison of a job's character facts | `MCWorkers` |
| `ValidationRunner` | the loop that claims and runs validations | `MCWorkers` |
| `ValidationLedger` | the usage ledger and the shutdown of one validation | `MCWorkers` |
| `ValidationRun` | the executions of one validation job | `MCValidationRun` |
| `ChatRuntime` | the chat process, its outbox and its restarts | `MCChatRuntime` |
| `RetrievalIndex` | the transactions of the index and the fill of a validation | `MCBackfillCampaign` |
| `BackfillCampaign` | the campaign over that index, extends `RetrievalIndex` | `MCBackfillCampaign` |
| `WorldWindow` | the world settings of a job, compared a window at a time | `MCExecutions` |
| `WorldRecovery` | the recovery of one rejected answer of it | `MCExecutions` |
| `RelationshipJob` | the workers of one relationship job | `MCExecutions` |
| `SourceExploration` | the answer of a chat question from the manuscript | `MCExecutions` |
| `QuestionJudging` | the judges of a validation and their searches | `MCExecutions` |
| `TypoBranch` | the typo branch over the executions of its job | `MCExecutions`, `MCTypoBranch` |
| `TextSlices` | how a text is cut, in three ways | `MCExecutions` |
| `HostBootstrap` | the set-up of the hosts | `MCExecutions` |
| `Hosts_proofs` | theorems about `WorkerScheduler` and `HostBootstrap` | tlapm |
| `Chat_proofs` | theorems about `ChatRuntime` and `SourceExploration` | tlapm |
| `ValidationRun_proofs` | theorems about `ValidationRun` | tlapm |
| `Inspection_proofs` | theorems about `ValidationRunner`, `ValidationLedger`, `TypoBranch` and `QuestionJudging` | tlapm |
| `Comparison_proofs` | theorems about `RelationshipJob`, `CharacterComparison`, `WorldRecovery` and `WorldWindow` | tlapm |
| `BackfillCampaign_proofs` | theorems about `RetrievalIndex`, `BackfillCampaign` and `TextSlices` | tlapm |

`MCWorkers` and `MCExecutions` are sums: a behaviour is one of their parts, chosen at
the start, and the others stay where they start. The parts share no state, so every
behaviour of each part is there. A part starts by a step without fairness, or its
fairness is asked only where it takes part, so that a sum demands nothing of a part
that stands still.

The modules meet at Spring's API. `WorkerScheduler` hands out jobs as
`AnalysisJob` sees them from inside; `AnalysisJob` and `ValidationRun` call
metered clients as `TokenMetering` sees them from inside; `ValidationRun` leaves its
judges to `QuestionJudging`, its typo segments to `TypoBranch` and its requests to
`ValidationLedger`. Each is checked with the
other side left free (a job may run for ever, a stage may raise at any point, a
call may be cancelled at every await), which is more than the other side does, so
that no module relies on what it leaves out.

An action is what happens between two awaits of a coroutine, a transaction step of
a thread, or one step of Spring, of the network or of the machine. Definitions
whose comment starts with "Mutant" are plausible bugs: put in the place of the
definition that follows, each breaks the property that guards against it.

### 2.1 TokenMetering

Per caller, `pc` is the await it is suspended at (`waiting` for the semaphore,
`reserving`, `calling`, `settling`, `failing`, `backoff`). `call[r]` is the task
that posts to the ledger for request `r`: the kind of entry it posts, how many
posts are left, its state and whether its caller has left it behind (`detached`,
the `asyncio.shield` of the code). `net` holds posts that Spring may process once
more or late; `ledger` is Spring's entry and `provider` what the worker learned.
`Reply` loses answers, `PostAgain` is the client's `range(3)` loop, `CleanUp` the
cleanup task that releases a reservation that came back after its caller was
cancelled (`_cleanup_cancelled_reservation`). Each `Cancel...` action is a `CancelledError` at one kind of await.
`Crash` is the end of the process.

### 2.2 AnalysisJob

A lease token names an execution. `exec[t].pc` is its position, with one position
per stage and one per report; `Call` is any HTTP call: applied and answered,
applied and its answer lost, or refused. `thread[t]` is the blocking-I/O thread,
which goes on when its execution is cancelled. In the ordered mode a transaction
takes Spring's job row under lock and compares mode, lease, checkpoint and source
(`WriteFenced`, `ordered_analysis_fence.py`) and is one action; in the other mode
nothing serialises two executions, so the delete and the commit are two
(`BeginUnfenced`, `CommitUnfenced`). `EditSource` is an author's edit. Spring's row
and the lease are external, taken from the calls and the documents.

### 2.3 WorkerScheduler

`loop` is the await at which `run_worker_loop` is suspended, `claim` the claim
under way, `active` the set `active_tasks` with finished tasks that have not been
pruned. `StartClaim`, `RunPayload`, `GiveBack`, `DropClaim`, `AllBusy`, `Resume`
and `Leave` are the ways through one iteration; `GraceExpires`, `Close` and
`CancelledTaskEnds` the drain. `Kill` and `Restart` are the container's.

### 2.4 ChatRuntime

`task[a]` is the entry of an attempt in `ChatRuntime.tasks`, `call[a][c]` one of
its provider calls, `reserved` is `_reserved_slots`, `rows` the SQLite table and
`flight` the reports the delivery loop is sending. The handler is any sequence of
at most `HandlerCalls` calls that ends in an answer, an oversized answer or a failure. Spring's attempts,
reservations and deadline are external. `handled`, `paid` and `stored` only record
history. The key of a row is the code's: a result is keyed by the attempt.

### 2.5 ValidationRun

An item is a planner segment, the merged plan, a question or a typo segment.
`work[e][i]` is what execution `e` does with it: calling the model, publishing,
publishing a failure, or over. A publication is a request in `sent` until Spring
handles it, which may be after its sender gave up, was cancelled or died; an
answer waits in `answers` if somebody still waits for it. `setting` and `typo` are
the positions of the two branches, `halt` the failure that stopped the dispatch of
judges, `gate` the `ExecutionGate`. Codes are CLEAN, QUESTIONS, FAILED and STOP:
the worker tells no others apart. `Alive` runs from the loaded checkpoint to the
`finally` block, which cancels the branches and drains the ledger.

### 2.6 ValidationLedger

One execution. `owner[r]` is a metered request of a branch, `close[r]` its post with
the chain of tasks behind it, `spring[r]` the entry. A post is answered, applied
without an answer, or lost. `gate`, `op` and `kids` are the execution gate, the
execution's own task and its branches; `closing` the steps of `aclose`. A drain whose
detached task failed raises before it marks the rest (`drain = "failed"`): requests may
then stay unreported, and Spring's sweep of lapsed leases is what is left. The lock of
a request is modelled although the order of the drain alone would do.

### 2.7 ValidationRunner

`cycle` is the await of the loop, `task[j]` a job's task, `worker` the state of the
worker that is closed under them. A failed claim or job only delays the next claim:
the delay is there, its length is not. A job may hang; a claim and the grace period
end. `GatherCancelled` is a second cancellation while the drain gathers. A stop
request during a claim does not take the claimed job back: it is started and drained,
as the code does. `--once` is one claim and one job without a loop and is left out.

### 2.8 RetrievalIndex and BackfillCampaign

A source has a version; a header and rows say which version they were cut from, and a
vector from which it was made. Every transaction of the store locks the work's row, as
Spring's edits do, and is one action; reading a text and calling the provider are not.
The fill of a validation works on the same rows and takes no advisory lock. The
campaign keeps `camp` in SQLite; `run` dies with its process. `paid`, `uncertain`
record what may have been charged. A version's text is abstracted to its number of
chunks. A page is a set of works, taken in the order of their `Position`. `MaxEvents` is one bound shared by edits, purges, archivals and resumes.

### 2.9 CharacterComparison

`batch` is the claimed batch, `run` the decisions made of it, `handling` what the
pipeline is asking for (a whole segment, the singles of an invalid one). A candidate
has a slot (its key and kind) and may be timed. `Independent` is the rule by which
valid decisions of an invalid answer are kept; as in the code, a *skipped* timed
candidate does not make the narrative time of later ones uncertain
(`character_fact_comparator.py:1003`). The ends of the segments still to come are a set
of positions. A batch has at least one candidate: Spring claims none that is empty. The endpoint for single candidates of older
backends is left out. Fairness is asked of the worker's own steps only.

### 2.10 WorldWindow and WorldRecovery

`world[c]` is what Spring knows of a setting, `spot` the step of the loop, and a batch
claimed ahead carries the decision made for it and whether its context still matches.
A reset that splits a batch claims only one of its parts again, so that the other is
compared after the batches read ahead (`overtaken`); if the resolution of a subject
fails for all candidates of its batch, a later batch may also be first. Both are in
the code, and the property allows for them. A claim whose answer is lost is offered
again (an assumption on Spring). `MaxResets` bounds what nothing in the code bounds:
there is no liveness here. `WorldRecovery` gives each row of an answer a footprint of
reads, writes and scopes out of a fixed set.

### 2.11 RelationshipJob

`analysis` is the row kept by the backend, `at[w]` the step of a worker. The backend
checks the lease of every save (external). The heartbeat is `AnalysisJob`'s; here it
may raise at any point. No liveness: leases may lapse for ever.

### 2.12 SourceExploration

Questions without registered settings and items, with the agent on. Time and the
provider's token limits are choices. The calls that the plan of the question took before
are a number `Enter` chooses: each was checked against both limits when it was made.
`Receipt` 2 and `ReadLimit` 3 scale down 60 chunks
of a receipt and 100 of a read; the guard kept for the last check is 1 call plus the
tail instead of 2. `RunRaises` is any failure or cancellation.

### 2.13 QuestionJudging and TypoBranch

A judge holds receipts; the corpus has a cache and an `asyncio.Lock`, which is FIFO. A
judge may pause between two searches, which the code does not do. What is published,
lost or cancelled is `ValidationRun`'s. The settings are fetched before the judges
start (`service.py:177`), so that their cache has no concurrent reader.

`TypoBranch` keeps offsets only. A suggestion belongs to the core it starts in and may
end in the context behind it. Spring is assumed not to refuse overlaps between
segments: no document says that it does.

### 2.14 TextSlices

A character is a letter, a wide character, a full stop, a space or a line feed; two
letters in a row are one token, so that counts do not add up, which is what the
retrieval splitter has to cope with: a slice has as many tokens as characters that begin
one (`Begins`, by the start of their run of letters) and wide ones, which have a second.
`SlicesAssumption` states that half a target is more than the overlap, which makes the
cutting go on, and that a window of letters holds half a target; with the constants of
`app/retrieval/chunking.py` these are 100 < 400 <= 6400. The loop over the paragraphs
(`ChunksOf`) takes the places where a line may end one by one. The setting grid is given
as cores; the context around a core only widens what is read.

### 2.15 HostBootstrap

`saved` and `env` are the files, written one after the other, `serving` the env of the
running container. `run[r]` holds what a rollout has read and when: the state and the
env that Compose rendered at the start, the text of the file later. A rollout breaks
off anywhere (`BreakOff`). The operator turns switches at any time, and `offs` records
what was turned off after the script had switched it on. An edit between the reading
and the replacing of a file is lost and not counted; in prepare-ai the pull of the
image and the preparation of the database lie in that window (`:448` to `:543`), so it
can be long. The operator does not change the secret in the model. `changes` is what `pendingChanges`
holds of interest, the secret and whether the chat is entered as closed; `Updated` is
`updated_env` on it.

## 3. Runs

| run | what it asks | instance |
| --- | --- | --- |
| `metering_shared` | permits, single close, contract, inductive invariant | 2 callers, 1 permit, 1 retry, 1 post each |
| `metering_posts` | lost, repeated and late posts; reservations close; callers end | 2 callers, 1 permit, 2 posts each |
| `workers` | five parts, below | below |
| `job_confirmed_duplicates` | finding 1 | 2 executions |
| `chat` | one handling, paid calls are recorded, answers stay, promised rows fit | 1 attempt, 2 dispatches, 2 calls, 2 starts |
| `chat_delivery` | a stuck report does not hold up the others | 2 attempts, batch of 1 |
| `chat_conflict` | finding 2 | 1 attempt, 2 dispatches |
| `validation` | outcome and publications agree, no repeat, silence after stop, ends | 2 segments, 2 questions, 1 typo segment, 2 executions |
| `typo_resumed` | finding 3 | 2 segments, 2 executions |
| `backfill` | vectors fit their text, the budget, no blind call, the campaign settles | 1 episode, 1 book, 1 fill, 2 events |
| `backfill_vectors` | finding 4 | the same |
| `executions` | nine parts, below | below |

The parts of `workers`:

| part | properties | instance |
| --- | --- | --- |
| `loop` | `SchedulerInv`, `StoppedStartsNothing`; `FreeSlotClaims`, `StopCloses` | 2 slots, 3 jobs, 2 starts |
| `job` | `OrderedKeepsOneRun`, `ComparedBeforeNextDomain`, `SavedRowsFrozen`, `StoppedWorkerStaysSilent`, `ImplementsStages`; `JobSettles` | 2 executions, 2 versions of the text, both modes |
| `character` | `BuiltOnWhatStands`, `SavedInv`; `ComparisonEnds` | batches of 4 and 2 candidates, 2 readings of a context |
| `runner` | `RunnerInv`; `RunnerEnds` | 2 slots, 3 validations |
| `validation` | `LedgerInv`, `HttpClosedLast`; `ShutdownEnds` | 2 requests, 2 cancellations |

`WorkersProgress` joins the liveness properties of the five.

The parts of `executions`, which has safety properties only:

| part | properties | instance |
| --- | --- | --- |
| `window` | `ClosedInTurn` | 3 settings, 1 reset |
| `recovery` | `RecoveryInv` | every rejected answer of up to 3 rows on 3 settings, 4 footprints |
| `relationship` | `ResumesFrozen` | 2 workers, 3 claims |
| `chat` | `WithinLimits`, `AnsweredStays` | a question of 3 parts, 2 answers, 12 tools, 9 calls |
| `judging` | `JudgingInv` | 3 questions, 2 judges, 3 searches, 7 calls |
| `typo` | `TypoInv` | a text of 5 code points in 3 cores, 2 executions |
| `text` | `SlicesCover` | every text of up to 6 characters |
| `ai_host`, `api_host` | `BootstrapInv` | 2 rollouts, each switch turned twice |

### 3.1 Bounds, and why they are enough

All safety properties are proved for every value of the constants (section 4); for those
the bounds below say only where the runs look for mistakes first. They matter for
liveness and for the mutants.

- *Metering.* The interleavings that matter are between a caller and its own
  detached task, and between two callers at one permit; callers share nothing
  else. One retry shows a second request id of one caller. Two posts show a
  repeated and a late one; retries are left out of that run because each attempt
  has a request id of its own and the first run covers their control.
- *Analysis job.* Two executions, a thread left behind by the first and an edit
  between reading and writing are what a fence has to withstand. 
- *Scheduler and validation runner.* Two slots and three jobs give a busy, a free and
  a contended slot; two starts show what a killed process leaves. Claims are unlimited.
- *Character comparison.* A batch of four is halved twice and has two slots with two
  candidates each; the second batch shows what the first one leaves behind.
- *Chat runtime.* Two dispatches are the original and one duplicate; two calls run
  concurrently. `MaxRows` is 3 so that the outbox is full in reachable states.
- *Validation.* Two segments can fail apart, two questions can be judged at once
  or one after a stop, one typo segment can fail beside them. Two executions show
  one takeover. `Overlap = FALSE` says that an execution is claimed when the one
  before it has ended (its requests may still be on their way): Spring refuses
  every request of an execution without the lease, so an overtaken one can change
  nothing, and its own course is explored with its lease expired. `Overlap = TRUE`
  multiplies the states by those of two independent executions; the safety
  properties hold there with one segment, one question and no typo segment, and are
  proved for both.
- *Ledger.* Requests share the gate, the drain and the closing only; two show one
  that is closing while the other is detached.
- *Backfill.* Two sources on one page and a batch of one chunk make every call a
  batch; an edit adds a chunk. A budget of two and runs of two chunks meet their
  limits. Two events suffice for an edit under way and a resume after it.
- *World window.* Three settings are one in hand and two ahead, the least for an
  order among those ahead. The chain of footprints in `WorldRecovery` makes a
  dependency of length three.
- *Chat answer.* The limits are small enough that every one of them is met in
  reachable states, and large enough that two answers fit.
- *Judging, typo.* Two judges share a query and wait for each other; three cores give
  a segment with neighbours on both sides.
- *Texts.* With windows of five, chunks of two to three and segments of two, six
  characters contain every boundary twice.
- *Hosts.* A second turn of a switch is an ON after an OFF. A rollout without the lock
  has no state, so two show all that any number of them do.

### 3.2 Fairness, and why the code justifies it

- The event loop runs every task that can go on (weak fairness of the steps of
  callers, tasks, loops and branches), and so do threads.
- Every HTTP request ends, by its answer or the client's timeout (weak fairness of
  the answers). Nothing forces an answer to be good.
- `asyncio.Semaphore` wakes its waiters in order, so a caller that waits again and
  again for a permit gets one: strong fairness of `Acquire`.
- A lease that nobody renews lapses (`LeaseExpires`, `AbandonedLeaseExpires`); one
  that is renewed may be renewed for ever.
- A report sent again and again is answered some day unless it is stuck: strong
  fairness of `Delivered` per report, which is what the retry of the delivery loop
  hopes for. The property then says that *other* reports cannot prevent it.
- The timer starts the backfill again and again, and a process that is not killed
  goes on; kills, edits and the operator's resume are not fair.
- No fairness for errors, cancellations, crashes, edits, stop requests or the end
  of a job. `StopCloses`, `RunnerEnds` and `FreeSlotClaims` hold although no job ever
  ends.

### 3.3 What the code does otherwise than documented

1. **A CONFIRMED_ONLY job can store its candidates twice**
   (`job_confirmed_duplicates`, `NoDuplicateCandidates`).
   `setting_candidate_service.py:176` says that a re-run replaces the candidates so
   that none is stored twice. The replacement has neither fence nor lock in this
   mode, and the thread of a cancelled execution goes on: the old execution deletes,
   the new one deletes the same empty set and commits, the old one commits, and the
   job succeeds with the rows of both. The ordered mode fences its writes; there the
   property is proved (`OrderedKeepsOneRun`).
2. **A stale failure report can displace the answer of the owner**
   (`chat_conflict`, `OwnersResultStored`). Rows of results are keyed by the attempt,
   and `put` refuses a second report for a key. If the first runner could not start
   and its failure still waits, the result of the runner that became the owner is
   dropped, and the attempt ends in a timeout. `docs/chat-execution-v1.md:100` says
   that the result of a wrong runner cannot override a new one.
3. **A published typo segment may never be taken over** (`typo_resumed`,
   `PublishedSegmentsResume`). A segment is published although an earlier one failed.
   When that one is checked again, its suggestion may reach through the context into
   the published segment, which is then refused as overlapping, now and in every
   later execution. The root `README.md:314` says that successful segments are resumed.
4. **A late failure report takes a finished vector away** (`backfill_vectors`,
   `VectorsKept`). `store.failed` updates the rows of its batch whatever they are by
   then, and the fill of a validation takes no lock against the campaign.
   `docs/retrieval-index-v1.md:50` says that finished vectors of the same text stay.

Two remarks that no run checks. A loop that leaves at `--max-iterations` drains as
after a stop request and cancels jobs that outlast the grace (the root `README.md:210` speaks of
termination signals only). And the lost edit of section 2.15: `docs/ai-logic-versions/details/v0014.md:68` says that a
manual OFF after the set-up is kept, which holds for edits outside the window.

## 4. Proofs

Every theorem and the property it states:

| module | theorem | property |
| --- | --- | --- |
| `TokenMetering_proofs` | `Invariance` | `IInv` |
| | `TypeCorrect` | `TypeOK` |
| | `NoPermitLeaks` | `PermitsConserved` |
| | `NoReservationForgotten` | `ReservationAccounted` |
| | `ProviderNeedsReservation` | `CalledOnlyWhenReserved` |
| | `ClosesOnce` | `CloseDecidedOnce` |
| | `MeteringRefines` | `ImplementsContract` |
| `AnalysisJob_proofs` | `TypeCorrect` | `TypeOK` |
| | `StagesAgree` | `StageInv` |
| | `StagesRefine` | `ImplementsStages` |
| | `StoppedStaysSilent` | `StoppedWorkerStaysSilent` |
| | `SavedRowsStay` | `SavedRowsFrozen` |
| | `CandidatesOfOneRun` | `OrderedKeepsOneRun` |
| | `ComparedFirst` | `ComparedBeforeNextDomain` |
| `Hosts_proofs` | `SlotsHold` | `SchedulerInv` |
| | `StopStartsNothing` | `StoppedStartsNothing` |
| | `BootstrapHolds` | `BootstrapInv` |
| `Chat_proofs` | `ReportsHold` | `ReportsInv` |
| | `OneHandler` | `HandledOnce` |
| | `PaidHold` | `PaidIsReported` |
| | `AnswersHold` | `StoredAnswerKept` |
| | `LimitsHold` | `WithinLimits` |
| | `AnsweredPartsStay` | `AnsweredStays` |
| `ValidationRun_proofs` | `TrueReport` | `ReportIsTrue` |
| | `PublishedOnce` | `NothingPublishedTwice` |
| | `DecisionsHold` | `DecisionsStay` |
| | `StoppedHold` | `StoppedIsQuiet` |
| `Inspection_proofs` | `RunnerHolds` | `RunnerInv` |
| | `LedgerHolds` | `LedgerInv` |
| | `ClientClosedLast` | `HttpClosedLast` |
| | `TypoHolds` | `TypoInv` |
| | `JudgingHolds` | `JudgingInv` |
| `Comparison_proofs` | `TakeoverHolds` | `ResumesFrozen` |
| | `DecisionsBuilt` | `BuiltOnWhatStands` |
| | `SavesHold` | `SavedInv` |
| | `RecoveryHolds` | `RecoveryInv` |
| | `TurnsKept` | `ClosedInTurn` |
| `BackfillCampaign_proofs` | `IndexHolds` | `IndexInv` |
| | `NothingCalledBlindly` | `NoBlindCall` |
| | `SlicesHold` | `SlicesCover` |

`tlapm` checks the eight proof modules from nothing. They assume only the named
assumptions that the modules state of their constants (`MeteringAssumption`,
`JobAssumption`, `SchedulerAssumption` and so on), which TLC evaluates in the runs. Most
say that a number is one, that a set is finite or that two names differ. Those that say
more: a judge is allowed its three calls (`JudgingAssumption`), no text is without chunks
(`IndexAssumption`), the campaign's order lists every source once (`CampaignAssumption`),
no batch is empty (`BatchesAssumption`), and the two relations between the target, the
overlap and the window of a retrieval slice (`SlicesAssumption`).

Each invariant is proved the same way: an inductive invariant, which TLC confirmed on the
instances of section 3 first, holds at the start and is kept by every action, one lemma or
one step of the proof each.

**TokenMetering.** `IInv` is inductive: types; `PermitsConserved`; `Fresh`
(attempts not begun are untouched, so a new request id is new); `Phase` (what a
caller may rely on at each await); `Closing` (a close in the worker, on the wire or
in the ledger is the one the provider's report justifies); `Acknowledged` (nobody
acts on a reservation that Spring has not made); `Owned` (a reserve that runs in
its caller has that caller waiting); `ReservationAccounted`. The last alone is not
inductive: that a caller leaves its request only with a task to close it needs to
know which task is running and for whom. `HoldersStep` and `PermitMoves` count
permits by the cardinality of the holders; `Frame` reduces a step to the one
request it touches. From `IInv` follow the type invariant, the conservation of
permits, that provider calls have a reservation, that no open reservation is
forgotten, that a close is decided once, and the refinement of
`MeteringContract` (`MeteringRefines`), step by step, with the semaphore, repeated posts
and lost answers as stutters.

**AnalysisJob.** Types first (`TypeCorrect`). `StageInv` relates the execution
under the lease to the job's row: the checkpoint is the later of the one it resumed
from and the last it passed. Without it a report could skip a stage or repeat one;
with it every step maps to a step of `JobStages` or a stutter (`StagesRefine`).
`StoppedHasEnded` gives `StoppedStaysSilent`. `FenceInv` (nothing is half done
under the fence, and one execution's rows stand at a time) gives `SavedRowsStay`
and `CandidatesOfOneRun`; the latter speaks of the ordered mode only, for finding 1
shows it false in the other. `ComparedInv` adds to the row what the execution under the
lease knows: past a comparison, that domain is terminal in the row, and the execution that
recorded a failure is on its way out. It needs `StageInv`, for a takeover resumes behind a
comparison only at a checkpoint that the row confirms.

**Scheduler.** `SchedulerIInv` adds to `SchedulerInv` that a task at work is in
`active_tasks`, that only a claim under way has a state, and that slots and tasks still
fit when the tasks are cancelled and no slot is waited for any more. `TasksMove` counts.

**Set-up of the hosts.** `BootstrapIInv` has four parts. The lock: who is at work on a
host holds it, and on the API knows the saved state. The services: a file that was
switched on carries its marker, and a run that will still replace it has read a text that
agrees with it but for the operator's edits. The API: the saved changes, the env and the
container fit together: while changes are due the env has either no secret or the one
that is saved, a restart is due or the container has what the env has, an activation in
the env is the saved one. The runs: where each of them is, in these terms. The secret is
one because it is saved before it is written, and a run that finds the marker makes none.

**Chat runtime.** `ChatIInv`: rows are told apart by their keys and stay while they are
sent (`RowsInv`); runner ids grow and only the owner handles (`OwnersInv`); a result is
left at the end of its runner (`ResultsInv`); where a call is, against Spring's
reservation and the rows (`CallsInv`); a release is of an unpaid call (`UnpaidInv`); every
task and call at work has a promised slot, and rows and promises stay within the limit
(`SlotsInv`); a stored answer has its row or Spring has it (`AnswersInv`). The parts need
each other: a row may be put only into a promised slot, and a slot is given back only by
whoever has put its row. `PaidInv` follows a paid call to its report.

**Chat answer.** `LimitsKept`: the tools that remain register everything read and finish
the answer (`ToolsKept`), and the calls that remain are those promised to a step, a group
of extractions or a draft (`CallsKept`). A check made ahead is a promise; the invariant
says what is left of it at each later step. `AnsweredPartsStay` follows from `MergeKeeps`.

**ValidationRun.** `RunIInv` relates three views: what an execution has done with each
item (`LocalInv`), the requests on their way (`WireInv`) and Spring's row (`JobInv`).
`HolderInv` and `KnowsInv` say of the execution that holds the lease that what it believes
of an item is what Spring has or will have: an item it has not begun is neither stored nor
on its way. `PublishedOnce` is that, `TrueReport` adds `Says` of a complete under way. Both
hold whether executions overlap or not.

**Validation: runner, ledger, typo, judges.** `RunnerIInv` adds where a slot is free.
`LedgerIInv`: every reservation and every closing post has somebody who waits for it, the
coroutine or a task the drain knows (`RequestInv`), and the shutdown's steps come in
order (`ShutdownInv`). `TypoIInv`: what the execution has not come to stands as loaded, and
what it accepted is what Spring has of the segments it is done with; disjointness needs
that a suggestion starts in its own core. `JudgingIInv`: the lock's queue and the waiting
judges are the same, who searches has found no result of its query and no other will
before it, each receipt names the search that found it, and a judge's calls are counted
against the search for changes, which the third call presupposes.

**Comparisons.** `RelationshipIInv`: what a worker may rely on while it holds the lease.
`CompareIInv`: the first candidates of a batch are decided or failed once each
(`HandledBy`), a decision is kept only with all before it on its slot (`KeptTogether`),
and each was made on those before it (`BuiltBy`), so that a segment that is cut, rejected
or kept in part leaves the rest what a whole answer would have left.

**Recovery of an answer.** A component is the intersection of the closed parts around a
group, so that two components are the same or nothing in one depends on anything in the
other (`ComponentOne`, `ComponentsApart`; that a dependency is mutual is needed).
`RecoveryIInv` adds to that: groups have numbers of their own; until the rows agree a row
shares sources with rejected rows only, and later with none; sources that wait for a
second comparison had none; and what was tried is part of a failed group's footprint, as
only a failed group's footprint grows. Most steps change the grades of groups alone
(`GradedKeep`) or replace one group (`RetryStep`).

**World window.** The batches claimed stand in a line, `Turns`: the one in hand, those
joined for one call, those that wait. `LineFits`: together they hold exactly what is
claimed, each setting once, and before a batch come all earlier settings that are not
closed, but for the overtaken ones and those taken back by a reset. A step puts a batch
behind the line or in front of it, takes the front off, or changes settings at the front
(`FrontOfLine`, `FrontLeaves`, `AppendFits`); a claim takes the first batch that is open
(`NextBatchFacts`). `FatesFit` says which fates there can be at each step of the loop:
what a reset claims again is open, so that nothing claimed is claimed twice.

**Segments.** Between two multiples of a window's width lies `k / n` of the text, so the
place of a cut is in its window (`CutWindows`), a window ends where the next begins
(`WindowsMeet`), and two neighbours are together no longer than two units
(`WindowLengths`). Each cut is in its own window (`CutFacts`), so the bounds ascend.

**Retrieval slices and chunks.** What a loop computes for every text needs induction over
the text. The library's induction rules take an operator, so two lemmas on sets stand in
for them: `UpTo` (of the numbers that are not in a set there is a least one) and
`Recursion` (a function whose value at each place follows from that at one smaller place
exists; the loops of the model are such functions, `LoopFacts` and `ChunkLoop`).
For slices: one more character adds at most two tokens and never takes one away
(`TokensStep`, `TokensGrow`); the bisection keeps a lower end that fits and an upper one
that is one too far or the end of the window (`FilledFacts`), so a slice that is not the
last has half a target (`EndFacts`); as that is more than the overlap, the next slice
starts inside this one and ends behind it (`NextFacts`). `Sliced` says what holds of the
slices from a place on, and each slice in front of others keeps it (`SliceInFront`).
For chunks: `ChunksSoFar` says what holds of the chunks of the lines up to a place. That no
short chunk is followed by a paragraph that would have fitted is not inductive alone:
`LoopState` adds that the last chunk is not short while nothing is collected. A paragraph
puts its pieces behind the chunks (`MorePieces`) or makes the last one longer
(`LongerChunk`); the pieces of a long one are never short, as no other paragraph starts
inside it (`LinesApart`).

**Index and campaign.** `BackfillIInv`: rows of a header are of its version and ready
ones have its vector (`IndexFits`); a reserved batch is admitted but not paid
(`MoneyHolds`); the marker stands from the reservation until the usage is known
(`MarkerHolds`), so that a crash cannot hide a call.

**Only model-checked.** Everything temporal beyond invariance (`CallersEnd`,
`ReservationsClose`, `WorkersProgress` with its parts, `ReportsLeave`, `RunsEnd`,
`CampaignSettles`): liveness and ENABLED are out of the prover's reach.
The four properties of section 3.3 are false.

## 5. Not modelled

Within the modelled parts:

- Prompts, answers, texts, offsets and prices: data that no property tells apart.
  An invalid answer is one of the ways a call fails.
- Metering: the estimate of tokens, Retry-After, embedding batches (each is one
  request).
- Analysis job: setting books, embeddings and retrieval preparation are stages that
  may raise; a comparison inside a stage is one step with a result, opened up by
  `CharacterComparison` and `WorldWindow`.
- Chat runtime: a failing disk, the expiry of usage rows a day after the deadline, and
  unbounded dispatch of new attempts. Rows never sent sort before rows sent once, so
  with more new reports than a batch holds, for ever, a retry waits until it expires.
- Chat answer: the plan of a question, the lookups of registered settings, the fixed
  rounds used without the agent, answers per item.
- World settings: how one subject is resolved and cached.
- Hosts: the check of values, the database role, network rules.
- Spring's own rules beyond what the workers' code and documents say of them.

Whole components, and why:

- *Evaluations and experiments* (`evals/`, `scripts/validation_experiment` and others),
  about half of the lines of the repository: offline, sequential programs that
  measure answers and share no state with the service. Their contracts are about the
  content of answers and reports.
- *Extraction pipelines' pure logic, prompts and schemas*: text matching and validation
  of one answer. What they compute depends on names and sentences; a model would
  either restate the code line by line or say nothing.
- *Retrieval search*: read-only SQL and ranking; what it returns is a free choice here.
- *Provider, Spring and S3 clients, repositories, mappers*: I/O. Their failures are
  actions of the modules that call them.
- *Monitoring, health API, chat replay*: no control flow reads their state.
- *`manage-ai-runtime.py`, `bootstrap-chat-aws.py`*: they check configurations and call
  Docker and the set-up in sequence, without a state of their own.

## 6. Status

All modules of the plan are there, each is checked, and every safety property is proved;
liveness is model-checked (section 4). What is left is breadth: the parts of section 5.
