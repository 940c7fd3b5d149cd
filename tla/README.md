# Verification of plast-mem

TLA+ models of plast-mem, checked with TLC on small instances and proved with
TLAPS for every instance. plast-mem is a memory service for LLM applications:
conversations are appended over HTTP, cut into episodes by a background worker
and distilled into episodic and semantic memory. What can go wrong is mostly
between the transactions: every piece of work is a PostgreSQL transaction, a call
of a job queue (apalis-postgres) or a call of an LLM that takes seconds to
minutes, and requests, workers, retries and crashes interleave there.

## Inventory

### Components, their state and their operations

| component | source | state | operations |
|---|---|---|---|
| message ingestion and claims | `crates/core/src/message_ingest.rs`, `segmentation_state.rs`, `crates/server/src/api/add_message.rs` | `conversation_message`, `segmentation_state` (one row per conversation: last message, end mark, cursor, lease) | append, batch import, recover a stale lease, claim, commit, abort |
| segmentation worker | `crates/worker/src/jobs/event_segmentation.rs` | `episode_span` | validate the claim, review, commit a plan, enqueue episodes, reviews and follow-ups, abort |
| segmentation policy | `crates/event_segmentation/src/batch_segmentation.rs` | none | rule boundaries at time gaps, bucket review, boundary review |
| job queue | apalis-postgres, set up in `crates/worker/src/lib.rs` | `apalis.jobs` | push, fetch, acknowledge, retry, re-enqueue |
| episode creation | `crates/worker/src/jobs/episode_creation.rs` | `episodic_memory` | find or insert the episode of a span, enqueue its consolidation |
| memory review | `crates/worker/src/jobs/memory_review.rs`, `crates/core/src/pending_review_queue.rs` | `pending_review_queue`, FSRS fields of `episodic_memory` | record a retrieval, take the pending reviews, rate and update |
| semantic memory | `crates/worker/src/jobs/predict_calibrate.rs` | `semantic_memory`, `consolidated_at` | extract actions, normalise them, apply them, mark the episode |
| retrieval | `crates/server/src/api/retrieve_memory.rs`, `recent_memory.rs` | none (writes a pending review) | queries |
| benchmark status | `crates/server/src/api/benchmark.rs` | none | recover a stale lease, decide `done` |
| LLM client | `crates/ai/src` | none | requests with a bounded number of attempts |
| benchmark runners | `benchmarks/locomo`, `benchmarks/longmemeval` | checkpoint files | import, wait, evaluate, resume |
| TypeScript client | `packages/plastmem/src` | per client: configuration, arrays of interceptors; per call: its options; per stream: buffer, last event id, attempts | merge configuration and headers, credentials, write addresses, run interceptors, read answers, follow an event stream |
| example application | `examples/haru/src` | working memory, request history, debug panel; `.env` | send, `/clear`, `/reset`, `/debug`, `/exit`, keys of the panel, start |
| schema, shared types | `crates/migration`, `entities`, `shared` | none of their own | |

### How they interact

A request appends messages and, in a second and third transaction, recovers an
expired lease and claims the pending range if a trigger holds. It then pushes an
`EventSegmentationJob` that carries the claim. The worker checks that the lease is
still the job's, reviews the messages with an LLM, and commits spans and a new
cursor in one transaction that checks the lease again. After that, and outside the
transaction, it pushes an `EpisodeCreationJob` per span, takes the pending reviews
and pushes a `MemoryReviewJob`, and claims again if the cursor moved. Episode
creation inserts an episode under an id derived from the span and pushes a
`PredictCalibrateJob`, which turns the episode into changes of the fact table. The
only locks are row locks within one transaction; what outlives a transaction is
protected by the lease and its two-hour time to live. The benchmark runner polls
`done`, which looks at the cursor, the lease and the job table. The applications are
TypeScript programs over the generated client: within one process nothing runs in
parallel, but every `await` lets other calls, renders and key strokes run.

### What is hard, and what correctness means

* **Segmentation.** Late, duplicated and interrupted jobs; requests that die
  between claim and push; leases that expire under a busy worker; an end mark and
  messages that arrive during the LLM calls. Correct: the spans tile the log up to
  the cursor, a lease is ended by its holder or by its expiry, the tail stays open
  until the end is marked, all work is eventually done, the end mark is honoured.
* **Episodes.** Redelivery and crashes between insert and push. Correct: one
  episode per span, every informative one is consolidated, `done` means done.
* **Reviews.** Reviews are taken before they are pushed, and FSRS states are read
  long before they are written. Correct: no review is lost or applied twice.
* **Facts.** Several consolidations run at once on snapshots. Correct: no duplicate
  active facts, no revival of an invalidated one, no lost source.
* **Policy.** Boundaries at the exact thresholds. Correct: the reviewed segments
  tile the claim and never join messages across a hard boundary.
* **Client.** Calls that overlap and share configuration, query objects and
  interceptors; streams cut anywhere and reconnected. Correct: a call is sent as it
  was made, the server reads back what was passed, a failure does not look like a
  success, a stream delivers the server's events whole, once and in order.
* **Example.** Sends that overlap with each other and with `/clear` and `/reset`;
  a `.env` that is rewritten in each run and read by another parser. Correct:
  replies stay with their questions, settings survive.
* **Runners.** A crash between import and checkpoint. Correct: a resumed run
  evaluates each sample once, on one conversation.

PROJECT.json lists the hazards line by line with the properties that watch them.

## Modules

| module | content |
|---|---|
| `SegmentPlan` | segments, the segments a set of cuts makes of a range, `build_commit_plan`, and what it means to tile a range |
| `ConversationLog` | abstract specification: an append-only log and a finalized prefix that grows by tilings |
| `Segmentation` | the segmentation pipeline of one conversation |
| `MCSegmentation` | its instances for TLC, `MCSegmentation*.cfg` |
| `EpisodePipeline` | from committed spans to consolidated episodes, over both queues |
| `MemoryReview` | from a retrieval to updated FSRS states |
| `SemanticMemory` | the fact table under concurrent consolidations |
| `EventStream` | abstract specification: the reader of an event stream gets a log in order |
| `ServerSentEvents` | `createSseClient` |
| `RequestUrl` | the serializers of paths and queries, and how a server reads them |
| `HttpClient` | `createClient`: the calls in flight at a client |
| `Haru` | the terminal chat and its `.env` |
| `MCMemoryReview`, `MCSemanticMemory`, `MCServerSentEvents`, `MCHttpClient`, `MCHaru` | their instances for TLC; `EpisodePipeline` needs none |
| `SequenceLemmas` | induction up to a number, definitions by recursion, sequences by their elements |
| `SegmentationProofs` | the plan of every set of cuts tiles the claim; types, safety and refinement of `Segmentation`; why the worker's old copy of the end mark does no harm; without failures a lease has one carrier |
| `EpisodePipelineProofs` | types of `EpisodePipeline`; no span stranded, `done` means done, repetitions are paid by faults |
| `MemoryReviewProofs` | types of `MemoryReview`; spacing, completeness and accounting of reviews |
| `SemanticMemoryProofs` | types of `SemanticMemory`; episodes count once, no revival; without overlap no duplicate and no lost source |
| `ServerSentEventsProofs` | refinement of `EventStream` by `ServerSentEvents`; pauses grow |
| `HttpClientProofs` | types of `HttpClient`; outcomes tell the truth, interceptors run once and in order, requests are the calls' own; a query is read back |
| `HaruProofs` | types of `Haru`; replies and requests have their questions; settings survive |

### Segmentation

*State.* `lastSeq`, `eof`, `nextStart`, `active` are the columns of the
conversation's `segmentation_state` row (`active` is the lease, `NoClaim` when the
columns are null), `expired` says that `active_since` is older than the time to
live, `gaps` are the messages that follow their predecessor after 30 minutes or
more, and nothing else of a message matters. `spans` is `episode_span`,
`episodeJobs` the spans an `EpisodeCreationJob` was pushed for, `jobs` the rows of
the segmentation queue with the worker that holds each. `pc`, `why`, `held` and
`run` are the program counter and the local variables of requests and workers.
Conversations share no row, so one conversation shows everything; messages of
other conversations only delay.

*Actions.* One action per transaction or queue call; whatever happens between two
of them may interleave, fail or be cut off.

| action | code |
|---|---|
| `AppendMessage`, `ImportBatch`, `ImportEmptyBatch` | `ingest_messages` up to its commit; a single message never marks the end, a batch always does, an empty batch writes nothing |
| `Recover`, `StatusPoll` | `recover_stale_segmentation_job`, from `try_claim_segmentation_job` and from the status query |
| `TryClaim` | `claim_segmentation_job_if_ready` |
| `PushJob` | the push after it, by a request or `try_claim_and_enqueue_segmentation_job` |
| `Validate` | `validate_claim_or_recover`, an unlocked read |
| `Commit` | the review stages, `build_commit_plan` and `commit_segmentation_job`; refused when the lease is another's, when the next start is out of range, or when a span with that start exists |
| `EnqueueEpisodes`, `EnqueueReviews` | the calls after the commit, with the follow-up decision |
| `Abort` | `abort_segmentation_job`, then a claim attempt |
| `TryClaimFails`, `LoadFails`, `ProcessingFails`, `AbortFails` | the `?` on each call: what the caller does with the error is in `Resume` |
| `Fetch`, `Ack`, `Retry`, `GiveUp`, `ReenqueueOrphan`, `ReenqueueStalled` | apalis-postgres (external): at-least-once delivery; a result of a worker that lost the job is ignored |
| `RequestCrashes`, `WorkerCrashes` | the task or the process ends; the rows stay |
| `LeaseExpires` | two hours pass for the lease: by itself when nothing works on it any more, as a fault when something still does |

The review stages may settle on any cuts of the claimed range. That is more than
they can do; that their segments tile the range, whatever the cuts, is what `SegmentPlan`
states. Reading the state and then the messages in the worker is one step, since the
messages of a claimed range never change.

*Abstract specification.* `RefinesLog` says that without leases, jobs and failures
the pipeline is `ConversationLog`; the mapping is the identity on `lastSeq`,
`nextStart` and `spans`.

### EpisodePipeline

*State.* `class` is the classification of a span whose `EpisodeCreationJob` was
pushed, `episodes` the row of `episodic_memory` under the id derived from the span
and whether `consolidated_at` is set, `jobs` the rows of both queues. `pc` and
`exec` are an execution of either job and what it remembers (whether it found the
episode consolidated). `applied`, `erred` and `givenUp` are history.

*Actions.* `EnqueueEpisode` is the end of `Segmentation`'s `EnqueueEpisodes` for a
span. `FindEpisode`, `CreateEpisode` and `EnqueuePredictCalibrate` are
`process_episode_creation`: a lookup, LLM calls and the insert, which the primary
key refuses when another execution was first, and the push, for informative
episodes that were not seen consolidated. `CheckEpisode`, `ApplyActions` and
`MarkConsolidated` are `process_predict_calibrate`: the lookup with the extraction
(no action extracted goes to the mark at once), the transaction of
`consolidate_actions`, and the mark, which is no part of that transaction.
`JobFails` is the `?` on each of these calls, before it takes effect; an effect
whose answer is lost is a crash after it. The rest is the queue, as in
`Segmentation`; a failed job waits for its retry as `Pending` or as `Failed`, since
the queue's version decides and the code relies on neither.

Left out: the early returns for a span that is missing or has another end, and for
a missing episode. Spans are never changed or deleted and a `PredictCalibrateJob`
is pushed after the insert, so that a job of this pipeline cannot meet them.

### MemoryReview

*State.* `queue` is `pending_review_queue`, `rows` the FSRS state of each episode.
That state is a function of the reviews it was computed from, so a row is the
sequence of their times, the last of which is `last_reviewed_at`. `taker` is a
segmentation worker in `enqueue_pending_reviews`, `jobs` the review queue, `exec` an
execution with the models it loaded, `now` the clock. `overlapped`, `settled` and
`lost` are history.

*Actions.* `AddPendingReview` is the one write of a retrieval (`fetch_memory`).
`LockPending` and `ConsumePending` are the transaction of
`take_pending_review_items`: `FOR UPDATE` makes a second taker wait and then find
the rows consumed, hence the guard. `PushReviewJob` stamps `reviewed_at` and pushes.
`LoadMemory` reads one row and applies the stale and the same-day filter,
`RateMemories` is the LLM call, `UpdateMemory` one `active_model.update` without a
transaction around them, `FinishReview` the end of the job. Ids the model invents or
repeats are skipped by the code and change nothing. The queue is that of
`EpisodePipeline`, except that a failed job waits as `Pending` only: nobody looks.

### SemanticMemory

*State.* `facts` is `semantic_memory`, a fact being its meaning, whether it is
invalidated, and its `source_episodic_ids`; near-duplicates are facts of equal
meaning. `exec` holds the snapshot and `current_active_map` in one (`known`), the
normalized actions left, and the rows the open transaction has written.

*Actions.* `Begin` loads the related facts, the best `FactLimit` of them. `Extract`
lets the model propose any actions and normalizes them; those kept per target come
in any order, as from the code's `HashMap`. `NextAction`, `InvalidateTarget` and
`StoreFact` are the statements of the transaction, which sees what other
transactions have committed meanwhile (READ COMMITTED) and waits for their row
locks; `Commit` and `MarkConsolidated` are separate transactions. An action strengthens a
fact from the row it was loaded as, or found as by the query for duplicates, never from
the row as it is by then (`known`). A deadlock between
two transactions is broken by PostgreSQL, which is one of the failures of `Fails`.
The queue is left to `EpisodePipeline`: an episode may be executed at any time as
long as it is not marked.

### ServerSentEvents

*State.* The variables of the generator (`attempt`, `retryDelay`, `lastEventId`,
`buffer`, `chunks`) and `pc`, the place of its next `await` or `yield`; `wire` is
what the server has yet to send on this connection. Text is a sequence of whole lines
and line ends: a chunk may end anywhere between two of them, and a line in two chunks
is put together again by the buffer and needs no case of its own. The replacement of
line ends and `split('\n\n')` are scans from left to right, like the code's, written as
recursive functions (`NormalizeLineEnds`, `SplitAtBlankLines`); the pieces of a split are
the finished ones, `whole`, and the unfinished one, `rest`, that `chunks.pop()` puts back.

*Actions.* One per stretch between two awaits. `Receive` cuts a chunk of any
length, normalizes and splits it; `Dispatch` handles one event, `DispatchRejected`
one that a validator or transformer refuses, after its id and delay were taken over.
`ServerCloses` ends the stream for good, as in the code, and `ReadAborted` may end the
read as done or as failed. The server (external) answers a request with everything
after `Last-Event-ID`.

*Abstract specification.* `RefinesStream`: the client implements `EventStream`, with
`lastEventId` for the last event handed over or skipped, the deliveries as the
events they are the data of, and `pc # "finished"` for an open stream.

### RequestUrl and HttpClient

`RequestUrl` is pure: the separators, the three serializers, the query serializer
with its per-parameter options, the path template with every form of placeholder,
`getUrl`, and the other direction, `QueryReads` and `PathReads`, as OpenAPI defines
the styles. Text is a sequence of words, the characters with a meaning in addresses,
and placeholders. `Unreadable` names the values that a style has no way to write: a
"." in an array or object in an exploded label (`encodeURIComponent` leaves it alone), a
space in a `spaceDelimited` array, a date in a label or matrix, which the code writes
bare, and an empty array or object. Names and keys, which the code does not encode, are the
program's own and hold no character with a meaning in an address; null elements of arrays
are not modelled.

*State of HttpClient.* `config` is `_config`, `queries` the caller's own query
objects, `arrays` and `fns` the arrays of interceptors as objects with identity
(`clear` replaces the array, the other operations change it in place). A call has its
options, merged headers, position in a loop, what was sent and how it ended.

*Actions.* `beforeRequest` to the first await; per security scheme
`setAuthParamsSkips`, or `setAuthParamsAwaits` (the check, then the auth callback) and
`setAuthParams` (the write, an await later, over whatever is there by then);
`BuildRequest` to the request, then `RunInterceptor` per interceptor, `FetchAnswers`,
`ReadData`, `ReadError` and the ends of the loops; `BeforeRequestThrows`,
`InterceptorThrows`, `FetchFails` and `ReadThrows` are the ways out. `setConfig`,
`use`, `eject`, `update` and `clear` are the application's. A stream shares
`beforeRequest` and runs the request interceptors per connection; one that throws makes
it connect again. The check for a credential is the code's: a value of the query counts
if it is truthy, a cookie if `name=` is anywhere in the header, at the end of another
name too (`Within`).

### Haru

*State.* `memory` is `messagesRef` and `messages`, `history` the request history,
`panel` the state of the debug panel, `sends` the sends under way with the
conversation of the render they were called from, `log` the server's conversations,
`file` and `shell` the environment between runs, `given` (history) `.env` as the user
wrote it.

*Actions.* `Start`, `Exit`; the commands `Clear`, `Reset`, `Debug`; a send as
`Send`, `PostQuestion`, `Ask`, `Reply` (or `ReplyIsBlank`, `GenerationFails`) and
`PostAnswer`; the keys of the panel. A post that has left may arrive after its
process ended. `Reset` is one step: the render between the new id and the effect that
clears is not told apart. `Saved` and `Parsed` are the writer and the parser of
`dotenv-storage.ts`, `Loaded` is Node's `loadEnvFile` (external), of which the two read
a comment behind a value, an open quote and a quote inside differently. A quote is any of
the quotes; values over several lines, `\n` in a value and edits of the user between
two runs are not modelled.

## Runs

| run | instance | shows |
|---|---|---|
| `segmentation_safety` | 1 request at a time, 2 workers, 3 job rows, 3 messages, 1 fault | type invariant, tiling, leases, the open tail, refinement |
| `segmentation_liveness` | the same without faults and empty batches, `FairSpec` | leases end, spans reach the episode queue, the queue drains |
| `end_mark_lost` | the same | violation, see below |
| `follow_up_lost` | the same, `Spec` | violation, see below |
| `episodes_lost` | 1 worker, 2 messages, 1 fault, `FairSpec` | violation, see below |
| `episodes` | 1 span, 2 executions, 5 job rows, 2 attempts, 3 faults, `FairSpec` | a fault repeats at most one consolidation; what comes after the mark repeats none; an informative span keeps a job until it is consolidated; without errors `done` means consolidated |
| `memory_review` | 2 items of two and one memory, 2 takers, 2 executions, a day of 2 ticks, 3 ticks, 2 faults, 2 attempts, `FairSpec` | items have one holder and settle; review times stay a day apart; a sole job undoes and forgets nothing |
| `semantic_memory` | 2 meanings, 3 rows, 2 episodes, 2 executions at a time and 3 in all, 2 actions each | no revival, an episode counts once; without overlap no duplicate and no lost source |
| `sse_stream` | 3 events, line ends LF or CR, 2 failing requests or connections, retry limit 2 or none, `FairSpec` | refinement of `EventStream`, growing pauses, aborts end, streams catch up |
| `sse_line_ends` | the same with CR LF | violation, see below |
| `http_client` | 16 workloads of one or two calls, 4 query objects, 1 change of configuration or interceptors, 1 failure | calls are sent as made, parameters are read back, outcomes tell the truth, interceptors run once |
| `haru_chat` | 3 runs, 3 kinds of `.env`, 2 sends of sizes 1 and 2, budget 3, 2 ids, 1 failure | replies follow their questions, requests have theirs, the conversation and the settings go from run to run, the panel's index |

*Bounds.* `MaxMessages` 3 is the least with a claim of two messages, a segment to
finalize and one to carry over, and a message that comes during the lease;
`PendingTrigger` 2 stands for 20 so that the count, a gap and the end each trigger
alone. Two workers are one that is late and one that replaces it (concurrency is
1, so these are two server processes, or one before and after a restart). Three
job rows hold the job of the lease, a duplicate and a follow-up. One request at a
time is no restriction of order: workers and status queries claim, recover and
push beside it, and requests are short. `MaxFaults` bounds crashes, errors, stalls
of a worker and expiries of a lease in use; expiry of an abandoned lease, giving up
on a job and redelivery of an orphan are free. One fault reaches the interesting
states (a late commit after expiry, a duplicate job after a stall); two faults
with two messages were checked as well and are only left out for their length.
Requests and workers are interchangeable and the invariants do not name any, so
symmetry is used for the safety run only.

For `EpisodePipeline` one span is enough: spans share nothing but the slots, and two
executions are two deliveries of its jobs. Five job rows never block for good: a slot
that pushed frees the row of its own job next. Two attempts make giving up reachable,
three faults a crash in a repetition of a repetition.

For `MemoryReview` the second item names one memory of the first, so that two jobs
meet on a memory and not on the other; three ticks with a day of two leave room for a
review that is due, one that is too early and one that is late. For `SemanticMemory`
three executions of two episodes are a repetition and a concurrent job; two actions
make one target named twice, a duplicate within an answer, and an update onto another
fact; a snapshot of two facts can be cut. Slots, episodes and meanings are
interchangeable there, and symmetry is used; all its properties are about safety.

For `ServerSentEvents` the log has an event of two lines, one that changes the delay
and has no data, and one that a validator may refuse; the pauses, 3000 doubled and
capped at 10000, reach the cap. Delays are exact numbers: the code's `2 ** (attempt - 1)`
becomes infinite after 1024 attempts, where the cap holds, or a delay of 0 pauses for
`NaN`, which a timer takes for 0. For `HttpClient` the workloads cover each style of
parameter and placeholder, dates, zeros, empty values and values with separators in them,
credentials in header, query and cookie, and with and
without names, each kind of body, and answers of each kind; one change hits every
await. One workload has two calls that share a query object and want a credential of the
same name in it, where an empty value stands already. For `Haru` three runs are a first
one, which may rewrite the user's `.env`, one that reads what was rewritten and rewrites it,
and one that reads that; `.env` has values that need quotes, that have a comment behind
them, that open a quote and that have one inside. The budget holds both questions but not a
reply as well, the history of two requests is full, and a failure is one lost post or one
failing generation.

*Deadlock* is not checked where the system may stop: every span may be done, every
call settled, every stream ended, the bound of runs reached.

*Fairness.* `FairSpec` of `Segmentation` assumes that a request in flight goes on,
that a worker that has a job or may fetch one goes on, and that the queue re-offers an
orphaned job. These are what the async runtime, the polling worker and apalis do. No
request has to come, nobody has to poll the status, no lease has to expire. `Retry` is
part of the worker's fair step: a job is answered. The liveness run has no faults,
because with them the properties are not promised: see the hazards on crashes between
claim and push and between commit and push. `EpisodePipeline` and `MemoryReview`
assume the same of their executions and queues, and their runs do have faults; a
taker that has locked rows goes on, but nothing makes one start. `ServerSentEvents`
assumes that the generator goes on, that requests are answered and pauses end, that
the caller pulls and that a connected server sends what it has; it does not assume that
a silent server closes, nor that anyone aborts.

*Four disagreements between the code and its words.*

* `end_mark_lost`: a worker reads the end mark, then calls the LLM. A batch
  imported meanwhile marks the end; the worker's commit clears the mark
  (`segmentation_state.rs:372`) although its plan did not use it. The tail of the
  batch is then carried over and, unless new messages come, never finalized, and a
  benchmark that waits for `done` waits for ever.
* `follow_up_lost`: messages that come during a lease do not get a job of their
  own; they rely on the worker's follow-up. A commit whose only segment is carried
  over does not ask for one (`event_segmentation.rs:262`), even when those messages
  satisfy the trigger.
* `episodes_lost`: spans are committed, then their jobs are pushed. If the push
  fails or the worker stops in between, the retried segmentation job finds that its
  lease is gone and skips; nobody looks for spans without an episode, and
  `docs/architecture/segmentation.md:119` promises that "finalized spans become
  `EpisodeCreationJob`s". Inside `EpisodePipeline` the same gap, between insert and
  push, is closed: the retry pushes again (`NoSpanStranded`).
* `sse_line_ends`: a CR LF that is cut between two chunks is normalized to two line
  feeds (`serverSentEvents.gen.ts:158`), which end an event too early. With LF or CR
  alone every cut is harmless (`RefinesStream`).

*What the properties leave open* is as telling as what they say, and was seen while
modelling.

* `DoneIsReliable`: once a job has returned an error, a row that waits as `Failed` is
  not counted, and `done` may come before the consolidation.
* `SoleReviewExtends`, `FinishedJobIsComplete`: two jobs that overlap on a memory can
  lose one of two reviews, because the guards are checked before the LLM call only.
  `ReviewsSpaced` holds even then. `ItemsAccounted` counts the items that a failure
  between the take and the push loses.
* `NoDuplicateFacts`, `ProvenanceGrows`: overlapping jobs may insert the same fact
  twice and overwrite each other's sources, and so may a job that is shown only some
  of the facts, since duplicates are looked for among the facts it knows. Of two
  updates without a target one is dropped (both are filed under the empty target).
* `BackoffGrows`: `attempt` counts every connection and is never reset, so a long
  stream reaches the cap, and its limit, through failures far apart. Responses are
  not cancelled when an event is refused or the caller leaves.
* `CallIsSentAsMade`: a credential for the query is written into the caller's own object,
  where a later call finds it and keeps it, and where it replaces an own parameter of that
  name that is empty, 0 or false. The check for it (`utils.gen.ts:129`) and the write (146)
  have the auth callback's answer between them: two calls that share the object may both
  find nothing, and the later write takes the place of the other's credential, so that a
  request may carry the credential of another call. The property allows exactly that.
  Without a query object the credential gets lost (143 makes one that only a copy of the
  options has), and a cookie `xsid` keeps a credential `sid` from being added. A scheme
  without a name overrides an Authorization header of the caller.
* `InterceptorsRunOnce`: a loop under way runs over the array that `clear` replaced.
  All error interceptors get the original error; the last result wins.
* `OutcomeIsTruthful`: a call may reject without `throwOnError`, when a callback throws
  or the body is malformed.
* `ServerReadsParameters`: elements that are arrays or objects become
  "[object Object]" in the forms that do not throw, and values that are `Unreadable` are
  sent nevertheless: a server splits them, or does not find them.
* `RepliesFollowQuestions` and the working memory: a late reply is put into the memory
  of the new conversation after `/clear` or `/reset`, though posted to the old one.
  Failed posts go unnoticed; overlapping sends may interleave at the server; a failed
  generation of the latest send is a rejection nobody handles and ends the process.
* `SettingsSurvive`: the conversation goes from run to run whatever `.env` holds. Of a
  setting the property says less: a comment behind a value is not part of it in the first run,
  which reads the user's file, and is part of it in every run after `.env` was rewritten; an
  open quote likewise is dropped. A value with a quote inside is exempt: each rewrite escapes
  it once more, and Node reads it up to its first quote only. Lines of comment are dropped by
  a rewrite. An id that the shell sets returns after `/reset`.
* The lease is known by its range only, in the code as in the model: a holder whose range
  was claimed again unchanged after its expiry passes for the new holder, and
  `LeaseEndsByItsHolder` does not tell them apart.
* `TypeOK` of `Haru` allows the index -1: arrow down on an empty panel.

## Proofs

Every theorem holds for all values of the constants that satisfy the assumption of
its module, and of nothing else.

| module | instances | assumption |
|---|---|---|
| `Segmentation` | any requests, workers, job rows, messages, faults, batch size and trigger count | `SegmentationAssumption`: requests and workers are different, the null values are none of them, bounds are natural numbers |
| `EpisodePipeline` | any spans, slots, job rows, attempts and faults | `EpisodePipelineAssumption`: the same of spans, slots and rows; at least one attempt |
| `MemoryReview` | any memories, items, takers, slots, job rows, and length of a day | `MemoryReviewAssumption`: an item names a memory, a day takes time |
| `SemanticMemory` | any meanings, episodes, slots and runs, any finite table | `SemanticMemoryAssumption`: the null values are no row, meaning or episode |
| `ServerSentEvents` | any log, retry limits, delays and faults, every cut of the text | `ServerSentEventsAssumption`: an event carries its number as its id and is known by its data, if it has any; a delay is a natural number or does not parse; servers end lines by LF, CR or CR LF. `EventsInOrder` excludes CR LF, where the property fails (`sse_line_ends`) |
| `HttpClient` | any calls, options, configurations, interceptors and tokens | `HttpClientAssumption`: interceptors are numbered by their registration, from 1 to a largest number; an answer has a status, a type and a body; headers delete, set or append; a credential outside of the headers has a name; calls name query objects there are |
| `Haru` | any number and sizes of sends, any budget and history limit, any `.env` | `HaruAssumption`: sizes are positive, values are texts, a fresh id has no quote |

* `SequenceLemmas`. `UpTo` is induction up to a number, from `<` being well-founded;
  `Recursion` and `Unique` say what a recursive function is: there is one that follows
  its equations, and no other. `ServerSentEventsProofs` and `HttpClientProofs` unfold
  their recursive functions by these.
* `SegmentationProofs`. `SegmentsTile`: the segments of a range tile it, for every
  set of cuts; the argument takes the largest cut at or below a message and the
  smallest above it. `PlanTiles`: so do the finalized ones, up to the next start.
  `TilesExtend` joins two adjacent tilings. `FinalizedPrefixTiled` alone is not inductive: a commit
  extends the tiling only if it starts where the tiling ends. `IInv` therefore adds
  that a lease starts at the cursor and ends within the log (`LeaseCoversPending`),
  that the cursor is at most one behind the log (`CursorInLog`, or a claim could be
  empty), and that a worker which is not idle has a real claim
  (`WorkersHaveClaims`, or an absent lease could match an absent claim).
  `StepMoves` reduces every action to one of five things it can do to cursor, lease
  and spans (`Unmoved`, `Grows`, `Takes`, `GivesBack`, `Finalizes`); invariants and
  refinement need only these. Results: `TypeCorrect`, `SpansTileThePrefix`,
  `LeasesCoverPendingMessages`, `LeaseKept`, `PipelineRefinesLog`.
  `OpenTail`: the decision to finalize the newest message is made on a copy of the
  end mark. `TailInv` says that a worker's copy is still right, or its claim no longer
  reaches the end of the log, or the cursor has left its claim, so that its commit
  will be refused. It needs the copies of all workers at once: when one commits, its
  copy tells whether the mark it clears was set.
  `LeasesHaveOneCarrier`: expiry, duplicates and late commits exist for the sake of
  failures. `CInv` says that as long as nothing has failed (`faults = 0`), the pipeline is
  `Calm`: the lease has not run out under its holder, a job that is held is executed by
  its holder and no other (`JobsOwned`), nobody is on the way to an abort
  (`NothingAborts`), and whatever acts, a queued job, a worker or a push, acts for the
  lease and is the only one (`OneActs`). That no commit is refused then is a lemma
  (`PlanAccepted`), not an assumption.
* `EpisodePipelineProofs`. `SpansKeepAJob`: a job may be acknowledged only when nothing
  depends on it (`OkIsEarned`): the span is closed or, for the first queue, a
  `PredictCalibrateJob` has been pushed. What slots and jobs know of a span
  (`SpansOfSlots`, `SpansOfJobs`) makes this inductive. `DoneMeansConsolidated` adds
  that only an error gives up a job or reports it as `Failed` (`ErrorsAreSeen`).
  `FaultsBoundApplications` counts: `Chances(s)` are the jobs and the slots that may
  still apply the actions of a span, a slot only once it has lost its job, and
  `ChancesPaid` bounds applications and chances together by the faults and one
  (`applied[s] + Cardinality(Chances(s)) <= 1 + faults`). A push hands a chance on, an
  application spends one, and only a fault makes one. `ConsolidatedForGood` is the
  action property.
* `MemoryReviewProofs`. `ReviewsAreSpaced`: a job filters on what it reads and writes
  much later, over a row that another job may have reviewed meanwhile, so
  `ReviewsSpaced` says too little about the next write. `LoadedIsDue` adds that what a
  slot has loaded is itself spaced and lies a day or more before the time of the
  slot's job. A write then replaces a row by a chain that is spaced for its own sake
  (`SpacedAppend`), whatever the row holds by then; an overtaken review is lost, but
  none counts twice or backwards. `RInv` adds what a slot remembers at each
  step of its job (`SlotRecords`) and, of memories on which no jobs overlapped, that what
  a slot has loaded is what the row still holds (`LoadedAlone`) and that a memory it
  no longer has before it is done or was left out by the model (`LeftOrDone`).
  `FinishedJobsAreComplete` and `SoleReviewsExtend` follow.
  `ItemsAreAccounted` needs the row locks (`LocksHold`) and that a consumed item has
  one holder at most (`HeldOnce`).
* `SemanticMemoryProofs`. `EpisodesCountOnce`, `InvalidStaysInvalid`: transactions write
  from what they see when they write, so the rows of an open transaction, and that no two
  of them write one row (`WrittenAlone`, from the row locks), are enough; snapshots may be
  as old as they like. `FactsAreDistinct` and `SourcesAreKept` are about runs without
  overlap and with whole snapshots: `SInv` says that otherwise (`mixed`) nothing is
  promised, or one slot at most is at work, the active facts are distinct and so are
  those of its transaction; that slot knows every active fact (`KnowsActive`), inserts
  only what it found to be new (`SaysNew`), reads rows as they are (`ReadsCurrent`), and
  its writes extend the sources of the rows (`WritesAhead`).
* `ServerSentEventsProofs`. `EventsInOrder`, the refinement of `EventStream`: while the
  generator reads, its chunks are the next whole events, and its buffer followed by what is
  on the wire is, line ends normalized, the text of the events after those (`EventPieces`,
  in `RInv`). Connecting makes this true (`NothingYet`: the text after `lastEventId`), a
  dispatched chunk is the next event (`NextPiece`), of which the id (`ChunkId`) and all the
  data (`ChunkData`) are found, and any cut keeps it: `PrefixSplits` says so of every
  prefix of the text, token by token (`FedEvents`). One token either ends the piece, and
  then it is an event's blank line and the piece is that event, or the piece stays
  unfinished (`OnePiece`, from `NoBlank`: no blank line within an event). Normalizing the
  unfinished piece once more with what comes next changes nothing of it (`NormalAgain`);
  that is where CR LF goes wrong, since a CR already replaced no longer takes its LF along.
  `PausesGrow`: the last
  pause is at most the one that the next failure would cause (`PauseOK` in `BInv`), since
  `attempt` only grows and `Backoff` is monotone (`BackoffIs`).
* `HttpClientProofs`. `TypeCorrect` contains that a loop walks an array of its own kind,
  also after `clear`. `OutcomesAreTruthful`: `Honest` says where the parts of an outcome
  come from: no response before fetch has answered, one from the server or an
  interceptor when it is read, and the error interceptors only after a failure and
  with an error that is not undefined. `InterceptorsRunAsRegistered`, the action
  property: while a loop walks an array others may change it, but none of its entries
  moves (`NoneMoved`), so that what is behind the loop and still there has run, in order
  (`BehindHasRun`), what is ahead has not (`AheadIsNew`), and what is added or replaced has
  a number of its own (`Distinct`). It is `eject`'s hole that this rests on: a removal
  that closed the gap would have the loop skip an interceptor. `CallsAreSentAsMade`: calls
  share the configuration and the query objects and await credentials in between, so
  `MInv` follows each call from its first step: it `Carries` the headers it asks for,
  which are those it was made with and the credentials it got so far, in their order;
  `MadeOK` adds its address and says what its request, once there is one, is made of. The query
  objects are anyone's to write to, also between the check for a credential and its write;
  what is still true at the write (`Checked`) is that the caller's own parameter of that
  name has no value, if there is one, since such a parameter is never overwritten. So
  every object holds its own parameters and credentials that were granted for it, each
  name once (`ObjectsOK`), and so does every query that was sent (`SentOK`).
  `QueryIsReadBack` is about the serializers of `RequestUrl`, for queries of any
  length, kinds, styles and texts: a text is split at a mark into what was joined by it
  (`JoinSplit`, if no part holds the mark), what was encoded holds no mark (`EncodedIs`)
  and is decoded (`DecodeEncode`), a parameter is written as its pairs (`WrittenIs`), and
  pushing parameter by parameter, without those that write nothing, makes one list of
  pairs (`QueryStep`). Names and keys, which the code writes as they are, and the path are
  assumed to hold no mark of a query; a date, written as it is too, has none.
* `HaruProofs`. `TypeCorrect` needs that a closed panel marks its first line
  (`ClosedAtTop`). `RepliesInOrder`: a send that is past its question has it in the
  conversation it began in, or it was lost (`Asked`). `RequestsHaveTheirQuestion`: the
  question of a send is in the memory until that is cleared (`Remembered`), no send
  belongs to a run still to come (`RunsPast`), and a message that `truncateMessages`
  drops did not fit together with what follows it (`KeptOrTooMuch`). The start of what
  is kept is a least number, which exists because `<` is well-founded (`SmallestNat`);
  what a fold over the sizes comes to need not be known, except for no message at all
  (`SizeOfNone`). `SettingsAreKept`: `.env` is written by one parser and read by
  another, and the two need not agree on the user's file. The invariant says that a line
  in which the code's parser reads no quote is still the user's or what a rewrite makes of it
  (`FileOK`), that a setting is what Node reads there now, or what it read before
  that line was rewritten (`Changed`), and that the file holds the id of the conversation
  (`Kept`). A rewritten line reads the same to both (`RewrittenReads`, from what quoting
  makes of a value, `QuotedIs`, what it leaves alone, `PlainIs`, and Node's reading up to
  the closing quote, `QuotedLoads`), so that a second rewrite changes nothing.

Before its proof each invariant was checked by TLC, as an invariant of an instance:

| invariant | instance | states |
|---|---|---|
| `IInv`, `TailInv` of `Segmentation` | `segmentation_safety` | as that run |
| `CInv` of `Segmentation` | 2 requests, 2 workers, no fault | 34,472 |
| `TInv`, `SInv`, `ErrorsAreSeen`, `ChancesPaid` of `EpisodePipeline` | 1 span, 2 executions, 4 job rows, 2 faults | 14,683 |
| `RInv`, `HInv` of `MemoryReview` | `memory_review` | 799,932 |
| `TInv`, `WrittenAlone`, `SInv` of `SemanticMemory` | `semantic_memory` | 1,535,964 |
| `BInv`, `RInv` of `ServerSentEvents` | `sse_stream` | 7,388 |
| `HInv`, `WInv`, `MInv` of `HttpClient` | `http_client` | 466,587 |
| `ClosedAtTop`, `Asked`, `Remembered`, `RunsPast`, `FileOK`, `Kept` of `Haru` | `haru_chat` | 3,326,867 |

*Model-checked only.* The liveness properties (`LeaseEventuallyEnds`, `SpansReachEpisodes`,
`QueueDrains`, `SpansGetConsolidated`, `ReviewsSettle`, `AbortEnds`, `StreamCatchesUp`),
since liveness under fairness is out of TLAPS's reach. Of the safety properties
`ServerReadsParameters`: `QueryIsReadBack` has the pairs of a query, but the elements that
one pair may hold, the sharing of a name by several parameters and the filling of path
templates, which are folds and selections over sequences, are only checked.

## Not modelled, and the plan

Left for later, in order:

1. Proofs: the rest of `ServerReadsParameters`, for every template (see "Model-checked
   only").
2. The rules that choose the cuts (`batch_segmentation.rs`: gaps, buckets, reviews).
   `Segmentation` is checked, and its theorems proved, for every set of cuts, so that
   nothing here depends on them; what they add is which cuts are sensible.
3. The benchmark runners: sequential scripts whose state is a checkpoint file. A crash
   between import and checkpoint (`ingest.ts:221`) imports a sample again, by design.

Left out for good: prompts, ranking, embeddings and Markdown (data no property
tells apart), retrieval queries (read-only), scoring of the benchmarks
(arithmetic), the legacy segmenter (not called), migrations beyond the keys they
declare, types and environment. Of the client: `buildClientParams` and the query
keys, which nothing in the package calls, the bytes of bodies, `allowReserved`, which
hands the encoding over to the caller, and custom fetch and serializer functions
(they are the caller's). Of the example: the text of the prompt, the tools and the
recent memories that only go into it, the token budget's lookup, which ends in a number,
and the rendering.
