# A TLA+ verification of the RAG chat system

The system is a NestJS backend (`src/backend`) and a Next.js frontend
(`src/frontend`).  A browser session uploads documents, a BullMQ worker turns
them into embedded chunks in Postgres, and a chat answers questions from those
chunks, with answer caches and a rate limiter in Redis and a history in
Postgres.  This directory models the parts of it that run concurrently, checks
them with TLC on small instances and proves the central safety properties with
TLAPS for every instance.

## 1. Inventory

Paths below are relative to `src/backend/src/modules` unless they say otherwise.

| Component | State it keeps | Operations | What is hard |
|---|---|---|---|
| Document API: `document/document.service.ts`, its controller and upload interceptor | temp files on the uploads volume, `documents` rows | upload, status by job id, delete | check-then-act on the file hash, several stores without a transaction, crash between two of them |
| Queue and worker: `worker/document.processor.ts` | BullMQ jobs (attempts, back-off, lock, stalled counter), `documents.status` | `process` (nine phases, catch block), `onFailed` | retries, redelivery after crash or lost lock, cleanup racing a retry, deletion under a running job |
| Vector service: `worker/vector.service.ts` | `document_chunks` | embed and store | foreign key against a deleted row, a second insert |
| Chat service: `chat/chat.service.ts` and controller | `messages`, exact cache `chat:cache:*` | `handleChat`, `handleRetry`, `handleFeedback`, `postProcess` | code after the end of the stream races the next request; no transactions; swallowed Redis errors |
| Semantic cache: `chat/semantic-cache.service.ts` | `semantic:{session}:*` | lookup, store, invalidate | copies promoted to the exact cache, batched deletes |
| RAG graph: `chat/graph`, `chat/nodes/{router,retrieval,generator}.node.ts`, `llm-retry.util.ts` | state of one run | route, retrieve, generate | fallbacks decide what may be cached; tokens are written while the model still streams; rank fusion and guardrail look at different scores |
| Prompt builder: `chat/prompt-builder.service.ts` | none | buildMessages | relies on the order of messages; numbers the sources the citations refer to |
| Memory: `chat/nodes/summarize-memory.node.ts` | `sessions.runningSummary`, `messages` | execute | reads at the start of a turn, writes after its end |
| Rate limiter: `checkRateLimit` in the chat service | `rate_limit:*` with a time to live | check | INCR and EXPIRE apart, fails open |
| Redis wrapper: `redis/redis.service.ts` | connection | get, setex, del, incr, expire, delPattern | swallows every error |
| Document list: `src/frontend/src/hooks/useDocuments.ts` | list (mirrored in localStorage), poll timers | upload, poll, delete, reload | responses that arrive after the list has changed |
| Chat hook: `src/frontend/src/hooks/useChat.ts` with `ChatInput`, `MessageBubble`, `FeedbackBar` | message list, its copy in localStorage, abort controller | send, stop, retry, feedback, reload | Stop ends the stream in the tab only; list and history are two copies that no identifier ties |
| Session identity: `useSession.ts`, `session.guard.ts` | a uuid in localStorage, `sessions` row, `session:exists:*` | make, check, upsert | a cached fact in front of a row nobody looks at again |
| Observability: `observability/langfuse.service.ts` | traces, observations, scores at Langfuse | create, finalize, record error, score | each path out of a node has to finalize what it opened |
| Logging, error filters, configuration, other UI components | none | | |

**Interactions.** The upload handler writes the file, the row and the job; the
worker takes the job, reads the file and writes row and chunks; `onFailed`
removes the file. The tab polls the status by job id. Deleting a document drops
its row and chunks (cascade), flushes the semantic cache and appends a system
message to the history. A chat request passes the guard and the rate limiter,
appends its question, tries the exact and the semantic cache, loads the sliding
window and the summary, runs the graph, and, after the stream has ended, saves
and caches the answer and condenses the history. Feedback and retry clear
caches that a late `postProcess` may still write.

**What makes each part correct.**

- *Ingestion*: a document has one life (pending, processing, completed or
  failed, removed) and one row per session and file hash; completed means
  retrievable; deletion leaves no chunk; a retry finds its file; statuses,
  jobs and temp files settle.
- *Document list*: what it shows as completed is retrievable; what completes
  is shown.
- *Rate limiter*: at most the limit per window; nobody refused early.
- *Chat*: caches hold real answers only, serve them for like questions only,
  and lose them on thumbs-down, retry and deletion; a retry repeats its question
  once and loses it only where it fails itself; the prompt asks the question of
  its request.
- *Memory*: each message is in the history or in the summary, in one of them
  only; short histories are left alone.
- *One turn*: the event stream has one end and nothing after it; what is kept is
  what was read; a pill shows the source the model was shown under its number;
  rank fusion keeps what both arms agree on; the turn ends and its trace tells
  how.
- *Chat in the tab*: each answer stands under the question the server answered
  with it; a reload loses no message and no vote; the input does not stay
  locked.
- *Guard*: whoever is handled has a session row.

## 2. Modules

| Module | Models | Extends / uses |
|---|---|---|
| `DocumentLifecycle` | what ingestion promises: the life of a document | abstract |
| `DocumentPipeline` | upload handler, BullMQ job, worker, deletion | refines `DocumentLifecycle` (`INSTANCE ... WITH`) |
| `DocumentTracker` | one tab's document list over the pipeline | EXTENDS `DocumentPipeline` |
| `RateLimiter` | `checkRateLimit` over a Redis counter | |
| `RequestGate` | `SessionGuard.canActivate` in front of the rate limiter | EXTENDS `RateLimiter` |
| `ChatSession` | chat, retry, feedback, both caches, history, the cache and history part of deletion | |
| `ChatClient` | the chat of one tab: list, localStorage, stream, Stop, Retry, votes, over the server | EXTENDS `ChatSession` |
| `Grounding` | pure operators: rank fusion, guardrail, sources, citations, pills | |
| `AnswerStream` | what `POST /chat` promises of its event stream and of what is kept | abstract |
| `RagRun` | one turn through embedding, router, retrieval, generator and `postProcess` | EXTENDS `Grounding`, refines `AnswerStream` (`INSTANCE ... WITH`) |
| `SummarizeMemory` | the turns of a session as far as they read and condense the history | |
| `MC*` | small sets and values for TLC | EXTENDS the module |
| `*Proofs` | theorems | EXTENDS the module and `TLAPS` |

### How state and actions correspond to the code

Each action is the code from one `await` to the next; everything another
request, the worker, a timer or a crash can do in between is an interleaving.
`PROJECT.json` maps each definition to its lines.

- **DocumentPipeline.**  `files` is the uploads volume; `row`, `handle`
  (`documents.jobId` is set) and `chunks` are Postgres; `job`, `made` and
  `stalls` are the job in Redis; `handler`, `step`, `reaping` and `deleting`
  are program counters of a process, so `Crash` resets them and keeps the
  rest.  `Receive` ... `SaveJobId` is `uploadDocument`; `StartRun` ...
  `Acknowledge` are the phases of `process`, `RecordFailure` its catch block,
  `ReportFailure` what BullMQ does with the rejected promise, `Reap` and
  `ReapFile` the `onFailed` callback.  BullMQ is external and modelled from the
  options this code passes: attempts with back-off, `maxStalledCount`, a lock
  that can expire, `add` that may reject after the job was stored.  Whether a
  job failed by the stalled sweep counts an attempt is left open.
- **DocumentTracker.**  `shown` is the status in the list, `known` the entries
  whose job id has arrived, `poll` and `answer` the poll chain (timer set,
  request under way, response under way), `removals` the DELETE requests.
  `Persist` is the effect that writes the list to localStorage (`kept`) after
  each change: `writeStorage` swallows a refused write, and then a reload
  restores an older list.  The history variable `reverted` says that one did,
  so that, for one, a deleted document may be listed as COMPLETED again.  The
  tab is the only source of requests: `Arrive` and `ArriveRemoval` take the
  `Receive` and `FindForDelete` steps of the pipeline, and `Backend` the rest.
- **RateLimiter.**  `count` and `ttl` are the Redis key; `entered` is a history
  variable, the requests counted in the current window.
- **ChatSession.**  A request names its message, answer, trace and cache entry.
  `step` runs through `handleRetry` (if it is one), `handleChat`, the graph and
  `postProcess`; `blame` is `invalidateCacheForTrace`; `doc` is the rest of
  `deleteDocument`.  Equality and similarity of texts are the relation
  `Similar`.  `retries`, `dropped`, `target`, `grounds` and `served` are also
  what the properties speak about.
- **SummarizeMemory.**  `log` holds the numbers of the messages in the history,
  `summary` those condensed into the summary; `held` and `old` are what the
  turn read at its start and what it is condensing.
- **RequestGate.**  `gate` is where a request is in `canActivate`, `row` the
  session's row and `known` the Redis key.  `Handle` lets the limiter's steps
  happen to requests the guard has passed, `Die` crashes both parts at once.
  The form of the header is an arbitrary refusal.
- **ChatClient.**  The server is all of `ChatSession`; the tab is its only
  source of requests.  `list` and `stored` are the messages in React and in
  localStorage, `streaming` the request whose response is being read,
  `response` what the server has written for each request, as a function of
  the step it is at (`Reply`).  The list is written at the end of a stream and
  by a vote (`WriteStorage`); where the write is refused the copy stays as it
  was, which `unsaved` records until a later write goes through.  The history
  variable `severed` says that list and history may have parted: the tab let go
  of a request before its headers, by which time its question is in the
  history, or a reload took something off the list.  `votes`, `ballots` and `score` are the presses of the thumbs,
  the posts under way and what Langfuse holds.
- **RagRun.**  `step` runs through embedding, the three nodes, the end of
  `handleChat` and `postProcess`; `attempt` is the loop variable of
  `withLlmRetry`.  `arms` are the two rankings of the hybrid query as long as
  the node has them, `sent` and `said` the events written and their text,
  `cited` the citations event, `open` the observations nobody has tried to
  finalize, `trace` what Langfuse says of the turn: `Recorded` is an update of
  the trace, and one that throws is logged and leaves it as it was.  An
  observation whose `end()` throws counts as tried.  The two rankings and the number of chunks near enough are chosen
  freely, ties in `rrf_score` as well.  The semantic arm is a prefix of the full
  ranking; an index scan with a filter may return fewer rows, which no property
  depends on.
- **Grounding.**  A text is a sequence of words and citation marks, in the
  narrow or the wide form; `rrf_score` is an exact fraction.

### Abstractions

Texts, embeddings, ranking, token counts and prompt wording are data no
property needs. A file is usable or not (`Unusable`: rejected by size, parser,
token or empty-text guard). Retries of model calls are steps of their own in
`RagRun`; in the other modules they are inside one action whose failure is the
fault `embed` or `llm`. Of observability `RagRun` keeps which observations are
open and the state of the trace; contents, the automatic score and logs are
left out. `ChatSession` knows a turn by its outcomes only; `RagRun` shows how
each outcome comes about. In `ChatSession` the window holds six messages as
`SLIDING_WINDOW_SIZE` does, and the summary is left to `SummarizeMemory`. The
two reads of `invalidateCacheForTrace` are one step. The semantic lookup sees
`MaxScan` entries in no order (`Seen`).

## 3. Checked with TLC

| Run | Bounds | Question |
|---|---|---|
| `DocumentPipelineSafety` | 2 uploads of one key, one unusable; 2 attempts, 1 stall; every fault | do chunks, rows and files stay consistent (`NoOrphanChunks`, `OneRowPerKey`, `CompletedHasChunks`, `FileKeptForRetry`), and is each step one of the document's life (`ImplementsLifecycle`)? |
| `DocumentPipelineSettles` | the same with 3 attempts and 2 stalls as in the code; faults of queue and embedding | without redelivery, is the strict life kept, every failure recorded, no PENDING row without a job, and do status and file settle? |
| `TrackerUnlocks` | 1 upload; crash, lost lock, failing queue and unlink; lost responses, reloads, refused writes to localStorage | is what the list shows true (`ReadyIsSearchable`), does it learn of completion (`CompletionUnlocks`), does each job end (`JobsSettle`)? |
| `RequestGateSafety` | 5 requests, limit 2; Redis errors, failing upsert, crash | do guard and limiter together keep `HandledHasSession`, `AdmissionBound`, `NoEarlyRejection`? |
| `ChatSafety` | 3 requests, 1 question, client at any time, retry; every fault but a failing database | `CannedNeverCached`, `RetriedOnce`; is a question that was saved there unless a retry that took it away fails (`RetryKeepsQuestion`)? |
| `ChatSettled` | 3 requests, 3 questions alike in a chain, lookups that see 1 entry, retry, feedback, deletion, expiry; client waits until the server is idle | `ServedForLikeQuestion`, `PromptEndsWithQuestion`, `FeedbackPurges`, `FlushPurges` |
| `MemorySettled` | 4 turns, threshold 3, 2 condensed at a time; every fault; one turn at a time | `NothingForgotten`, `NothingTwice`, `CompressOnlyLong` |
| `ClientSafety` | 3 requests of which the tab may stop one, 2 questions, a window of 2 messages, retry; rate limit, expiry | until a request is stopped before its headers: does each answer stand under its question (`AnswerUnderQuestion`), does each prompt ask the question of its request (`PromptsAskOwnQuestion`), also beside a turn that was stopped and runs on? |
| `ClientSettles` | 2 requests of which the tab may lose one, 1 question, 1 document, retry, 1 vote; broken connections, reloads, refused writes to localStorage, rate limit, crash | does a reload keep messages and votes once the last write went through (`ReloadLosesNothing`), does the input unlock (`InputUnlocks`)? |
| `RagTurn` | 4 chunks of 2 documents, arms of 2 rows, 2 rows kept, 3 attempts, 2 tokens; every fault, deletion at any time | is each turn one that `AnswerStream` allows (`KeepsStreamPromise`), is what is kept what was read (`SavedAsRead`), do pills resolve (`CitationsResolve`), is fusion fair (`FusionRespectsBothArms`), does the trace tell the outcome (`TraceTellsOutcome`), does the turn end (`TurnEnds`)? |
| `FindWrongTurn`, `FindMisfire` | see the configurations | counterexamples to what documents and comments say, section 4 |

**Why the bounds are enough.**  Documents meet only through their key and the
single worker, and two uploads of one key exercise both; two attempts and one
stall reach a first failure, a retry and a final failure in each way, and the
code's own values are used where the runs stay small.  A failing database is
left out of `ChatSafety` to keep it small; its properties and
`ServedForLikeQuestion` are proved for every fault.  A turn of the list is
about one document only.  Five requests fill a window of two and begin another.
Three requests are an answer, a use of it and a use of that use, or a retry
of a retry.  Four turns (eight messages) compress twice at a threshold of three;
the code's threshold only changes how many turns that takes.  With four chunks
and arms of two rows there are rows of both arms, of either, and rows neither
finds, and the limit of the merged rows cuts some off; three attempts are the
code's own; two tokens are a word and a mark, two marks of one source in both
forms, or a mark of no source.  The window of `ClientSafety` holds two
messages, a question and what came before or got behind it.  Its three requests are a turn, one that
is stopped or fails after it deleted something, and what comes after; its two
questions are what an answer can be shown under and what a prompt can ask.  As
its properties only speak of states that are not `severed`, and `severed` is
for good, the constraint `Together` cuts the search off at the first one that
is.  `Fragile` names the request the tab may let go of or whose write may be
refused, `Rated` the one whose answer is voted on; either may be the first or
the second.  `ClientSettles` adds crashes and the other faults of the tab over
two requests, as its liveness property forbids symmetry.  Deletions and a
failing database are left to the theorems about the tab (section 5), which need
none of these bounds.

Type invariants that are proved (section 5) for guard, limiter and tracker are
not repeated in their runs; that of `ChatSession` is part of `ClientTypeOK` in
`ClientSettles`.

Symmetry (requests and turns are interchangeable) is used in runs with
invariants and action properties only.  Deadlock is not checked: with finitely
many requests every model may stop.

**Client.**  The chat is safe in some ways only if the client waits.  The
constant `Client` says when it starts its next operation: `"any"` time (two
tabs, or Stop, which does not reach the server), when the stream `"waits"`
ends (what `useChat` enforces in one tab), or once the server has `"settled"`.
A property checked under `"settled"` that fails under `"waits"` is listed below.

**Fairness.** Weak fairness of a handler, worker or callback step says that
awaited promises settle and timers fire: no handler waits for anything but a
database, Redis or model call, which answers or fails. Arrivals, deletions,
lost locks, lost messages and crashes are owed nothing. In `RagRun` the turn as
a whole is weakly fair: the provider's client library times calls out, the
ladder is bounded, and no model streams for ever (`MaxTokens`); nothing is
assumed about whether calls succeed. In `ChatClient` the server works on an
accepted request and the tab reads what was sent; Stop, reload and lost posts
are owed nothing. One worker step at a time is fair per job because the queue
is first in, first out. In `DocumentTracker` a poll and its response are
strongly fair: the chain repeats until it succeeds and the network is not down
for ever. Crashes may go on for ever within their guards; `maxStalledCount` is
what ends them, and `JobsSettle` shows it.

## 4. Divergences

Each was met while modelling and is reproduced by TLC.

| Run | What the code does |
|---|---|
| `FindWrongTurn` | a retry after a turn that saved no answer deletes the previous turn's answer and repeats this turn's question |
| `FindMisfire` | the guardrail takes the similarity of the first row of the fused ranking, which rank fusion may have put there although its similarity is below the threshold, and declines although a relevant chunk is among the rows; `retrieval.node.ts:39` and `RAG_Chat_System_Design.md:987` take the first row for the most similar one |

### Further divergences

These configurations can be run with TLC by hand and end in a violation; they
are not among the project's runs.

| Configuration (module `MC...`) | Property | What the code does, and what is said of it |
|---|---|---|
| `FindStuckProcessing` (DocumentPipeline) | `GivenUpIsFinal` | a job given up by the stalled sweep leaves its row PROCESSING for ever, as `onFailed` writes no status; `RAG_Chat_System_Design.md:309`, `Implementation-plan.md:287` |
| `FindCrashLeak` (DocumentPipeline) | `FilesReclaimed` | the file of a job given up by the sweep stays; `RAG_Chat_System_Design.md:344` |
| `FindDuplicateLeak` (DocumentPipeline) | `DuplicateLeavesNoFile` | the loser of two concurrent uploads keeps its file; comment at `document.service.ts:66` |
| `FindOrphanPending` (DocumentPipeline) | `PendingHasJob` | a crash between row and job leaves a PENDING row that blocks the key; comment at `document.service.ts:98` |
| `FindStaleFailure` (DocumentTracker) | `CompletionUnlocks` | FAILED is written on each attempt and ends polling, so a document completed by its retry is shown as failed; `RAG_Chat_System_Design.md:315` |
| `FindZombiePoll` (DocumentTracker) | `NoZombiePoll` | a poll in flight when its document is deleted polls on for ever; comment at `useDocuments.ts:195` |
| `FindDeadPlaceholder` (DocumentTracker) | `ListSettles` | a reload during an upload leaves an entry without job id that is polled for ever; comment at `useDocuments.ts:100` |
| `FindLockout` (RateLimiter) | `WindowsEnd` | a crash between INCR and EXPIRE locks the session out; comment at `chat.service.ts:329` |
| `FindLateWrite` (ChatSession) | `FeedbackPurges` | feedback overtakes the callback that caches the answer; comment at `chat.service.ts:317` |
| `FindPromotedCopy` (ChatSession) | `BlamedNotCached` | the copy promoted to a like question survives the thumbs-down; comment at `chat.service.ts:317` |
| `FindExactSurvives` (ChatSession) | `DeletePurges` | exact entries survive the deletion of their document; `RAG_Chat_System_Design.md:501` |
| `FindLostQuestion` (ChatSession) | `QuestionSurvivesRetry` | a retry refused by the rate limit has already deleted its question; comment at `chat.service.ts:294` |
| `FindRepeatedQuestion` (ChatSession) | `PromptEndsWithQuestion` | a late answer lands behind the next question; comment at `prompt-builder.service.ts:31` |
| `FindUnseenNote` (ChatSession) | `PromptNotesDeletion` | the prompt leaves the note about a deleted document out; comment at `document.service.ts:161` |
| `FindWrongQuestion` (ChatClient) | `AnswerAlwaysUnderQuestion` | a message stopped before its headers may never reach the history; the next retry is answered with the question before it and shown under the stopped one; `RAG_Chat_System_Design.md:512`, test at `useChat.spec.ts:307` |
| `FindScoreOrder` (ChatClient) | `LangfuseFollows` | two votes on one answer are posted without waiting and may be recorded in the other order; comment at `useChat.ts:225` |
| `FindForgotten` (SummarizeMemory) | `NothingForgotten` | overlapping turns condense the same summary and what the first condensed is lost; comment at `summarize-memory.node.ts:32` |
| `FindShortened` (SummarizeMemory) | `CompressOnlyLong` | a stale count shortens a short history; comment at `summarize-memory.node.ts:55` |
| `FindUnreadSummary` (SummarizeMemory) | `PromptRemembers` | no prompt contains the summary; `RAG_Chat_System_Design.md:551` |

Seen in passing: greetings are cached against the comment at
`semantic-cache.service.ts:113`; the lookup takes the first keys SCAN returns
where the comment at line 70 says the most recent; the third delay of the retry
ladder that its comment names is never waited for, as there are three attempts
only; a turn served from the semantic cache leaves its trace unfinished; Stop
does not abort the model's stream or save the part that was shown
(`RAG_Chat_System_Design.md:490`); where localStorage refuses to hold the
session id (`useSession.ts`), a reload starts another session, and the documents
and messages of the last one are out of reach.

## 5. Proved with TLAPS

For every value of the constants that satisfies the modules' named assumptions
(`PipelineAssumption`, `TrackerAssumption`, `LimiterAssumption`,
`GateAssumption`, `ChatAssumption`, `MemoryAssumption`, `GroundingAssumption`,
`RagAssumption`: types of the constants, finite sets of requests and chunks,
positive limits, and arms of at most 61 rows, see below):

| Module | Theorems | Argument |
|---|---|---|
| `DocumentPipelineProofs` | `TypeCorrect`, `NoOrphans`, `KeysAreUnique`, `CompletedIsSearchable`, `RetriesFindTheirFile`, `PipelineImplementsLifecycle`; `GivingUpIsRecorded` without crashes, lost locks and database faults; `PendingIsQueued` without crashes and with at most one of queue and database failing | one inductive invariant `Inv`: types; which rows, chunks and files each step of handler and worker has made; which step goes with which job state.  A completed row is searchable because the step `completing` is reached through a successful insert only; a file is there because only a completed run or a final failure removes it |
| `DocumentTrackerProofs` | `TrackerRunsPipeline`, `TrackTypeCorrect`, `ReadyDocumentsAreSearchable` | each step of the tab is a step or a stutter of the pipeline, so its invariants hold; a listed document that is known has a row unless a removal is on its way, and one seen COMPLETED keeps its chunks; where a reload brings back an older list, `reverted` ends the invariant |
| `RateLimiterProofs` | `LimitHolds`, `LimitIsFair` | `count` is the size of `entered`, and requests of a window that were told their number were told different ones; so those admitted map one to one into 1..Max |
| `RequestGateProofs` | `HandledRequestsHaveSession`, `GateTypeCorrect`, `GateRunsLimiter`, `LimitHoldsBehindGate`, `LimitIsFairBehindGate` | the key is set, and a request gets past the upsert, only where the row is there, which nothing removes; each step of the composition is one of the limiter or none, so what was proved of the limiter holds behind the guard |
| `RagRunProofs` | `RagTypeCorrect`, `FusionIsFair`, `HistoryIsWhatWasRead`, `PillsShowSources`, `TurnKeepsStreamPromise`, `TraceIsTrue` | four inductive invariants, below |
| `ChatSessionProofs` | for every client and all faults: `ChatTypeCorrect`, `CachesHoldAnswers`, `CachesServeLikeQuestions`, `QuestionsAreRetriedOnce`, `RetriesKeepQuestions`; for a client that waits: `DeletionsFlush`, `ThumbsDownPurges` | below |
| `ChatClientProofs` | `TabRunsSession`, `SessionHoldsBehindTab`, `TabTypeCorrect`, `ReloadsLoseNothing`, `AnswersUnderQuestions`, `PromptsAskOwnQuestions` | each step of the tab is a step or a stutter of the session, so what is proved of it for any client holds behind the tab; for the rest see below |
| `SummarizeMemoryProofs` | `MemoryTypeCorrect`, `CondensedIsGone` for every client; `NothingIsForgotten` for `Client = "settled"` | new numbers exceed all that is held anywhere, so what is condensed never returns; with one turn at a time `held` equals `summary` until the commit; a turn saves a message when it starts and another when it gets past saving, which bounds `next` by the sizes of two sets that only grow |

An inductive invariant is needed in each because none of the properties is
inductive: each speaks of the end of a path (a status, a cache entry, a saved
answer) and is kept by what was true at the steps before it.

*`RagRunProofs`* in more detail.  `FusionIsFair` is arithmetic: a row at ranks i
and j of the two arms scores 1/(60+i) + 1/(60+j), a row of one arm at most
1/61, and with ranks up to 61 the former exceeds the latter.  The code's
`ArmLimit` is 20; from 62 rows on the property would fail, which is why there
is an assumption about it.  `Told` follows
the text: while the model streams, what the generator has collected is what was
written, and afterwards the same up to `Normal`, which changes no number a text
cites; so the citations built from the one resolve the pills drawn from the
other.  `Streamed` says which events were written at each step, from which
each step of `RagRun` is one of `AnswerStream`.  `Observed` says which
observations may be open at each step and what the trace may say: it never
claims the other outcome, and it is still running at the end only where
Langfuse may fail, which the run, where it may, cannot tell.

*`ChatSessionProofs`* in more detail.  The caches: a request on its way to them
is cacheable and answered its own question; an exact entry answers a like
question, a semantic entry its own.  The types: a message removed by its
position leaves a sequence, and the newest message of a role exists where there
is one at all.

`HistInv` is what the other proofs rest on: no message is in the history twice,
a question is there only after its request asked it and an answer only after it
was saved.  `OnceInv` adds that a question a retry has taken away is gone for
good, so `message.delete` refuses the second retry of it.  `RetriedOnce` needs
no assumption about the client.  Neither does `RetryKeepsQuestion`: a question
leaves the history only in `DropQuestion`, where a retry goes on to ask it; the
theorem follows that retry through the rate limiter and the `INSERT` to its end,
so that what is missing is owed by one that is on its way, has a question of
its own in the history or taken over by another retry, or has failed.

The other two theorems do, and each assumption is needed: without it TLC finds
a counterexample.

| Theorem | Assumption | Invariant | Without the assumption |
|---|---|---|---|
| `DeletionsFlush` | `Client = "settled"`; Redis reachable, no crash | `FlushInv`: the documents a busy request retrieved from are all stored, so none of them is being deleted | a swallowed error or a crash leaves entries |
| `ThumbsDownPurges` | `Client = "settled"`; Redis reachable | `PairInv`: every answer stands directly below its own question; `BlameInv`: so the question found above it is its own, and what is purged under it does not come back | `FindLateWrite`: the callback writes after the purge |

`PairInv` is what connects a feedback, which names the answer, with the caches,
which are keyed by the question: `invalidateCacheForTrace` takes the newest user
message before the answer for its question, and only the order of the history
makes that right.

*`ChatClientProofs`* in more detail.  A reload loses nothing because each
request has one placeholder at most (`OneEach`), so that its mark is there once
in the list and once in the copy.  `AnswersUnderQuestions` ties two histories no
identifier ties.  `TabInv` says: questions shown are those of messages, not of
retries; a request that has no headers yet is the one the tab is reading, and
its placeholder is the last entry; while the tab's request has not got into the
history, or none is under way, the newest question of the server's history is
the one above the last answer of the list; and a request that has found or
brought its question has that one.  A retry, which takes the newest question of
the history, therefore answers what the last answer stood under.  A refused
request breaks the relation between the two, but takes its placeholder away, so
that there is no last answer to retry.  `AnswerInv` says which steps go with
which response.  `severed` is where the invariant ends, and `FindWrongQuestion`
shows why.  `PromptsAskOwnQuestions` rests on the same relation.  The
window a request reads is the end of the history, and the newest question in
the history is that of the request the tab reads (`LatestKept`): while a stream
is on the tab sends nothing else, a turn it has let go of after its headers had
asked before, and answers and notes are not questions.  So whatever gets behind
the question (`FindRepeatedQuestion`), no other question does.

Only model-checked: the liveness properties (`FilesReclaimed`, `StatusSettles`,
`JobsSettle`, `CompletionUnlocks`, `InputUnlocks`, `TurnEnds`), as the prover
handles neither ENABLED nor fairness; and `PromptEndsWithQuestion` and
`CompressOnlyLong`, which the code has for a settled client only, so that a
proof would assume away what can go wrong with them: the runs check that the
question is saved before the window is read, and how the threshold is compared.
Every other invariant and step property that a run checks is proved.  Of the library's induction theorems the prover can
use the one about minimal elements, which takes sets: it shows that `Newest`
exists.  No module uses RECURSIVE operators or needs induction over data.

## 6. Not modelled

Logging, error filters and configuration (no state), UI components beyond those
named in the inventory, the keyword-overlap faithfulness score (it goes to a
trace and nothing reads it back), the contents of observations, batching of
embeddings, the parsers, the SSE parser (each line is one event), several tabs
that share one localStorage (each tab has its own list, and the later write
wins), two tabs that create two session ids, an answer's dependence on the
history it was given: the caches serve it to the same question in another
context, as they are meant to.

## 7. Plan

1. *Done*: `DocumentLifecycle`, `DocumentPipeline`, `DocumentTracker`,
   `RateLimiter`, `ChatSession`, `SummarizeMemory` and their runs and proofs.
2. *Done*: `ChatClient` over `ChatSession`; `RequestGate` over `RateLimiter`;
   `Grounding`, `AnswerStream` and `RagRun`, with the retry ladder and the
   fallbacks of the graph; the cap of the semantic lookup; the proofs about
   guard and turn.
3. *Dropped*: an abstract cache from which an answer is served until it is
   withdrawn.  The server does not implement it, not even for a client that
   waits: copies promoted to the exact cache survive a thumbs-down
   (`FindPromotedCopy`) and exact entries survive a deletion
   (`FindExactSurvives`).  `FeedbackPurges` and `FlushPurges` say what is left
   of it.
4. *Done*: the types of every module, and the proofs of the invariants the
   runs check; refused writes to localStorage and swallowed failures of Langfuse
   in models, runs and proofs.
5. Left: the hazards `PROJECT.json` lists without a property, and theorems
   about what can be said of them; `FlushPurges` and `FeedbackPurges` behind a
   tab that also waits for `postProcess`.
