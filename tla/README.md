# A verification model of EMBEDHUNT AI

TLA+ modules, TLC configurations and TLAPS proofs for the career assistant in
this repository: a FastAPI backend that answers through a chain of rules,
caches and language models, keeps a "career twin" and a learning schedule for
every user, reads resumes, ranks jobs and applies to them, discovers jobs in
the background, and a Flutter app that works offline first.

Contents: [the system](#the-system) - [modules](#the-modules) -
[runs and bounds](#runs-bounds-and-what-they-show) -
[what the environment may do](#what-the-environment-may-do) -
[fairness](#fairness) - [proofs](#proofs) -
[disagreements](#where-the-code-and-its-text-disagree) -
[known not to hold](#known-not-to-hold) -
[not modelled](#what-is-not-modelled) - [plan](#plan)

Paths below are relative to the repository's root; `orchestrator/…`, `llm/…`
and the like are under `backend/app/`.

## The system

| component | state it keeps | what is hard | what makes it correct | module |
|---|---|---|---|---|
| Bedrock client `llm/bedrock_client.py` | breaker state, times of failures, `opened_at` | calls in flight when the breaker opens; a backoff that is not asked again; cancellation | the state agrees with the failures on file, few requests while open, every call ends, one outcome each | CircuitBreaker, GuardedCalls |
| LLM router and semantic cache `llm/router.py`, `llm/cache.py` | exact entries with a TTL, embeddings without one | a replay that travels on to the next cache | replays fit the request and are young | LlmRouter, Models |
| Orchestrator `orchestrator/router.py` and engines | usage rows in the caller's transaction; answers in Redis and in each process | equal requests racing in several processes, with Redis away at any step; an escalation that fails after it was billed | replays fit, a caller that commits has every paid call billed, repeats are free | Orchestrator, Models |
| Cache engine `orchestrator/cache_engine.py` | Redis: payloads, embeddings, an index per task; per process a dictionary and a bucket | five round trips per write, an outage between any two | bounded index, a worker finds what it wrote | CacheEngine |
| Limits, budget, warmer `api/v1/rate_limit.py`, `api/v1/ai_features.py`, `llm/cost_tracker.py`, `services/cache_warmer.py` | a sorted set in Redis, its copy in memory, usage rows, in-process caches | counted in one round trip, added in another; a budget read before a call and charged after it; routes that bill without a guard | no refusal without a full window, the mentor's window exact, the excess of the guarded routes over a budget bounded | Gate, Usage |
| Adaptive learning `services/adaptive_learning_service.py`, `repositories/memory_repository.py` | `memory_entries` rows | read, wait for a model, write: nothing is locked; midnight | the row of a skill says what its reviews did; missions of today, aimed at the weak | AdaptiveLearning, Twins |
| Career twin `services/career_twin_service.py` | one row per user with JSON columns | concurrent read-modify-write of whole columns | the count of interviews fits the history, the streak fits the sessions | CareerTwin, Twins |
| Resumes `services/resume_service.py`, `repositories/resume_repository.py` | resumes, one of them primary; domain profile | statements of other requests between any two; a swallowed failure in the middle | the table holds parsed resumes only, a primary heals, a told skill stays | Applications, Resumes |
| Applications, notifications, agent `services/recommendation_service.py`, `notification_service.py`, `agent_service.py` | rows of one request | an auto-apply that fails in the middle | filed and announced, all or nothing; sent as it was scored | Applications, Desk |
| Check-ins, feedback, interviews, conversations `services/*`, `llm/conversation_manager.py`, `agents/*`, `training/capture.py` | one row a day, events, the twin's columns, turns, memories | concurrent requests of a day; a model call between two statements; best-effort writes | check-ins are kept, outcomes learned, turns whole | Practice |
| Copilot `agent/*` and ranking `recommendation/*` | none: one run is a chain of phases | four phases that draw their own lines through the scores | the headline counts what the decisions say | Copilot, Matching |
| Advisers `ai/*`, `roadmap/*`, `dashboard/*`, `reporting/*`, `company/*`, `lab/evaluator.py` | none | rounding, greedy packing, two tables that must fit | learning never hurts, a roadmap fits its weeks | Careers, Insights, Advice |
| Rules and skill graph `orchestrator/rule_engine.py`, `knowledge_graph_engine.py`, `repositories/knowledge_graph_repository.py` | the shipped graph | three queries that must agree, questions in free text | answers agree | Knowledge, Answers |
| Knowledge layers `knowledge/*` | a stash per assembly | other requests commit between two layers; a layer raises | one twin in a brief | Grounding |
| Interviews and kits `interview/*`, `ai/interview_engine.py` | the bank | pools that run out, shared questions | weak skills get their share | Interviews |
| Resume reading `ai/skill_extractor.py`, `ai/resume_intelligence.py`, `resume/extractor.py`, domains | none | a model's reading merged over the rules' one | enrichment only adds | Resumes |
| Contexts, parsers `llm/context_builder.py`, `llm/response_parser.py`, `agents/models.py` | none | a loop that must end; two parsers of one answer | contexts fit, readers agree | Models |
| Job discovery `job_sources/aggregator.py` and connectors | none | a source fails; duplicates; the share of a source | a failure costs only its own postings | JobDiscovery |
| Job pipeline, scheduler `job_sources/pipeline.py`, `scheduler/job_scheduler.py`, `repositories/discovered_job_repository.py` | `discovered_jobs`, the task of the loop | overlapping runs, unique index, row locks, deadlocks, cancellation at any statement; `start` and `stop` that overlap | reports are true of the table, one loop, every run ends | JobPipeline |
| Mobile API client `mobile/lib/services/eh_api_client.dart` | tokens | timeouts with the first copy still on its way | every call ends | ApiClient |
| Mobile controllers `mobile/lib/state/*` | chat, feeds, completed lessons, badges; a Hive cache | answers in any order, payloads that are saved and cannot be decoded, restarts | bubbles fit the button, what is shown is what is cached | MobileApp |

All backend state changes of one request happen in one session which commits
when the handler returns and rolls back when it raises (`database/session.py`).
Nothing in the repository locks rows or compares versions, and the session is
READ COMMITTED, so that two requests of one user interleave at every `await`.
The mobile app talks to the endpoints; the endpoints call services; services
read and write rows and call agents; agents and the learning services call the
orchestrator; the orchestrator asks its caches, the hosted model and, through
the router, the Bedrock client. Background jobs enter beside the endpoints.

## The modules

Every module is commented where a definition is not the obvious reading of its
code; `PROJECT.json` maps each definition to its lines.

### Concurrent components

**CircuitBreaker** (implements **GuardedCalls**). `state`, `failures`,
`openAge` are `_CircuitBreaker`'s fields with times kept as ages, because the
code only compares distances with `window_seconds` and `reset_seconds`; ages
saturate one past the last value it can tell apart. `pc`, `attempt`, `hasTask`
are the locals of each call; `sentOpen` and `probe` are history. A step is the
code between two awaits: `Admit`/`ShortCircuit` (`allow()` and what follows),
`Succeed`, `FailAndBackOff`, `FailAndGiveUp` (the `except` branches),
`Resend` (after `asyncio.sleep`), `Cancel` (neither `CancelledError` nor
`GeneratorExit` is an `Exception`, so that nothing is recorded), `Tick`.
GuardedCalls is what callers may rely on: one outcome per call, bounded
requests, at most one more request of a running call while shut, refusals only
while shut, reopening by an answer or by a call that may go on.

**LlmRouter** and **Orchestrator**. LlmRouter holds the router's two cache
tiers, in Redis and in each process (`Places`), and what one `route` call reads
and writes; Orchestrator extends it with `handle()`: `AnswerFree` (rule and
graph engines), `ReplayExact`, `ReplaySimilar`, `Miss` (cache engine),
`HostedAccepts`, `HostedLowConfidence`, `HostedUnavailable`, then `Refused`,
`ClaudeReplaysExact/Similar`, `CallBedrock`, `BedrockReturns`. Requests run in
several processes (`Home`), and Redis may be away in any step (`up`): an
answer is then read from, and kept in, the process alone. `exact` are the
entries that expire, `bucket` is `_emb_mem`, which does not: what could not be
embedded in Redis is replayed by likeness as long as its process lives, when
Redis has nothing of the task. Write-back and the usage row are part of the step that
ends the call. The row is one of the caller's transaction, which ends after
`handle` did, committed or rolled back (`Ends`), whether it returned or raised.
Long prompts and histories are summarised first, in helper calls that are
`paid` and have no row. An answer remembers the ask it was made for, its kind
and its time, so that properties can compare it with whom it is served to.
`Near` says which texts' embeddings clear the threshold. `RouteDirectly` is the
entry of the classifier and the extractors.

**CacheEngine** is the level below: the round trips of `set()`
(`WriteExact`, `StoreEmbedding`, `AddToIndex`, `CountIndex`, `PopExcess`,
`DeleteExcess`, or `StoreInBucket` when one of them fails), the ping of
`_client()` and `run()`. Redis is reachable or not at every step. An entry is
its expiry time; what it says is Orchestrator's business.

**Gate** is what stands between a user and a paid call. `Hit`, `Count`,
`Oldest`, `Add`, `Expire` are the round trips of the sliding window with the
fallback `_hit_memory`; `ai_guard` reads the budget; `allow` is the mentor's
own limiter; `Routes` says of every route of `ai_features.py` which limiter,
cache, rows and fields it needs and how many calls it makes, and of the routes
outside `/ai` that they call a model without guard or limit (`Unguarded`:
`POST /mentor/chat`, uploads and their intelligence, the salary, roadmap and
interview enrichments); `outside` counts what those bill. `Call`, `Parse`,
`Track`, `Commit` are the paid part, `Track` in a transaction of its own;
`warm_user_caches` is the warmer, which passes no limiter. `mentor` is the
window of `allow` in each process, as the set of requests it let through at
their times. `crowd` is history: the largest number of calls owed behind the
check at once.

**AdaptiveLearning**: `reviews` and `missions` are the rows of their type;
`call` is what a request has read and not yet written, and the day its
transaction began, which is what the database dates its rows by (`created_at`
is `now()`). `BeginReview`/`CommitReview` are `update_spaced_repetition`
around its flush, `AskMission`, `ServeMission`, `GenerateMission`,
`StoreMission` are `get_daily_mission` around its reads and the model call, any
of which midnight may separate, `BeginCleanup`/`CommitCleanup` the
weekly `summarize_old`, `Abort` any rollback, `Midnight` the change of
`_today()`. `told` is history: what the confirmed reviews of a skill did, and
whether they ran one after the other.

**CareerTwin**: one row; a request loads it, computes a new one and commits
the columns that changed (`Overwritten` is SQLAlchemy's unit of work). The
skill's confidence is a level, `Score` any function of it; a request may last
past a midnight. `active` (days on which a session was counted) and `inorder`
(no session was committed after one that counted a later day) are history.

**Sessions**, **Applications**, **Practice**, **Desk**. Sessions is the
database under concurrent requests: a statement sees what is committed and its
own transaction (`View`), a write waits for the row's open transaction
(`Free`), a failed statement loses the transaction (`dead`). Applications has the handlers of resumes, applications and
notifications as sequences of awaited statements, `h[p].at` being the next one:
an upload is `Insert`, `Parse` or `ParseFails`, `SelectProfile`,
`FlushProfile` (whose exceptions are swallowed), `save_parsed`; an application
`ReadResume`, `ReadScored`, `CreateApplication` and its notification; an
auto-apply one after the other of those, where a job that raises is skipped.
What that leaves depends on what failed: after a flush, or with a broken
connection, the commit raises; after a SELECT only the database has given the
transaction up (`aborted`), its COMMIT is answered as a ROLLBACK, and the
request as if it had been served (`CommitVanishes`). An UPDATE takes the rows
it matches in any order; requests that wait for each other in a circle are
broken by the database (`DeadlockDetected`). Practice adds check-ins, feedback,
mock interviews, and the agents with their conversation, memory and training
rows. What a request does to the twin it does to the copy it loaded
(`ReadTwin`, `ReadHistory`), and a flush writes the columns that changed
(`Flushed`): strengths by an outcome, confidences by a rejection, and
history, strengths, weaknesses and confidences by `add_interview_result`. Any statement may fail (`Fault`, `PracticeFault`); a COMMIT whose
connection breaks may have taken effect. **Desk** is the abstract
specification of applying, to which Applications is shown to be a refinement
(`KeepsBooks == Books!Spec`).

**JobDiscovery** and **JobPipeline**. The five connectors turn a board's raw
answer into postings, each with what it passes over and what it raises on.
`discover` is the function of the code, folded over sources and postings, and `Promised` what it must return, stated
without loops. In JobPipeline a runner (a loop of a `start()`, or a direct
`run_once`) has its transaction `txn`; `get_by_external_ref`, `flush`,
`Commit` are its statements, a `flush` on a row of another open transaction
waits, `Deadlock` is the database's answer to a cycle, a unique violation or
any `DatabaseError` ends in `RunFails`. `start`, `stop`, `StopReturns`,
`CancelledError`, `_loop` are the scheduler: any number of coroutines may call
`start` and `stop`, also while another `stop` awaits a loop (`waiting`), which
forgets whatever task there is when it resumes. `overlapped` is history: the
loops started in that time.

**ApiClient** and **MobileApp**. ApiClient is `EHApiClient`: a call and the
copies its retries send; a copy may be handled after the call was answered by
another one, or ended. MobileApp composes it with the chat (`send`, `clear`,
`SendEnds` with `_resolveLast`), one offline-first feed (`build`, `refresh`,
`_fetch`, `FetchFails`; six controllers are built alike; `_fetch` saves what
came and then decodes it, which fails for what is not in `Readable`), the learner's
progress (`markComplete` is the lesson screen's button: local save, backup,
badges, in that order), the server's `put_progress`/`CommitProgress` and
`get_progress`, and `Restart`.

**Grounding**: an assembly asks its sixteen providers one after the other on
one session; between two of them other requests change the career twin
(`TwinChanges`), a provider may raise (`Fails`), which aborts the rest when it
was the database that failed (`Refused`).

### What is computed

These modules are operators over the values a request reads. An endpoint is
one action of Advice or Answers that takes an ask, computes and answers, so
that properties are invariants over every ask of the instance.

**Matching** (`recommendation/`): parsing of a profile, `compute_match` with
the scoring configurations of the seeded domains, gaps, tiers, ranking, the
merged corpus, the learned boost, and what a request ranks with when a read
fails. Points are exact multiples of `1/Scale`
where the code adds floats and truncates. **Careers** extends it with salary,
what-if simulation and the three roadmaps, **Insights** with the unified
matcher, profile and dashboard, weekly report, feedback and company statistics,
code review and lab, **Copilot** with the phases of a run: `Find`, `Reason`,
`Decide`, `Plan`, `Coach`, `Execute`. **Advice** gives them their endpoints.
Where an engine lets an agent enrich what it computed (`compute_ai`,
`build_ai`, `match_ai`), the ask says whether the agent answers, and what the
endpoint merges over its own result is part of the action.

**Knowledge** is the shipped graph, word for word, the three queries of the
repository, each as its own search (`get_learning_path` goes forward by
breadth and reads the path back off who was met first, `get_prerequisites`
backward), and how a typed question becomes one of them; **Interviews** the
bank, the balanced and the realistic session, scores and kits; **Resumes**
what is read out of the lines of a text and which domains it belongs to;
**Models** one request of an agent: the context and the loop that cuts it, the
choice and the price of a model, what the hosted tier accepts, what the agent
parses; **Twins** the twin as a value: made from a resume, scored, its mission,
session, due reviews and brief; **Usage** the two ledgers and every page that
sums them. **Answers** gives them their endpoints and composes all of it with
Grounding.

The `MC…` modules only give constants their values (and MCAdaptiveLearning a
constraint, see the bounds). Definitions marked
`\* mutant` are plausible bugs; no specification uses them. For every property
one of them, put in the place of the definition it stands beside, makes TLC
find the property violated.

## Runs, bounds and what they show

| run | instance | distinct states | shows |
|---|---|---|---|
| `breaker` | 2 invokes, 1 stream, threshold 2, window 1, reset 2, 3 attempts | 100 k | `StateMatchesRecord`, `AtMostOneRequestWhileOpen`, `KeepsPromise` (refinement of GuardedCalls), `InvokesEnd`, `OpenIsTemporary` |
| `chain` | 3 requests in 2 processes out of 5 asks, TTL 1, 2 instants, 1 step without Redis | 957 k | `ReplaysAreFaithful`, `PaidCallsAreBilled`, `IdenticalCallsAreFree` |
| `chain_fallback` | 2 requests | counterexample | `FallbackOnlyWhenUnreachable` is violated |
| `cache` | 3 calls, 2 workers, 2 keys, cap 1, TTL 1, 2 instants | 1.9 M | `IndexBounded`, `WrittenIsFound` |
| `learning` | 2 requests, 1 skill, 4 days, ladder of 2 rungs, 3 rows or 3 missions | 1.2 M | `LadderFollowsReviews`, `ServesToday` |
| `learning_durable` | the same, reviews only | counterexample | `ReviewsAreDurable` is violated |
| `twin` | 3 requests, 3 levels, 3 days | 518 k | `StreakDaysWereActive`, `CountMatchesHistory` |
| `gate` | 2 workers, up to 3 requests, window 2, TTL 1, 4 instants | 2.9 M | `LimitsHold`, `BudgetHolds` |
| `applications` | up to 3 requests, 1 fault, 2 applications of an auto-apply | 383 k | `SentAsScored`, `ToldSkillsStay`, `KeepsBooks` (refinement of Desk), `Heals`, `RequestsEnd`, `CheckinsAreKept`, `OutcomesAreLearned`, `TurnsAreWhole` |
| `copilot` | 11,742 pairs of a profile and an ask | 208 k | `BucketsAgreeWithDecisions`, `LearningNeverHurts`, `RoadmapFitsTheWeeks`, `GraphAnswersAgree`, `PracticeAimsAtTheWeak`, `EnrichmentOnlyAdds`, `OneTwinInABrief`, `ContextFits`, `ReadersAgree` |
| `pipeline` | 2 loops and direct runs, 3 runs, 5 sources, limit 2, 5 sets of answers | 499 k | `DiscoveryIsIsolated`, `ReportsMatchTheTable`, `OneLoopWhileRunning`, `RunsEnd` |
| `mobile` | 2 calls, 1 retry each, 1 lesson, 3 feed versions, one of them unreadable | 105 k | `SendingMeansPending`, `ShownIsCached`, `NothingLoadsForever` |

The two runs that end in a counterexample check one sentence of the repository
each; see [disagreements](#where-the-code-and-its-text-disagree).

What the properties say, in the order in which a reviewer would ask:

- **Is the money accounted for?** `PaidCallsAreBilled`: a request whose caller
  commits has a usage row for every call an engine answered, whatever was
  rejected or raised after it; summaries of long prompts, which no row tells of,
  apart. `IdenticalCallsAreFree`: who asks after an answer was written back
  where it can be found does not pay again. `BudgetHolds`: the calls billed
  behind the guard exceed the monthly budget by no more than were owed there at
  once, and what the unguarded routes bill on top opens the guard for nobody. `ReadersAgree`: the guard
  refuses exactly when the page says nothing is left; pages and insights sum
  the same rows; and the tier that accepts an answer and the agent that parses
  it read the same in it.
- **Is what is replayed right?** `ReplaysAreFaithful`: a replay is of the
  request's task, of the very payload or a like text, and young, unless the
  process replays by likeness what it kept itself during an outage of Redis. `WrittenIsFound`, `IndexBounded` are the same
  for the cache engine under outages.
- **Does what was confirmed stay?** `ToldSkillsStay`, `CheckinsAreKept`,
  `OutcomesAreLearned`, `TurnsAreWhole`, `LadderFollowsReviews`,
  `CountMatchesHistory`, `StreakDaysWereActive`: each says which concurrent
  request, and only which, may undo what a user was told is done.
  `LadderFollowsReviews` compares a skill's row with the reviews themselves:
  while no two of them overlap there is one row, and it says how many confident
  ones there were, the rung they climbed to and the day that is next.
- **Is an application what it claims?** `KeepsBooks`: applications are filed
  and announced, all of a request or none, and an answer that reports no
  skipped job reports what was filed. `SentAsScored`: with the resume it
  was scored with. `Heals`: one primary resume again after an undisturbed
  request that sets it.
- **Do the engines agree with each other?** `BucketsAgreeWithDecisions` (the
  headline counts the decisions below it), `LearningNeverHurts`,
  `RoadmapFitsTheWeeks`, `GraphAnswersAgree`, `PracticeAimsAtTheWeak`,
  `EnrichmentOnlyAdds`, `ContextFits`, `OneTwinInABrief`.
- **Does everything end?** `InvokesEnd`, `OpenIsTemporary`, `RequestsEnd`,
  `RunsEnd`, `NothingLoadsForever`.

Why the bounds are enough for what is asked:

- *breaker*: the hazards need one call that opens the breaker while a second
  one sleeps in its backoff and a third arrives; three attempts let a call
  fail, be retried while open and fail again. Invokes and streams differ only
  in retries, so one stream stands for all. Proved without bounds below.
- *chain*: a property relates at most a writer, a reader and one request
  racing them; two of the three share a process, the third is in another one.
  The five asks cover each route (free, hosted, Claude, direct), types that are
  cached exactly, semantically, or both, alike texts, a history that hides the
  text and a prompt long enough for a helper call; a time to live of one
  instant lets an entry expire, one step without Redis parts the processes'
  stores from the shared one. Proved without bounds.
- *cache*: with a cap of 1 two writers already exceed the index, two pops can
  race, and the third call can read or write in the middle.
- *learning*: with two rungs a ladder can be climbed, topped and reset; two
  requests suffice to overwrite each other; a row becomes old on day 2 of 3
  (`CompressAfter` = 1). Missions and reviews read none of each other's rows, so
  that the constraint `Apart` explores a history of the one or of the other
  kind. Proved without bounds and without the constraint.
- *twin*: three requests make "A overwrites B, C builds on the result"; six
  half days contain two midnights, so that a streak can be extended, kept and
  broken. Proved without bounds, like all of *chain*, *cache*, *gate* and the
  safety properties of *pipeline*'s table and of *mobile*.
- *gate*: a limit of one or two calls and a window of two instants let a window
  fill, slide and expire; two workers have a memory and a cache each; three
  requests exceed a limit that was free for one; an upload bills beside two
  guarded requests.
- *applications*: thirteen kinds of resume and application requests run in all
  pairs, and six triples add the request that has to heal or to be overtaken;
  eighteen kinds of practice requests, three of them evaluations that teach
  strengths, weaknesses or both, run in all pairs on an empty and on a
  filled table. One fault at any statement stands for the first failure of a
  request, after which it runs on a lost transaction; circles of waiting
  requests need no fault.
- *copilot*: the six embedded words contain a word of two categories, one with
  a synonym and one outside the core; the ten postings lie on both sides of
  every line the scores are cut at (40, 55, 70, 85). The shipped skill graph
  is the shipped one, with questions between nine of its ends. The bank's
  sixteen questions contain a shared text, a pool of one, and pools that run
  out before the session is full. Contexts lie below, at and beyond the budget,
  and beyond what can be cut.
- *pipeline*: two overlapping runs reach every lock, conflict and deadlock; a
  third begins after one of them has ended. With two loops a `start()` can
  overlap a waiting `stop()`. The five sources are the five
  connectors; their answers list two jobs in both orders (the deadlock), a
  repeated key, a broken element, a blank title, an answer of the wrong shape
  and a third new posting beyond the limit.
- *mobile*: cleared chat and second question, background and user's refresh,
  feed and backup each take two calls; one retry makes the two copies that can
  overtake each other (the code's number is two). Of three versions the middle
  one is unreadable, so that it comes after a readable one and before another.

Bounds that cut behaviour are named `Max…` in the modules: the clock of
Orchestrator, CacheEngine and Gate, steps without Redis (`MaxAway`), days, rows, missions and confident reviews
of AdaptiveLearning, half days of CareerTwin, runs of JobPipeline, the calls
of `stop` that await one loop (`MaxStops`), calls and
feed versions of MobileApp, faults of Applications, errors of a brief
(`MaxErrors`), and `Rounds`, beyond which the loop of the context builder is
taken not to end. Because of them, and because nobody has to call, most runs
may simply end: those set `CHECK_DEADLOCK FALSE`. CircuitBreaker has no such
bound, and its run checks deadlock.

## What the environment may do

- **Database.** Any statement may fail, and on PostgreSQL a failed statement
  ends what the transaction can do: later ones raise until it is rolled back
  (`dead` in Sessions). When that was a SELECT whose exception is swallowed,
  SQLAlchemy's session does not know: its COMMIT is sent, the database answers
  it with a ROLLBACK, and nothing is raised. Rows are locked from the first write to the end of the
  transaction; a wait ends by commit, rollback or the deadlock detector. A
  statement sees what is committed when it runs. A COMMIT whose connection
  breaks may have taken effect.
- **Requests.** FastAPI 0.115, the version `backend/requirements/base.txt`
  starts from, ends a request's dependencies, and with them its transaction,
  before the response is sent, so that an answered request has committed; a
  streamed answer may be sent before or after. (Later versions may commit after
  the response; then "answered" in the properties reads "answered and
  committed".) A client may go away, which cancels the handler at an `await`.
- **Redis** is reachable or not at every round trip; what was written may have
  been written although the answer was lost only where noted.
- **Models** answer, raise or are late at any call; what they say is any of
  the forms the parsers tell apart.
- **Job boards** answer with a list, with the wrong shape, with broken
  elements, or raise.
- **The network** of the app loses, delays and repeats requests and answers;
  the app is killed and restarted with what its cache holds.

## Fairness

- `breaker`: weak fairness of the clock, of the end of every `invoke_model`
  attempt (`asyncio.wait_for`) and of the end of every backoff. None of
  streams, and none of callers: `OpenIsTemporary` assumes that calls keep
  arriving.
- `applications`: weak fairness of each request's own statements (`Serve`):
  the event loop resumes what is ready and the database answers a statement
  that does not wait. None of faults and none of callers.
- `pipeline`: weak fairness of each runner's statements and of the delivery of
  cancellations. Nobody has to start, stop or run anything, and a loop need
  not wake up.
- `mobile`: weak fairness of the client's own steps: connectivity check,
  timeouts (`requestTimeout`) and delays are finite. The server and the
  network owe nothing, `NothingLoadsForever` holds without an answer.

The other specifications have no fairness and only safety properties.

## Proofs

Eight modules, checked by TLAPS for all values of the constants that satisfy the
assumptions of their modules. Each one states an inductive invariant that
implies the properties it proves, one lemma per action, and the theorems at
the end of a part.

**Resilience_proofs**, the breaker (thresholds, resets and retries positive, windows
natural, any set of calls): `TypeCorrectness`, `StateAgreesWithRecord`,
`OneRequestWhileOpen`, `ClientKeepsPromise`. `IndInv` strengthens the
invariants by two facts: a call sleeps only if it has an attempt left
(otherwise `Resend` could leave the type, and the promise's count of requests),
and requests are counted only while the breaker is open (otherwise an old count
would make the next opening start above 0). Lemmas show what `_prune` keeps.
The refinement proof maps `Init` to `Init`, and every step to a step of
GuardedCalls or a stutter; that a half-opening `allow()` inside a failure is a
legal `Reopen` or `End` is its interesting case.

**Learner_proofs**, the twin (any number of requests, levels a set of naturals with 0
and the level of a learned skill, `Score` any function): `TypeCorrect`,
`CountAlwaysMatches`. `CountMatchesHistory` is not inductive: a commit writes
only the columns whose values differ from the *loaded* ones onto a row that
others have changed since. `IInv` says of every open request what its commit
can do (`Effect`): neither column; a history with an unscored interview; or
both columns, agreeing. The third case is the argument:
`update_after_interview` writes the count unless it equals the loaded one, and
then the loaded history cannot have been scored throughout. `Dated` says that
a computed learning session carries a date, which `TypeOK` of the committed
sessions needs.
`StreakIsActive` has an invariant of its own, `SInv`, on top of `IInv`. The
streak and its date are two columns, and a commit may write one without the
other: only the date, when the streak it computed is the one it had loaded. So
`SInv` keeps, of every open request, that its new pair is what `Streak` makes
of its old one on a day between its begin and now (`Dates`), that the old pair
was `Kept` by active days, and that a streak somebody else wrote since ends no
earlier than the request began (`Recent`). The proof needs `inorder`: it failed
without, and TLC then showed the trace in [Known not to hold](#known-not-to-hold).

**Learner_proofs**, the schedule (any skills, calls, days and ladder):
`LadderAlwaysFollows`, `AlwaysServesToday`. `LadderFollowsReviews` compares
the rows of a skill with `told`, what its confirmed reviews did while no two of
them overlapped (`Confirmed`): then there is one row, on the rung that so many
confident reviews climb to. A review writes what it graded before other
requests ran; `LadderInv` therefore says of every open review what it holds
(`Held`): if nothing of the skill was written since it read, the row is as it
was read, and what it will write is the next rung of what was told, or the
lowest. A row the cleanup emptied ends the tale. Missions carry two days,
`created`, on which the transaction that stored them began, and `chosen`, the
day their skill was chosen for. `MissionInv` says that the first is never after
the second, and that a request which found a mission of its own first day and
generates one all the same has seen midnight: a mission stored after midnight
is dated the day before, and the next request generates again.

**Gate_proofs** (a finite set of requests, any limits, windows and budgets,
`CasesAssumption`): `BudgetAlwaysHolds`, `LimitsAlwaysHold`. `BudgetHolds` counts what is billed
behind the guard, `usage - outside`, against the largest `crowd` owed behind the check. It is nearly inductive:
letting a request through grows the crowd with what is owed (`LetThrough`),
billing moves one call from owed to billed (`TrackKeeps`), an unguarded route
raises `usage` and `outside` by the same, which can only close the guard,
and everything else leaves no more owed (`NothingBilled`). `IInv` adds the types and `PassesBy`:
a warmer is never at the limiter or the guard, which is why its two calls enter
the crowd in the step that reads the budget.
`LimitsHold` has two halves, and `LInv` what each needs. Nobody is refused
without a full window: the members of the sorted set are the hits of different
requests that have counted (`Hitters`), so that a count that reaches the limit
is an injection into them, and a window that was full for a request stays so
(`AllFull`; nobody takes back a hit, and a request keeps its own time). The
mentor's own window is exact: whom a process let through less than a window ago
is still among its hits (`MentorsHits`), and the bound is proved for the
windows ending at every natural instant (`Windows`), as the property's own
range moves with the clock.

**Orchestrator_proofs** (any requests, asks, texts, nearness and lifetimes):
`TypeCorrect`, `ReplaysAlwaysFaithful`, `PaidCallsAlwaysBilled`,
`IdenticalCallsAlwaysFree`. One `IInv` for the four: entries that expire do so a lifetime
after their answer (`Dated`), so that what is replayed is young or lies in the
process's own bucket, which says nothing of age; the hosted model and Bedrock
are called once each, with at most two summaries between them (`Counted`), so
that the rows with a cost can be counted against the calls as long as the
caller has not rolled back (`Billed`); and what a fresh answer left in each
store it entered, or a later one of its key, lasts at least as long
(`Remembered`). The last is what makes an equal
request free: it finds an entry that has not expired, whichever of two racing
requests wrote it.

**Resilience_proofs**, the cache engine (any finite set of calls, any cap and TTL):
`WrittenIsAlwaysFound`, `IndexStaysBounded`. The first needs `Kept`: what the
workers have finished to write is what their memories hold, so that a read that
finds nothing in Redis, or no Redis, still finds it. The second counts the
index against the writers on their way to trim it (`Trimming`) and the trims an
outage cut short (`cut`): an addition makes `Trimming` grow with the index, a
writer leaves it when the count finds no excess, when its pops have taken it,
or through an outage; `Shape` says that a writer which pops has an excess to
take.

**JobPipeline_proofs** (any loops and number of runs, any finite registry of
sources with different names, `SourcesAssumption`, any answers of the shapes
`BoardsAssumption` lists): `ReportsAlwaysTrue`, `AlwaysOneLoop`,
`AlwaysIsolated`. A report is true of the table because
open transactions write disjoint rows and what one created is not in the table
before its commit (`Disjoint`): the row locks and the unique index are what the
proof rests on, in `get_by_external_ref`, `flush` and `Commit`. `Managed` is
the scheduler's half: while a loop runs that no waiting `stop` saw starting, no
`stop` waits that could forget it, so that only the loops in `overlapped` can
outlive their `stop`.
`AlwaysIsolated` is about two nested loops, written as folds. An induction over
data has to be made by hand here: `LeastNat` (every nonempty set of numbers has
a least element), `Induct` from it, and `RecursionExists`, that the recursive
function a fold is defined by is one. `FoldOfKeep` and `FoldOfSources` turn each
loop into its step, `KeepKeeps` is the inner loop's invariant (what is kept is
what `Promised` offers up to this posting, no key twice, no more than the
share), `FromSourceKeeps` the outer one's, `DiscoveryPromises` their end.

**MobileApp_proofs** (any calls, retries, versions and tracks):
`SendingAlwaysMeansPending`, `ShownAlwaysCached`. The chat's invariant holds as
it stands once it is known that the last pending bubble is the only one
(`LastWaiting`), so that whatever answer arrives resolves it. The feed's is about an order: a
fetch saves what came before it decodes it, so that the cache may hold a
version the app cannot read while an older one is shown, and that is the only
way in which the two differ.

**Practice_proofs** (any requests, tables to start from, questions and faults;
`FoundAssumption`: earlier days left finite tables with rows of the columns
the code reads, and numbers of their own; `AskedAssumption`: a request names
rows of the table its path says): `BooksAreKept`, the refinement of Desk
by every request of Practice, those of Applications included. Desk files and
announces in one step when a request ends; the code writes row after row into
an open transaction, which may commit, fail, or commit although its request
was told it failed. `Ledger` says what an open transaction holds for the books:
rows that exist, which it marks read, and the request's own, exactly as many
as its locals say; `Place` says where a request can be with which locals, which
is what keeps an auto-apply's queue, its count and its list of scored
postings in step, and `RowsOK` and `Asked` keep other requests' numbers out of
a request's own. `Spoilt` says
whose transaction the database may have given up without its session knowing:
an auto-apply's that has skipped a job, and a chat's that reports nothing. A
step maps to Desk's end of the request when it commits, to its failure, to
Desk's `Mislead` (a request is told that it was served, with a job skipped,
and nothing is filed), or to a stutter.

The other five theorems need to know what a statement of one request may do to
the rows of another. `StepsTransact` says it once, for every action: a step is
an arrival, a look, one row put into the request's own transaction
(`Permits` lists which statement may put which row), a lost session, a failure
or a delivery of the whole transaction; `StepsAffect` turns that into what the
step leaves alone, and `SInv` adds that no two open transactions hold the same
row and no closed or dead one holds any. On that layer:

- `TurnsAlwaysWhole` (`TurnsAreWhole`): `TalkInv` says, station by station, which
  rows of its turn a request has written, and that a turn reaches the table whole
  because nobody else writes or removes it but a cleared history.
- `OutcomesAlwaysLearned` (`OutcomesAreLearned`): `LessonInv` is about every
  request that writes strengths, outcomes and interview results. `Fed` is the
  twin as a request means to write it back, from the copy it loaded; the copy is
  the stored one unless another of them was processed since (`Unfed`); and the
  copy of one that comes later already holds what was confirmed before
  (`PassesOn`).
- `CheckinsAlwaysKept` (`CheckinsAreKept`): `CheckInv` says what a check-in found
  of the day (nothing, or the one row it loaded), what it has written of it, and
  that a later check-in of the same day has loaded a count at least as high as
  one that was confirmed alone (`Heeds`).
- `AlwaysSentAsScored` (`SentAsScored`): `ResumeInv` says what resumes a
  transaction may hold (rows that are there or the request's own new one, which
  is unparsed only while it is being stored) and that nobody but an upload, a
  deletion or a new choice of the primary changes which resumes are primary;
  `SentInv` that an application's two reads see the same primary unless one of
  those committed in between or there was none. That a read is not ambiguous
  needs the table to be finite (`OnePrimary`).
- `ToldSkillsAlwaysStay` (`ToldSkillsStay`): `TellInv` says that a verification
  which begins after a confirmed one has read what that one wrote (`Hears`), and
  that a resume a user was told about is not one that a later upload could
  create, so that it does not come back without the skill.

`Routes` says from where to where the requests about resumes go and which
statements change what they remember of one.

**Answers_proofs** (any providers' order, any profiles, postings, learned
boosts and tables that satisfy `TablesAssumption`, `CasesAssumption`,
`RoadsAssumption` and `EnrichmentAssumption`: finite vocabularies, a positive
scale, corpora, texts and banks that are lists, hours and confidences that are
numbers, and an alphabet that has every word once, those a model says
included): `AlwaysOneTwin`, `AlwaysAgree`, `RoadmapsAlwaysFit`,
`EnrichmentAlwaysAdds`. For the first, `GroundInv` says that every layer speaks of the
version in the stash, or, while the stash is empty, that no layer speaks of the
twin yet; a provider that raises writes no layer, and the order of `Layers`
does the rest. The second compares counts that four phases make in their own
ways: `Find` ranks and counts tiers, `Decide` classifies, the headline adds.
`Ranking` says what sorting by a strict order gives, a bijection of ranks and
elements (`RankingFacts`, by induction on the rank), so that counting along the
ranking and counting in the corpus agree (`RankedCounts`); `SumsExist` and
`SumsAreOne` are what a sum over a set is, again from a recursive function of
the library. `RunInv` carries both through the phases that follow.
The third is about any number of tasks, hours and points: `Fits` is the
invariant of packing the weeks one task after the other (`PackedFits`, by
induction on the tasks placed), `LastMilestone` shows that capping the score at
99 every week promises what capping it once does, because no task loses points,
`UrgentFirst` that sorting loses no task, and `FilteredPicks` that the list of
what is to be learned has every word below the bar and no other. `RoadInv` says
that an answer is a roadmap for what was asked. It holds for every number of
hours a request may name, those below one included, which the code raises to
one.
The fourth holds for whatever a model infers, words it repeats or spells in
capitals included, and for any number of questions. `FoundOnce` says that a
list of skills has each of them once; extraction makes such a list
(`ExtractFinds`), sorting keeps it one and loses nothing (`SureFirstFacts`), and
so does appending what is new (`ExtractAiAdds`). `JoinedUnfolds` gives the
merge of several lists as a recursive function, from which the report's own
skills stand in front (`JoinedTwo`), where cutting at twenty leaves them
because a report has at most ten (`CutKeepsStart`). `EnrichInv` says what was
served, from which inputs.

Only model-checked:

- the liveness properties (under fairness) and everything with `ENABLED`
  (`InvokesEnd`, `OpenIsTemporary`, `Heals`, `RequestsEnd`, `RunsEnd`,
  `NothingLoadsForever`), which are beyond the prover;
- inductions over data which are too long to be made by hand, as those above
  were: `LearningNeverHurts` (every score, forecast and tier is monotone in the
  skills, sums of rounded parts included), `ContextFits` (a loop that cuts texts), `PracticeAimsAtTheWeak` (drawing from
  pools that run out);
- `GraphAnswersAgree`, whose subject is the shipped graph: the order of
  `get_prerequisites` is right for the words of that graph and not for every
  graph, and no prover unfolds its tables;
- `ReadersAgree`, which compares sums over all pages of the two ledgers.

## Where the code and its text disagree

The first two have a run that ends in the counterexample; the others were met
while modelling, and the models contain what the code does.

1. `chain_fallback`: `route()` caches a fallback text like an answer, so it is
   served after the outage (up to a day, semantically for ever);
   `bedrock_client.py:25-26` says it is used when Bedrock is unreachable.
2. `learning_durable`: review rows are called durable
   (`adaptive_learning_service.py:41`); the weekly compression empties
   `full_content` of old ones, and the ladder starts again.

LLM chain
- `bedrock_client.py:90-91` promises "a single probe"; a half-open breaker
  admits every call (`:119`). It also says nothing is sent while open; a retry
  after a backoff (`:223`) is.
- A summary tailored to one candidate is replayed to another: the key of
  `cache_engine.py:77` leaves out `context["system"]`.
- A router replay is billed again (`orchestrator/router.py:149-151`).
- Task types with TTL 0 are still stored and replayed semantically
  (`llm/cache.py:25`, `llm/router.py:165,176`); the scan of `llm/cache.py:162`
  ignores the key, so that replays cross types and system prompts; its
  in-process store and the index of `:146` are unbounded.
- `claude_engine.py:81-82`: with a non-empty `messages` the prompt itself is
  not sent.
- The helper calls that summarise a long prompt or history
  (`llm/router.py:92`, `:129`) are not billed; a usage row is lost with its
  caller's rollback (`orchestrator/router.py:214`), also when Bedrock raised
  after the hosted model had been paid.
- The hosted tier accepts any nonempty JSON, also a list, with confidence 0.95
  (`hosted_model_engine.py:293`); `parse_structured` rejects it, and since the
  accepted answer is cached, so are its repetitions until the TTL.
- A member that is `null` fails validation, though `agents/models.py:4-5` says
  partial responses validate. `select_model` raises for an unknown tier, though
  `_model_id_for_tier` falls back.
- `_enforce_budget` does not end when what is not text exceeds 4000 tokens
  while a text is down to one (`context_builder.py:90-97`); agents embed values
  a second time, uncut. `interview_agent.py:4`, `:22` caps its context at 1500
  tokens: it is built with 4000 and dropped.

Limits and budget
- The "per-user monthly budget" (`docs/AI_ARCHITECTURE.md:115`) guards the
  routes under `/ai`. `POST /mentor/chat` (`api/v1/mentor.py:12`), uploads and
  their intelligence, and the salary, roadmap and interview enrichments call a
  model without `ai_guard`: their rows count against the budget, and it stops
  none of them.
- "Access resets at the start of next cycle" (`ai_features.py:66`): the window
  is the last thirty days. "Warming can never itself blow the budget"
  (`cache_warmer.py:10-11`): one check (`:38`), two calls. The warmer's session
  is never committed, so that its `orchestrator_usage_log` rows are lost.
- "One row is logged per handled request" (`ai_usage_repository.py:5-6`): an
  escalated request logs two, and `claude_pct` is understated. Rows of
  `ai_usage_log` exist only for uncached answers, so that the health page's
  `cache_hit_rate` is always 0. Answers of the hosted tier never count.
- `retry_after` rounds down; the window in memory keeps `t >= cutoff`, the one
  in Redis drops `<= cutoff`; hits of the same microsecond are one; an error of
  Redis opens a second window in memory (`rate_limit.py`).
- `mentor_service.py:44` "always fall back, never 500": after a failed flush
  the commit raises.

Cache engine
- The in-process bucket replays entries older than the TTL, though "entries
  also expire with the cache TTL" (`config/settings.py:95`).
- Concurrent trims pop more than the excess, and at random, not the oldest
  (`cache_engine.py:236-239`, `config/settings.py:94-95`).
- A worker whose first ping failed never uses Redis again (`:13`, `:109`).

Profiles and resumes
- `ProfileService.domain_block` reads `self.db`, which `__init__` never sets
  (`services/profile_service.py:9-10`, `:30`): `GET /profile/` and
  `GET /dashboard/` always answer 500, and a resume's profile never has its
  domain block (`resume_service.py:178-181` passes the exception over).
- "The exact profile the matching engine and auto-apply use"
  (`resume_service.py:142-144`): verified skills join `all_skills` only, and the
  embedded score reads the categories. A lesson stays required after its
  skill was verified.
- `resume_service.py:84-85` "Never raises", but a flush that failed inside it
  ends the session (`:137`); `PARSE_FAILED` is always rolled back.
- With two primary resumes `get_primary` raises.
- An auto-apply whose job fails in a SELECT skips it (`agent_service.py:80`)
  and goes on in a transaction the database has given up: it reports the
  applications of the jobs before as queued, and its COMMIT files none.

Matching, copilot, advice
- The learned boost sorts by score only; rank and tier keep their old values.
  Embedded words such as "c" match as substrings. `APPLY_NOW`'s rationale and
  `_priority` use the embedded weights for every domain, and the copilot scores
  without the registry that `approve_apply` uses (`recommendation/engine.py:52-55`).
- `planner.py:100,103` "prepend profile work": its kind is sorted last.
- The caps of `semantic_engine.py:136-142` never bind. In a what-if
  `strong_matches` may drop (to ready ones), and a skill of two categories is
  added to one (`simulation_engine.py:102`); learned skills keep their case.
- "The base score and every existing field are preserved"
  (`matching_engine.py:99-100`): `match_ai` replaces `explanation`.
- A task longer than a week's hours fills one week (`adaptive_roadmap.py:5-6`).
- `call_rate` may exceed 1. A review sorts lines downward within a severity.

Knowledge and interviews
- `get_prerequisites` is "foundational-first" (`knowledge_graph_repository.py:51-57`)
  for some skills of the shipped graph only. A "can" anywhere beside "CAN" names
  the bus; "from UART to CAN FD" ends at CAN; an unknown `skill` is answered with
  confidence 1.0.
- `assembler.py:61` "one layer must never break the rest": an error of the
  database does.
- `InterviewEngine.evaluate` takes answers to questions outside the session.

Learning and twin
- Two first reviews of one skill insert two rows, of which either may be read
  later (`adaptive_learning_service.py:205-213`); two requests on a new day
  generate two missions (`:11`, `:93`); requests that arrive while a lesson is
  generated generate it again (`:84`).
- `add_interview_result` writes strengths, weaknesses and confidences back from
  the copy it loaded (`career_twin_service.py:178-197`): an evaluation beside a
  confirmed outcome erases what that "reinforced" (`feedback_service.py:6-7`).
- A mission is dated by the day its transaction began
  (`database/base.py:10`): one that is stored after midnight is of the day
  before, and the next request generates another.
- Concurrent interview results overwrite each other's history
  (`career_twin_service.py:176`), and results added without
  `update_after_interview` are not counted.
- A skill outside the embedded categories never enters the twin;
  `_twin_to_profile` leaves `is_embedded_engineer` false; `recency_score` is
  always 1.0.
- Jobs that load many twins hold them across awaits (`scheduler/ai_tasks.py:58`);
  a retried reminder job notifies twice (`:93`); `_warm_matches` builds a `dict`
  from a dataclass and raises.
- `mentor_agent.py:23` gathers statements on one `AsyncSession`, which allows
  one at a time. Two first check-ins of a day both insert, and `get_for_date`
  raises for the rest of it.

Jobs
- One broken element costs greenhouse, lever and naukri the whole source;
  smartrecruiters and remoteok pass over it. Postings without an id share one
  `external_ref`.
- The same job from another source, or found by a later run, gets a second
  row: `dedup_key` is stored but never read; rows are never deactivated
  (`discovered_job_repository.py:39`); overlapping runs may move
  `last_seen_at` backward (`:32`).
- `discover` blocks the event loop (`aggregator.py:45`), and `start()` during
  the await of `stop()` loses its task (`job_scheduler.py:72`, `:75`): the next
  `stop()` finds none to cancel and returns while the loop goes on. Only tests
  start the scheduler.

Mobile
- `markComplete` sends the backup before the lesson's badges are awarded
  (`curriculum_controller.dart:40`, `:43`); the last ones never reach the
  server. A failed backup is not repeated, and `put_progress` updates any row
  while `get_progress` reads the newest.
- "Only overwrite with a successful refresh; keep cached data on failure"
  (`dashboard_controller.dart:32`): `_fetch` saves the answer (`:38`) before
  `fromJson` may throw (`:40`), so that a failed refresh has replaced the cached
  data, and a restart has nothing to show. `jobs_controller.dart:54-58` is alike.
- A 401 never reaches the refresh interceptor, because `validateStatus`
  accepts every status (`eh_api_client.dart:45`, against `:29`, `:138` and
  `docs/architecture.md:96`).
- Retries repeat POSTs after a timeout ("retries idempotent transport
  failures", `:29`), and a late old copy of a backup overwrites a newer one.
- After `clear()` the first answer resolves the second question's bubble; a
  late answer of an older refresh overwrites a newer one, and one of an older
  filter the newer filter's jobs (`jobs_controller.dart:34`); the mentor is
  sent no history. `markAllRead` is undone by a refresh on its way.

Without a caller in `app/`: `update_spaced_repetition`, `get_daily_mission`,
`track_session_complete`, `MatchingEngine`, `apply_affinity`,
`application_repository.update_status`/`update_outcome`, `summarize_old`,
`delete_expired`, `record_feedback` of training, `run_prompt`,
`override_model`, `extract_field`, most writers of `CareerTwinRepository`,
`optimization_stats`, `get_total_cost`. Those that keep state are modelled as
what they would do when called.

## Known not to hold

What a reader may expect and the models contradict; no property claims it.

- *One application per job.* Nothing looks for an earlier one
  (`recommendation_service.py:108`): two approvals, or an auto-apply racing
  the user's, file two.
- *At most the limit in the shared window.* The count and the addition are two
  round trips (`rate_limit.py:76`); `LimitsHold` says only that nobody is
  refused early, and that the mentor's own window is exact.
- *One primary resume.* Two uploads may leave two; `Heals` says what restores
  it.
- *A mission or a review row per key.* There is no unique constraint.
- *The cached answer fits the caller.* The key of `cache_engine.py:77` does not
  contain what the answer depends on; the cached copy is of the caller who
  asked first.
- *Every paid call is logged.* The row shares the caller's transaction
  (`orchestrator/router.py:214`), and summaries have none;
  `PaidCallsAreBilled` is about requests whose caller commits.
- *The bill stays within the budget.* Only the routes under `/ai` ask for it;
  `BudgetHolds` is about what is billed behind the guard.
- *What is replayed is younger than its lifetime.* The bucket of a process has
  none (`cache_engine.py:195-198`).
- *What an answer reports as queued is filed*, after a job was skipped: the
  database may have given the transaction up (`agent_service.py:80`).
- *A confirmed outcome stays learned* beside an interview result of the same
  moment; `OutcomesAreLearned` claims it when no other request that teaches
  overlaps.
- *No loop is left after `stop()`*, when a `start()` came while an earlier
  `stop()` awaited (`job_scheduler.py:75`).
- *A failed refresh keeps the cache*, see the app's disagreements.
- *A POST handled once.* See the mobile client's retries.
- *A streak of active days.* A session of one day that is committed after one
  of the next day puts the older date beside the newer streak, which then
  counts one day too many (`career_twin_service.py`, one row, no lock).
  `StreakDaysWereActive` claims the rest: while commits come in order.

## What is not modelled

`PROJECT.json` lists every component with its reason. In short: wording and
layout, content (banks, curricula, challenges, company tables), numerical code
on vectors, listings, accounts and tokens, screens, migrations and deployment.
Within the modelled components, their `note` says what is left out. Three
classes are left to the tests on purpose:

- text extraction from files and the patterns that find a skill in a text: a
  text is modelled as the words found in it;
- embeddings: the models take which texts are near as given;
- the broker of the background tasks (Celery): its tasks are modelled as
  requests among the others, its retries are not.

## Plan

What would be worth adding, in this order:

1. **Mobile**: saved jobs and notifications, which change the server
   optimistically and undo a change that was refused.
2. **Proofs**: `LearningNeverHurts`, on the lemmas about rankings, lists and
   sums of Answers_proofs.
3. **Celery**: a broker that delivers a task twice, and the beat schedule, so
   that what a repeated task does to a user's day becomes a property.
4. **Knowledge layers** with the mentor's conversation in one instance: a brief
   assembled while a turn of the same user is being written.
