# Verification of the ticket service

TLA+ models of the service in `src/app`, the TLC runs that check them on small
instances, and theorems that TLAPS checks for every instance. The code is the
reference: line numbers below are those of `src/`.

The service classifies support tickets. A client posts a text, either to
`POST /tickets/analyze` (which answers with the classification) or to
`POST /tickets` (which stores a draft for later). A scheduler inside the process
claims drafts, failed tickets and tickets somebody gave up on, and classifies
them. All state is in one PostgreSQL table, `tickets`.

## 1. Inventory

| Component | State | Operations | Hard part |
|---|---|---|---|
| Repository (`repositories/ticket_repository.py`, `models/`) | the rows | `create`, `get_by_id`, `find_ready_by_normalized_text`, `mark_ready`, `mark_failed`, `claim_pending` | UPDATEs without a condition on the status; the retry counter computed in SQL; SKIP LOCKED; age by `updated_at` |
| Ticket service (`services/ticket_service.py`) | none between calls | `create_draft`, `analyze`, `claim_pending`, `process_pending`, the pipeline: degenerate text, duplicate, keyword, LLM | five transactions with waits between them; results looked up long before they are used |
| Scheduler (`services/ticket_scheduler_service.py`, `utils/ticket_scheduler_func.py`) | one tick at a time per process | claim a batch, run it with `gather` | errors are only logged; the batch shares one service |
| Unit of work (`uow.py`, `dependencies/services.py`) | `self.session` | `__aenter__`, `__aexit__`, `commit`, `rollback` | one object entered by several tasks at once |
| HTTP (`api/tickets.py`, `api/health_check.py`, `middleware.py`, `repositories/repository_error_handler.py`, `common/exceptions.py`) | a connection per open block | the four ticket routes and the probe | the response leaves before the commit of `get_uow`; a failure may be replaced by that of its clean-up; `wait_for` cancels the probe in any call |
| AI client (`adapters/ai_client.py`, `core/aiohttp_exception_handler.py`) | a shared aiohttp session | `chat` | what counts as a failure, and what it takes as long as |
| Text rules (`utils/text_normalization.py`, `utils/category_matching.py`) | none | `normalize_text`, `is_degenerate_text`, `match_single_category` | punctuation is removed without a space; keywords are substrings |
| Lifecycle (`lifecycle.py`, `main.py`, `dependencies/infrastructure.py`) | scheduler, aiohttp session, singletons | start-up, shutdown | `shutdown(wait=False)` abandons jobs; a failed start-up ends the process |
| Migrations (`migrations/`, `docker-compose.yml`) | `alembic_version`, the columns | upgrade at every start, downgrade by hand | several containers upgrade at once, die in the middle, or are older than the schema |
| Database (`core/database.py`) | engine, pool | sessions | `pool_size + max_overflow` connections |
| Configuration, logging, schemas | none | - | `LLM_TIMEOUT_SEC` and `PROCESSING_TIMEOUT_SEC` have the same default |

Interaction: a request handler and the scheduler call `TicketService`; every
database access of the pipeline is one `async with self.uow_factory` block, which
is one transaction; only the LLM call runs outside of one. Processes meet in the
table only. The tasks of one scheduler batch also meet in the `UnitOfWork` object
that their `TicketService` holds.

What makes each part correct:

* repository: a status says how many attempts are left; a row is claimed only when
  nobody works on it;
* pipeline: a ready ticket shows an answer to its own text; the LLM is asked a
  bounded number of times; every ticket settles, once;
* unit of work: what a block returns is committed, and its session is closed;
* HTTP: a success is committed, a refusal has stored nothing, and every request is
  answered and gives its connection back;
* text rules: what makes two texts duplicates, and when a keyword may decide;
* migrations: the table is what `alembic_version` says, and nobody serves a schema
  older than itself.

`PROJECT.json` lists the hazards one by one, each at its line.

## 2. Modules

| Module | Models | Source |
|---|---|---|
| `TicketRepository` | the table as a value, its statements as operators | `repositories/ticket_repository.py`, `models/` |
| `TicketPipeline` | requests, scheduler ticks, the stages of the pipeline, crashes, time, the operator | `services/`, `api/tickets.py`, `lifecycle.py` |
| `TicketContract` | what the service promises about a ticket: the abstract specification | (a promise, not code) |
| `UnitOfWork` | one `UnitOfWork` object shared by tasks | `uow.py` |
| `LlmClient` | one call to the LLM, from the service to the shared session and back | `adapters/ai_client.py`, `core/aiohttp_exception_handler.py`, `lifecycle.py` |
| `HttpRequests` | requests and the probe on one pool, every failure, the response | `api/`, `uow.py`, `repositories/repository_error_handler.py`, `common/exceptions.py`, `middleware.py`, `services/health_check_service.py`, `core/database.py` |
| `Deployment` | containers that migrate one database and serve | `migrations/`, `docker-compose.yml`, `main.py`, `lifecycle.py` |
| `TextRules` | normalization and the rules that need no LLM | `utils/`, `services/ticket_service.py` |
| `MCTicketPipeline`, `MCUnitOfWork`, `MCTextRules` | values of the constants for TLC | |
| `TicketPipelineProofs` | lemmas about the statements; what holds under any timing | |
| `TicketCountingProofs` | what can be counted under any timing: calls, duplicates | |
| `TicketPromptProofs` | what holds while no job outlives its timeout; the pipeline implements the contract | |
| `UnitOfWorkProofs` | a block that was alone | |
| `LlmClientProofs` | what a call gives its caller | |
| `HttpRequestsProofs` | what a response means | |
| `DeploymentProofs` | schema and version agree | |
| `TextRulesProofs` | the text rules, for every text | |

`TicketPipeline` EXTENDS `TicketRepository` and INSTANCEs `TicketContract`;
`UnitOfWork` stands on its own, because it looks at single calls inside what
`TicketPipeline` takes as one step. The link between the two is `LoseSession`:
the outcome for the ticket of what `UnitOfWork` shows about a block that lost its
session (the store is not committed, the row lock may stay until the session is
collected). `LlmClient` refines the three ends an LLM call has in `TicketPipeline`:
a result is `LlmAnswers`, None is `LlmFails`, a cancellation belongs to `Crash`.
`HttpRequests` looks at the calls inside `CreateDraft` .. `CommitDraft`, `Analyze` and
`AbortDraft`; a block in it is what `UnitOfWork` shows of one that is alone, because
every request has a `UnitOfWork` of its own. `TextRules` explains the sets
`DegenerateTexts` and `FastPathTexts` (which may overlap as far as `TicketPipeline` is
concerned; `DegenerateHasNoLetters` says they do not). `Deployment` ends where the
`Init` of the others begins.

Operators named `Mut_...` are faulty variants of the definition that follows
them, one per property; no specification uses them. They document which
mistake in the code the property would reveal.

### TicketRepository and TicketPipeline

* A *worker* is a request handler of `POST /analyze` or the scheduler job of a
  process. `at[w][i]` is the stage of the pipeline that worker `w` runs for ticket
  `i`, `pending[w][i]` the result it is about to store.
* Stages are the waits of the code: `lookup` (`_check_duplicate`), `llm` (the
  call), `store` and `fail` (the last block). A degenerate text goes straight to
  `store`. Between two stages anything may happen. The keyword rule touches
  nothing but its text, so it shares a step with the lookup that finds nothing.
* PostgreSQL runs READ COMMITTED: a statement sees the committed rows, an UPDATE
  waits for the row lock and then applies to the current row. `MarkReady` and
  `MarkFailed` therefore read the row at the moment of the store, and nothing of
  it is checked.
* `Claim` takes the oldest claimable rows, except those that are locked. Which
  rows are locked at that moment by a store under way is left open (any subset of
  `MaybeLocked`); those of abandoned sessions (`orphans`) are locked for sure.
* `CreateDraft` and `CommitDraft` are two steps, because FastAPI runs the exit half
  of `get_uow` after the response (`HttpRequests`).
* `LoseJob` is an error of the database in a block or a lost answer of COMMIT: the
  row is untouched, the exception goes to `gather` or to the client.
  `Crash` ends all workers of a process. `Revive` is the operator (README.md:60-62).
* Time is the age of a processing row, in ticks, up to the threshold.
  `Prompt` says that no job lives as long as the threshold: `Tick` waits for them.
  It is a condition on the deployment, not a fact about the code: with the default
  configuration an LLM call alone may take as long as `PROCESSING_TIMEOUT_SEC`.
* `FreshAge` is how old a row looks that was written just now. It is 0 when the
  database session is in UTC; `updated_at` is `TIMEZONE('utc', now())` in a
  `timestamptz` column, so a zone to the east makes it larger and one to the west
  negative: `prompt` runs with 1, `liveness` with -1.
* `llmCalls` and `lost` are history variables, only there for `LlmBudget`,
  `LlmCallsLimited` and `EveryFailureCounts` (`lost` also bounds the failures of a run).

Abstracted: an answer is one value (who gave it, for which text); the text rules
are two sets of texts; tokens and times go with `ai_used`; `created_at` grows with
the id; `error_message` is left out. Not modelled: a plan of PostgreSQL that
evaluates the subquery of `claim_pending` more than once.

### UnitOfWork

A block is a `read` (a lookup that finds nothing), a `write` (one UPDATE) or a `copy`
(a lookup with a match, then an UPDATE through `uow.ticket_repository`, which is
read again from the shared object after the SELECT). Tasks switch only inside a
call to the database, so each step is what runs between two such calls.
`__aexit__` acts on `self.session`, that is `current`, whoever opened it. The
session itself is external: a call on a session that another call is using is
refused, and from then on the session is `spoiled` and may do anything at commit.
The violation below and `AloneKeepsPromise` do not depend on what a spoiled
session does.

### LlmClient

A call is made by a job of the scheduler or by a request, and waits on the one
aiohttp session of the process. A response is reduced to what the code asks of it:
whether it is an object, whether the content is there and fits
`LLMClassificationOutput`, what `usage` is and what stands for each count. `Request`
is the whole way back: the `try` of `chat` guards the content only, the usage is
read outside of it, and the handlers of `_request_llm_classification` take the rest. A count is passed
on as it is, null or text included; only a missing one becomes 0. `TicketPipeline`
has what such a count does in the UPDATE: `LlmAnswers`, then `LoseJob` (`uncounted`).
`NoAnswer` is every exception the decorator swallows. `StopScheduler` and
`CloseSession` are the two halves of `on_shutdown`; between them the session is
open and unused. `CancelledError` is no `Exception`, so no handler on the way turns a
cancelled call into a failed one. uvicorn is external: it waits for the requests
before it begins the shutdown.

### HttpRequests

A request is in one call at a time (`stage`): it waits for a connection, runs its
statements, and goes through `__aexit__` (`commit` or `rollback`, then `close`). analyze and
the probe open blocks of their own and `respond` after the last one; create and get
work on the session of `get_uow`: they `respond` first and commit then, unless the
handler raises (FastAPI 0.139 runs the exit half of a dependency with `yield` after
the response, and before the exception handlers). `error` is the exception on its way;
a rollback that fails replaces it, as the `finally` of `uow.py:60` lets it. `StatusOf` is
the mapping of routes, `sqlalchemy_exception_handler` and middleware together. The
admin route is `get`.

The pool is external: it waits while all connections are taken (`Full`), gives up
after `POOL_TIMEOUT` (`AcquireFails`), and takes every closed session's connection
back. The scheduler takes and returns connections as it likes, also for good
(sessions abandoned as in `UnitOfWork`). An outage breaks every connection in use
(`broken`). `CancelProbe` may strike in any call of the probe: since `CancelledError` is
no `Exception`, `__aexit__` rolls nothing back after a cancelled COMMIT, but still closes.
`analyze` has two blocks, or three when a rule or the LLM decides; a duplicate is
answered in its second one. The LLM is asked between two blocks and fails into a
result (`LlmClient`).

### Deployment

A container reads `alembic_version` (`ReadVersion`), applies one script after the other in
one transaction (`Alter`), and commits them with the new version (`CommitUpgrade`). The
read takes no lock; the first DDL statement waits for the one of the table, so a
container may find that another has finished: its next script is then refused
(`Applies`), it exits, and docker starts it again. A revision is the set of columns it
adds and drops. An image of revision r has the models of that revision. Crashes, outages of the database, a
newer image and `alembic downgrade -1` come at any time, the last only while nobody
runs. docker-compose.yml starts one container; README.md:478 mentions several
without having tried them, and `docker compose up` with a new image makes two
follow each other.

`EveryoneServes` excludes two cases, both of which really keep a container from ever
starting: a schema newer than its image, and the upgrade `4103ebb98256` on a table
that has rows (a NOT NULL column without a default).

### TextRules

A text is a sequence of characters, of which eight stand for the classes the code
tells apart: two small letters, their capitals, a digit (or underscore), a
punctuation mark, two kinds of whitespace. The state grows by one character, so
that `DoubtRemains` can speak of a text and of what is added to it. Keywords are
short, and overlap in some texts. `re.sub` is `FlattenSeq` of what stands in the place of
each character. `IsNormalForm` is an independent definition of the normalized text, by
the places of its words; `NormalFormOfText` says that `Normalized` meets it.

### TicketContract

A ticket is absent, waiting, working, ready or dead; one attempt at a time; a
ready ticket keeps its answer; dead after `MaxRetries` failures; only the operator
leads out of dead. No workers, clocks, locks, crashes: retaking a stuck ticket is
a stutter. The mapping is `PhaseOf`, `TriesOf`, `ReplyOf` in `TicketPipeline`.

## 3. Runs

| Run | Checks | States |
|---|---|---|
| `overlap` | `TypeOK`, `RetryLedger`, `AnswersFit`, `LlmCallsLimited`, `SettledNotClaimed`: any timing, every kind of text, operator | 0.88 million |
| `prompt` | `SingleOwner`, `LlmBudget`, `KeepsContract`, `AiUsedKept`: two processes, jobs within their timeout, a zone to the east | 67 thousand |
| `dedup` | `DuplicatesBounded`: three tickets of one text, any timing | 528 thousand |
| `liveness` | `StaysSettled` under `FairSpec`, a zone to the west | 165 thousand |
| `uow` | `TypeOK`, `AloneKeepsPromise`, `ConnectionsReturn`: two tasks, all failures | 165 thousand |
| `llm_client` | `TypeOK`, `ResultOrNone`, `NoCallOnClosedSession`: every response, start-up and shutdown | 37 thousand |
| `requests` | `TypeOK`, `NothingKept`, `SuccessIsCommitted`, `RefusedIsNotStored`, `AcceptedIsStored`, `AnalyzedIsSaved`, `EveryRequestEnds`: every route, failure and cancellation | 163 thousand |
| `deployment` | `TypeOK`, `SchemaMatchesVersion`, `NeverServesOlderSchema`, `AllOrNothing`, `EveryoneServes`: two containers, faults, operator | 34 thousand |
| `text_rules` | `NormalFormOfText`, `DegenerateHasNoLetters`, `DoubtRemains`: every text of up to five characters | 37 thousand |

Bounds. `MaxTickets` (2 or 3) is enough for one ticket to copy from, lock out or
overtake another; `MaxRetries = 2` separates the first failure from the last one;
`StuckAfter` of 1 (2 in `prompt`, where a fresh row already has age 1) lets a row be
young, at the threshold and beyond it; `BatchSize` is 2 where batch mates matter
(`LoseSession` needs two) and 1 where the claims must queue; `MaxLost = 1` allows every
ticket one crash or lost attempt at any point; two workers are the least that
overlap, three (`prompt`) let a third one find what two left. Two tasks, one of them
with a second block, overwrite, collide and clean up after each other in
`UnitOfWork`. Calls to the LLM share nothing but the session, so `LlmClient` needs one
job and one request, which differ in how a shutdown ends them. Requests share
nothing but the pool: two of them, with a `Capacity` of 2 and a scheduler that may take
both connections, find it free, half taken and exhausted, and `MaxOutages = 1` breaks
a connection in any call. Two containers race, `MaxFaults = 2` lets one die while the
other is in its transaction and then the database go, and `MaxByHand = 1` replaces one
or downgrades once. In a text of five characters two keywords can stand alone, next
to each other and overlap, on both sides of the limit of the fast path (3).

`CHECK_DEADLOCK FALSE` where a run really ends: with ids bounded every ticket is settled,
every task has had its blocks, the application is stopped, or a text is complete.
`requests` and `deployment` never end (the scheduler and new rows keep coming), so deadlock
is checked there.

Fairness (`Fairness`, `FairSpec`). The scheduler fires every `SCHEDULER_TICK_SEC` and a
container restart brings it back after a crash (weak fairness of `Claim`); every
stage of a job ends, the LLM call by `LLM_TIMEOUT_SEC` (weak fairness of `JobStep`,
where an answer and a failure are both an end); time passes; the garbage
collector runs. Clients, operators, losses and crashes owe nothing. In
`UnitOfWork` every call ends and every unreferenced session is collected.
`StaysSettled` needs no `Prompt`: overlapping attempts may undo each other, but each
failure counts.
In `HttpRequests` every call of a request ends, in its answer or its failure
(`POOL_TIMEOUT`, the keep-alives of `core/database.py:23-25`); nothing is asked of the
database, the scheduler or the time of a cancellation. In `Deployment` docker restarts what exits
(`restart: unless-stopped`), the database included.

Where the code does not do what its documentation says, a run shows it:

| Run | Says | Does |
|---|---|---|
| `dead_letter` | `dead_letter` is terminal (README.md:56) | a late `mark_ready` overwrites it |
| `uow_lost_update` | "Commit on success" (`uow.py:28`) | a block of a batch returns and its UPDATE is not committed |
| `uncounted` | a failed attempt increases `retries`, so the LLM is not called for ever (README.md:55-59) | an attempt that fails in the database after the LLM has answered is logged only, and repeated without limit |

`uow_lost_update` is reached without any two calls meeting on one session, so it
rests on nothing but `self.session` being overwritten; the session of the loser is
closed by nobody, which is why `ConnectionsReturn` needs the garbage collector.

Without `Prompt`, `SingleOwner`, `KeepsContract` and `AiUsedKept` fail as well, all for the
same reason: a reclaimed ticket has two jobs. In the case of `AiUsedKept` the second
job finds the ticket itself, which the first has just made ready, as a duplicate,
and stores the answer back without the flag and the tokens. "No ticket can be claimed
twice" (`ticket_repository.py:147-148`) is therefore true of two claims that meet, and
only as long as jobs end in time. In the same way "poll GET for the result"
(`api/tickets.py:64`) needs a client that forgives a 404: the 202 leaves before the
COMMIT (`AcceptedIsStored` says exactly what it is worth).

## 4. Proofs

Assumptions: `RepositoryAssumption`, `PipelineAssumption`, `UnitOfWorkAssumption`,
`CallersAssumption`, `RequestsAssumption`, `DeploymentAssumption`, `TextAssumption` (types
and bounds of the constants; one scheduler per process, `lifecycle.py:27`; a fresh row must
not count as stuck if `Prompt`; a keyword is a word in small letters). No theorem depends on the sizes of
the runs; those that count jobs ask for finitely many workers.

* `TicketPipelineProofs`: `TypeCorrect`, `RetryLedgerHolds`, `AnswersFitHolds`,
  `SettledNotClaimedHolds`, under any timing. The inductive invariant `Inv` adds to the
  types what a job carries: `StageFits` says that a job reaches only stages its text allows and that its
  pending result fits its text. Without it, `MarkReady` could store anything.
* `TicketCountingProofs`: `LlmCallsLimitedHolds` and `DuplicatesBoundedHolds`, under any
  timing. Both count jobs, so neither follows from looking at one job at a time.

  Calls: `CallsInv` adds an account of each ticket (`Balanced`). While the ticket is not
  settled, every call is one of a job still past its lookup, of the request that
  brought it, of a failure that counted, or of a lost attempt; a failure counts at
  once for every scheduler whose job of this ticket it overtakes, hence the factor
  `Cardinality(Schedulers)`. Once the ticket is settled nobody claims it, so the account
  only has to cover the jobs that are still looking. A process has one scheduler, so a
  crash, like a loss, ends at most one attempt of a ticket that no other entry covers.

  Duplicates: `DuplicatesInv` adds `FewJobs` (a request works on one ticket, a scheduler on
  no more than its batch) and the bound itself. `UsesLlm(t)`, the tickets of text `t` that
  the LLM has answered or is answering, grows only when a lookup finds no ready ticket
  of the text (`LookupMissesNothing`); at that moment all of them are under way, and
  `Seats` gives each a place of its own among the requests and the batches.
* `TicketPromptProofs`: `OneOwner` and `LlmCallsBounded`, for `Prompt`. `PromptInv` adds
  `Owned` (the row of a live job is processing and too young to be claimed), which
  is why nobody else takes it, and `Budget`: an LLM call that neither `retries`
  nor `lost` counts belongs to a live job past the lookup or to a ready row. Each
  ticket is looked at alone (`PromptPart`); a step leaves it untouched, claims it,
  moves its only job on, or ends it. `AiUsedIsKept`
  follows from `SettledStays`: no step but the operator's writes the row of a settled
  ticket. `DeadLetterStays` and `CountedUnlessLost` say what it takes for two statements of
  the README of the repository to hold that the runs `dead_letter` and `uncounted` refute:
  jobs within their timeout for both, and for the second that no attempt is lost
  (`MaxLost = 0`, the limit of what the model lets be lost).

  `ContractKept` is the refinement of `TicketContract`, for `Prompt` too. Initial states map to initial
  states and every step to a step of the contract or a stutter. A store is the
  contract's `Answer` or `Fail` because `Owned` says the row is still processing;
  this is what breaks in the run `dead_letter`, where `Prompt` is false.
* `LlmClientProofs`: `TypeCorrect`, `ResultOrNoneHolds`, `NoCallOnClosedSessionHolds`, for
  any set of callers. `RequestFits` says what a call makes of any body;
  `SessionFits` that nobody waits outside of the time the application is up, and
  that the session is open during it and until `CloseSession`.
* `UnitOfWorkProofs`: `TypeCorrect`, `AloneBlocksKeepPromise`, for any number of tasks
  and blocks. The invariant follows a block that has been alone so far: `current`
  is its session, no one else uses it, its UPDATE is pending in it and in no other.
* `HttpRequestsProofs`: the type invariant and the five safety invariants of the run, for
  any set of requests and any pool. The inductive invariant looks at each request alone: what it holds at
  each stage, that every block that is over has committed unless there is an
  exception, and that only the routes on the session of the request have calls left after their
  response. No step of another request, of the scheduler or of the database
  changes any of this (`FrameFits`).
* `DeploymentProofs`: `TypeCorrect`, `SchemaFollowsVersion`, `ServesItsSchema`,
  `UpgradesAreWhole`, for any number of containers. An upgrade may begin from a version that is
  no longer the table's; `AlreadyThere` shows that PostgreSQL then refuses its first
  script, since every revision adds a column that no later one drops. So an open
  transaction knows the table's version (`UpgradesFit`), and there is only one
  (`OneTransaction`). A new revision that only drops or alters would have to
  be looked at again here.
* `TextRulesProofs`: `NormalFormHolds`, `DegenerateHolds`, `DoubtRemainsHolds`, for texts of
  any length, any keywords and any limit of the fast path. The normalized text grows by
  nothing, by the new character in small letters, or by a space and that character
  (`NormalizedStep`); the second case ends a word or goes on with it, the third begins one.
  The invariant `TextFits` adds to the property what a next character can find: the
  text that is about to be stripped has single spaces only (`Tidy`) and ends in one exactly
  when there is a gap after the last word of the text (`Placed`); it has a letter exactly
  when the text has one (`SameLetters`).

  No theorem of induction is cited, since those take an operator. `Least` gives every set of
  numbers a smallest one, from the well-founded order of finite sets; a smallest length
  without, or with two, of the recursive functions inside `FlattenSeq` is a contradiction
  (`FlattensExists`, `FlattensUnique`). From there on the induction is that of the
  specification, over a text that grows.

Only model-checked: the liveness properties (`StaysSettled`, `ConnectionsReturn`,
`EveryRequestEnds`, `EveryoneServes`), because liveness under fairness is beyond the prover.

## 5. Not modelled, and the plan

What could follow: `UnitOfWork` on the pool of `HttpRequests`, where a
`copy` block that waits for a connection while it holds another could be seen.

Not modelled: logging and request schemas (no state); `/version`; reading the
configuration; `get_session` and `shutdown_db`, which nothing calls; the offline mode
of alembic, which prints SQL; recycling of connections by age; the values of columns a
migration drops (`tokens_used` is dropped without being carried over,
`2026_07_16_1148-d234ba37270d:43`). The singletons of `dependencies/infrastructure.py`
keep a session that `on_shutdown` has closed; the lifespan runs once per process, so
nobody meets it, and `NoCallOnClosedSession` covers the time until the process ends.
