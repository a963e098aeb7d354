# Verification of my-life-movie-backend

TLA+ models of the parts of this backend whose correctness depends on the order
in which several processes act, on what may fail between two steps, or on
arithmetic at a boundary; TLC configurations that check them on small instances;
TLAPS proofs of what matters most for every instance.

## 1. Inventory

### Processes and stores

| part | runs as | state |
| --- | --- | --- |
| API (`app/main.py`, `app/routers`, `app/api`) | one uvicorn process per container (`Dockerfile`); `async` handlers with synchronous database and Redis calls, so a handler that awaits nothing excludes every other of its process | none of its own |
| video worker (`app/workers/video_generation_worker.py`) | one or more containers, restarted when they end (`docker-compose.prod.yml`) | the entries of its current batch, the database session of the entry in hand, the provider's remote job |
| MySQL 8.4, REPEATABLE READ | external | `users`, `auth_refresh_tokens`, `movies`, `video_generation_jobs`, `movie_recommendations` |
| Redis 7.4 | external | the stream of job ids with its consumer group; refresh tokens |
| OpenAI, fal, TMDB, Spotify, Deezer, S3 | external HTTP | their own jobs, objects and catalogues |
| the browser | external | the refresh token cookie, an access token |

`app/db/session.py` sets `autoflush=False, expire_on_commit=False`; no model has
a version column. Two consequences run through the whole system: what a session
has read in an open transaction it reads again unchanged, and an UPDATE names
only the changed columns and is conditioned on the primary key alone.

The handlers of authentication and of recommendations never await, so requests of
one API process do not interleave there. The modules of both let several
processes (several containers, or workers of uvicorn) serve the same users; one
process is the special case in which the steps of a request follow each other.

### Components

| component | state it keeps | operations | interacts through | correct means |
| --- | --- | --- | --- | --- |
| video generation service (`services/video_generation_service.py`) | movie status, job rows | request, progress, succeed, fail, cancel | repositories, queue | one job in progress per movie; a settled job stays settled; the movie follows its job |
| job repository (`repositories/video_generation_job_repository.py`) | job rows | create, claim, update, lookups | MySQL | one winner per claim |
| queue (`services/video_generation_queue.py`) | stream, group, pending list | ensure_group, enqueue, consume, reclaim, ack | Redis | no accepted job loses its entry |
| worker (`workers/`, `services/video_generation_worker_service.py`) | batch, session | reclaim, consume, run, record progress, mark, ack | queue, service, provider | one provider call per job; a dead worker's job is settled |
| video providers (`services/video_generation_provider.py`) | the remote job, its deadline | submit, poll, download; prompt, payload | HTTP, storage, job row | a success is real; a run is bounded; a remote job is known; the prompt keeps its story |
| file storage, delivery (`services/storage_service.py`, `api/movies/router.py:423-706`) | stored objects, `output_url` of jobs | put; list, download info, download | local disk or S3, settings | the download is the file the latest run stored |
| movies and story drafts (`api/movies/router.py`, `services/story_generation_service.py`, `video_generation_input_service.py`) | draft, chat history, brief, prompt, files, music | create, music, files, chat, finalize, generate, delete | MySQL, chat model (awaited) | nothing answered is undone by a request that waited; draft and history, and brief and prompt, are shown from one write each |
| authentication (`services/auth_service.py`, `core/deps.py`, `routers/auth.py`) | users, access tokens | signup, login, me, current user | MySQL, token service | one account per address; only active accounts get tokens |
| refresh tokens (`services/refresh_token_service.py`, two stores) | token rows, families, the cookie | issue, rotate, revoke, expire | Redis or MySQL | one current token per login; a token has one successor; logout is final; the browser keeps up |
| recommendations (`services/movie_recommendation_service.py`, its repository) | stored rows per movie | read or plan, search, rank, replace | OpenAI, TMDB, MySQL | one request's whole result is stored, the best first |
| music (`routers/music.py`, `PUT /movies/{id}/music`) | the movie's choice | search with fallbacks, recommend, choose | Spotify, Deezer | the fallbacks end and offer music; no song twice |
| images (`routers/images.py`) | none | fetch, check, resize | HTTP | the checks come in order; proportions survive |
| shell (`main.py`, `core/errors.py`, `core/middleware.py`, `core/deps.py`) | request id, session | layers of a request | every route | every answer has its id, every request one log line that tells its answer, no error is answered with its session open |
| settings, logging, OpenAPI, themes, migrations | constants | - | - | - |

### What is hard here

Each entry of `PROJECT.json` "hazards" names one of these at its line:

* a status check made on an old snapshot followed by an unconditional update
  (result against cancel, progress against everything);
* two commits that belong together with another process, or a crash, in between
  (job and movie, row and stream entry, job and late `GENERATING`, account and
  its first tokens);
* redelivery: a reclaimed entry whose first holder is alive, an ack by a holder
  that lost the entry, a batch whose later entries grow old while earlier ones run;
* rows that disappear under a worker, a chat turn or a recommendation request
  because the movie is deleted;
* one refresh token presented twice, overtaking answers, expiry and logout in
  between, and row locks that wait for each other;
* rows written after an await from what was read before it;
* a remote job that goes on while nobody looks: its end races the deadline, the
  crash of the worker, the lost answer, the write that was to record it;
* settings that are interpreted twice, by the writer and the reader of a URL;
* chains of fallbacks, limits and roundings.

## 2. Modules

| module | what it is |
| --- | --- |
| `GenerationLifecycle` | the abstract promise for one job row: created QUEUED, claimed at most once, provider called at most once and only after the claim, settled, removed with its movie |
| `VideoGeneration` | the pipeline: API processes, stream, workers, both tables; implements `GenerationLifecycle` |
| `VideoGenerationTimed` | the same steps with two durations: an entry's idle time and a provider run |
| `VideoProviders` | inside `VideoGeneration`'s one call of the provider: submission, polls, clock, remote job, downloads, the job row |
| `VideoPrompt` | the prompt of a run: parts, order, truncation, for both providers |
| `MediaDelivery` | storage keys, URLs and what the download endpoints make of them |
| `StoryDrafts` | the movie's row under chat, finalize-story, uploads, music, generate and delete |
| `TokenFamily` | the abstract promise for one login: one current token, spent tokens stay spent, an ended login stays ended |
| `RefreshTokens` | both token stores, rotation, revocation, two handlers, the browser; with Redis it implements `TokenFamily` |
| `Accounts` | signup, login, access tokens and who accepts them |
| `Recommendations` | stored recommendations under InnoDB's gap locks |
| `MusicSearch` | the two music endpoints with their fallbacks, and the choice the movie keeps |
| `ImageResize` | the checks and the arithmetic of one resize |
| `RequestPipeline` | the layers of the application around every handler |
| `VideoGenerationProofs`, `VideoRecoveryProofs` | theorems about `VideoGeneration`; about recovery, there and in `VideoGenerationTimed` |
| `RefreshTokensProofs`, `VideoProvidersProofs`, `AccountsProofs`, `StoryDraftsProofs`, `RequestPipelineProofs` | theorems about the module each is named for |
| `ApplicationProofs` | the theorems about `MCApplication`: those of its parts carried over, and the proofs about music, images, media, recommendations and prompt |
| `MCVideoGeneration`, `MCVideoGenerationTimed`, `MCApplication` | small sets and symmetry; `MCApplication` composes nine of the modules for TLC |

How they meet. `VideoGeneration` takes the provider run as one call with
progress reports in between; `VideoProviders` opens that call up for one job, and
its row changes are those of `RecordProgress`, `Mark` and `FailCrashed`
(`RunsLikeAWorker`).
`RunBounded` of `VideoProviders` is what `MaxRun < MinIdle` of
`VideoGenerationTimed` compares with. `StoryDrafts` fills the columns whose
presence is `promptReady` in `VideoGeneration` and takes the snapshot
`VideoPrompt` turns into a prompt. `MediaDelivery` starts where
`VideoProviders` ends, with a stored object and a URL in the row. `Accounts`
only knows that a login got a family; `RefreshTokens` has the family.

### `VideoGeneration`

One step is one commit, one Redis command, or one read that a later write depends
on. The parts of a handler between two such points are one step, because nothing
another process does can be seen there.

| code | steps |
| --- | --- |
| `request_generation` | `RequestGeneration` (all checks), `CreateJob`, `EnqueueJob`, `MovieGenerating` |
| `cancel_generation` | `CancelGeneration` (reads), `CancelJob`, `MovieDraft` |
| `delete_movie` | `DeleteMovie`, with the foreign key's cascade |
| chat, finalize-story | `WriteStory`: only whether a generation prompt is stored |
| a request that is killed or gets an error from a store | `ApiAborts` |
| `run_forever`, `process_batch` | `Start`, `Reclaim`, `TakeReclaimed`, `Consume`, `ConsumeNothing` |
| `_process_reclaimed`, `claim` | `ReadReclaimed`, `Claim`, `StartProvider` |
| `_record_progress` | `RecordProgress` (commit), `Refresh` |
| `mark_generation_succeeded` / `_failed` | `Mark` or `FailCrashed` (job's commit), `RefreshMarked`, `UpdateMovie` |
| `ack` | `Ack` |
| an uncaught exception, a kill | `OrphanExits` and the `Exit` branches, `Crash` |

State: `saw[w]` is the job row as the worker's open transaction sees it, so
`Mark` and `RecordProgress` decide on `saw[w]` and write `jobStatus`/`progress`;
`sawMovie[w]` and `apiSaw[a]` are the loaded movie status, which decides whether
an UPDATE of `movies.status` is emitted at all. `pel` is the pending list of the
consumer group; who the consumer is does not matter to any command the code
issues, and the worker's own copy of an entry is `todo[w]` and `job[w]`.
`calls[j]` is history: how often `provider.generate` was called for job `j`.

Errors follow SQLAlchemy. A commit that updates a deleted row raises
StaleDataError; `repository.update` rolls the session back, which expires every
object in it. The worker's claimed `job` is one of them, so the next `job.id`
loads a row that is gone and raises an error nobody catches: the process ends
(`orphaned`, then `OrphanExits`, or the `Exit` branch of `Mark`). `_fail_crashed`
uses the plain id of the message and goes on to the ack.

Switches. `IdleCoversRun` restricts `Reclaim` to entries no live worker holds.
TRUE is what `app/core/config.py:49` wants `min_idle_ms` to achieve; FALSE lets any
pending entry be reclaimed at any time, which covers every setting and every slow
run; `DurationsCover` proves that the timed model meets the restriction when the limit
outlasts a whole batch. `ApiMayAbort` lets a request end between two commits. `GroupAtStart` says
whether the consumer group exists before the first request; FALSE is a fresh
deployment. `core_safety` makes none
of these assumptions. `OneInProgressPerMovie` is about a deployment with one API process: two
can pass the check before either inserts.

### `VideoGenerationTimed`

`Tick` advances time only when every live worker waits (in a provider run that
has time left, or in the blocking read); all other work takes no time. `Reclaim`
must return the first `ReclaimCount` entries idle for `MinIdle`, in stream order.
`MaxRun < MinIdle` is the assumption the comment in `config.py:49` states (900 s
and 1200 s by default); what protects a live worker is `ReclaimCount * MaxRun < MinIdle`.

### `VideoProviders`

`pc` is the next step of `provider.generate`. Calls and writes to the row are separate
steps, and each of them can fail by itself:

| code | steps |
| --- | --- |
| `videos.create`, the POST to fal's queue | `Submit`; `SubmitAnswerLost` when the provider has taken the job and nobody learns of it |
| the first `progress_callback` | `Accepted`: the commit that makes the row name the remote job |
| the loop | `Check` (the clock), `Retrieve` (OpenAI checks the clock after it has retrieved, fal before it reads the status), `Report` (the callback of each turn), `Wake` |
| result and downloads | `GetResult`, `DownloadVideo`, `DownloadThumbnail` |
| any call, any commit of a report | `CallFails`, `WriteFails` |
| an exception out of `generate` | `Raise`, then `MarkFailed` with the code its message leads to |
| a kill, the reclaim of the entry | `Crash`, `FailCrashed` |

`raised` is what the message of the exception says, because `provider_error_code` goes by
its text: the client's timeouts and a 504 or 408 of `raise_for_status` speak of a timeout
whatever was read of the job before. `SuccessIsReal`, `RemoteJobKnown` and
`GivenUpPending`, the parts of `RowMatchesRun`, are what remains true with that: a row
without `provider_job_id` is of a run that has not got beyond its submission, and only
giving up at fal's own deadline implies a job that was pending. Every HTTP call lasts up to
`CallTime` ticks (the clients' own timeouts). `remote` moves on its own (`RemoteMoves`)
whether or not anybody polls, also back from in_progress to queued and to a state the code
does not list. The mock provider reports 100 and returns.

### `VideoPrompt`, `MediaDelivery`, `StoryDrafts`

`VideoPrompt` represents a text by its length after normalisation; labels and
fixed sentences have the lengths of the source, so that the cut at 2800 falls
where it falls in the code. The code filters blank texts out of its lists; here
they keep their place with length 0 and `Ends`, a recursive function, says where
each line ends when the others are joined. `MediaDelivery` represents keys and URL paths by
sequences of segments, quoting by a wrapper, and the local base path by the
segments its two normalisations produce; `Succeed` stores as the provider does,
`download` resolves as the router does. `StoryDrafts` splits chat and
finalize-story at their only await: `ChatPrompt` and `FinalizeStory` load the row,
`AwaitModel` is the model's answer, its first timeout (asked again) or its
failure (fallback), `Update` writes the columns that differ from what was loaded
(`Flush`), or fails because the row is gone. Draft, brief and prompt are
represented by the chat turns they were made from. Because only differing columns are
written, a chat that loaded a row without a prompt leaves the prompt a finalize-story has
committed meanwhile, and the summary shows it beside a later draft. `SummaryConsistent`
therefore has two parts: `Paired`, of what is written together, and that prompt and history
part only by a request whose row was changed while it waited (`Overtaken`).

### `RefreshTokens`, `TokenFamily`, `Accounts`

A token stands for its id, its hash and its row. For Redis a step is one command
or one transaction: `Lookup` (GET), `CheckExpiry`, `MarkExpired` (unconditional
SET), `LoadWatched` (WATCH and GET), `Exec` (EXEC, or the conflict that starts the
loop over, `Retry`). For MySQL: `Insert` (the flush of the successor, which takes
a shared lock on the predecessor's row through the foreign key), `Write` (UPDATE
and COMMIT) and `DeadlockVictim`. `CheckUser` is the look at the account that
`auth_service.refresh` takes after the rotation. `Deliver` is the answer reaching
the browser: the last answer delivered sets the cookie. `Expire`, `Evict` (TTL of
the keys), `SetUserStatus` and `Fail` (kill, store error, lost answer) happen at
any time; `lost` remembers that an answer was lost or the account suspended, after
which the browser may rightly hold a spent token.

The refinement to `TokenFamily` maps the current token of a family to its ACTIVE
row. Ending a family (logout, expiry, eviction) is one step there.

`Accounts` has one step per transaction of signup (lookup, insert under the unique
constraint, tokens) and login (lookup and checks, `mark_last_login`, tokens);
addresses are typed in several spellings. `activeSeen` remembers which accounts were
ACTIVE at some moment of a request: a token is earned by that.

### `Recommendations`, `MusicSearch`, `ImageResize`, `RequestPipeline`

`Recommendations`: a request reads the stored rows or searches, ranks and replaces
them; the stable sort is stated by places, which is what a proof can use. A process that has
executed its DELETE keeps in `gone` the rows that were there for it, and at its commit those
rows, and no others, leave the table and its own join it: two that both deleted nothing
would leave a mixture. What prevents it is the locks (`Holders`). A DELETE that finds no row
locks the gap and does not exclude another; the INSERT into the gap waits for the other
holder, and InnoDB kills one of two that wait for each other (`Abort`, 500); a DELETE that
finds rows waits for whoever deletes them. `MusicSearch`: each external call of the chain
is a step with three outcomes (songs, none, failure). `ImageResize`: one step that
applies the checks in the order of the code.

`RequestPipeline`: a request descends through the layers (`ServerErrorMiddleware`, context
middleware, CORS, exception handlers, router) and an answer or an exception comes back up
through them. An exception carries the status the code raises it with (`Statuses`): an
`HTTPException` with 500 or 502 is answered by its handler and logged as request_completed,
only an unknown exception passes the middleware. What does not validate is raised after the
dependencies are solved, so a session may be open then. `get_db_session` closes it behind an
exception before the handlers see that (`SessionAfter`), and behind an answer after it was
sent (`CloseSession`). A CORS preflight, which the CORS layer answers itself, and the metrics
middleware are left out.

### `MCApplication`

The nine modules it instantiates share no state in these models, so nothing is
lost by exercising them one at a time: `part` is chosen in `AppInit`, the part's
`Next` runs, and the others stay in an initial state. `VideoProviders` is extended
(its theorems and the run speak of the same definitions), the others are instances. A full product would
multiply states without adding a behaviour of any part. Fairness is stated per
part, on that part's variables. `VideoGeneration` and `RefreshTokens` have runs of
their own.

## 3. Runs

Deadlock is checked in every run; where a part may be done, its `Idle`, `Ended` or
`Done` step says in which states.

| run | instance | checks |
| --- | --- | --- |
| `core_safety` | 2 workers, 1 API, 1 movie, 2 jobs, 1 crash, any reclaim, aborts, fresh group, reports 0 and 200 | `TypeOK`, `ClaimDiscipline`, `ProviderAtMostOnce`, `OneInProgressPerMovie`, `ImplementsLifecycle`, `ProgressNeverDecreases`, `MovieStatusEarned` |
| `api_processes` | 1 worker, 2 APIs, 2 jobs, aborts | `ImplementsLifecycle` when rows vanish inside a request |
| `recoverable` | 2 workers, 2 jobs, 2 crashes, `IdleCoversRun`, no aborts | `UnfinishedIsRecoverable`, `ResultIsKept` |
| `settles` | 2 workers, 1 crash, `IdleCoversRun`, no symmetry | `EveryJobSettles` under `FairSpec` |
| `batch_in_time` | timed, 2 movies, batches of 2, `MinIdle` 5, `MaxRun` 2, 2 crashes | `TimedTypeOK`, `OneHolder` |
| `token_rotation` | both stores, 2 processes, 4 tokens, 2 logins | `TypeOK`, `OneActivePerFamily`, `SingleSuccessor`, `PredecessorSpent`, `SecondTryEnds`, `CookieIsCurrent`, `LogoutEndsLogin`, `RotationOfFamilies` (refinement), `EveryRequestAnswered` |
| `application` | nine parts, see below | `TypesOK`; accounts: `OneAccountPerAddress`, `TokensEarned`; providers: `RowMatchesRun` (a success is real, the remote job is known from the first report on, fal's deadline found it pending), `RunBounded`, `ProviderRunEnds`; prompt: `StoryKept`; media: `LatestIsShown`, `VideosKept`; drafts: `SummaryConsistent`, `FinalizedUntilChat`, `SeenTurnsKept`; recommendations: `OneWholeResult`; music: `OffersMusic`; images: `AspectKept`; pipeline: `AnswersNameTheRequest`, `LogTellsAnswer`; `RequestsAnswered` |
| `settled_overwritten` | 1 worker, 1 job | `SettledIsFinal` is violated |
| `generating_forever` | 1 worker, 1 job | `GeneratingHasJob` is violated |
| `enqueued_before_group` | 1 worker, fair, fresh group | `EveryJobSettles` is violated |
| `live_run_failed` | timed, batches of 2, `MinIdle` 4, `MaxRun` 3, 2 crashes | `LiveRunNotFailed` is violated |
| `crashed_unreadable` | one provider run | `ErrorCodeReadable` is violated |

### Bounds and why they are enough

Video generation: `MaxJobs` rows ever created, `MaxCrashes` kills of workers. Both
are guards of `RequestGeneration` and `Crash` and nothing else is bounded (progress
values are 0..100, the stream and the batches are bounded by the jobs). Every race
of this code is between two holders of one entry, a worker and a request on one
movie, or two entries of one batch; two workers, two jobs and one crash contain
each of them, and the second job lets a request follow a cancelled or failed one.
Two movies matter only where two jobs are in progress at the same time, in the
timed runs. There two crashes leave two entries that are due together, which makes a
batch of two; `MinIdle` 5 is the smallest limit above the two runs of 2 ticks (with 4,
`OneHolder` is violated).

`token_rotation`: `MaxTokens` 4 and `MaxLogins` 2. The races are between two
requests that present the same token, or a token and its successor; four tokens
allow a login, two rotations of it and a second login. `Room` keeps an id for every
request under way, so no request is stopped by the bound.

`application`:

| part | bounds | why |
| --- | --- | --- |
| accounts | 2 processes, 1 address in its spellings, `MaxUsers` 2 | two rows would be the violation |
| providers | `MaxWait` 4, `PollInterval` 2, `CallTime` 2 ticks | several polls before the deadline, and the deadline can pass during each step; the proof has every value |
| prompts | text lengths 0, 30, 735, 1300, 3000; lists of up to `MaxListed` 5 | below, exactly at (735) and above the limit; one more scene than is taken |
| media | `MaxJobs` 3; both storages, plain and nested base paths | a success, then a failed or cancelled one, then another success; a full URL or nothing as base, and a hosted video on S3, are left out: they are the last two `api/movies/router.py` rows of the table of differences |
| drafts | 2 requests, `MaxTurns` 3, `MaxUploads` 1 | a turn between the load and the write of another, and one after |
| similar | 2 processes, `MaxRequests` 2, `Queries` 2, `limit` 2 | two replacements at once; more candidates than are kept, one without score, one without title |
| music | `MaxRequests` 2, `MaxFound` 2, `MaxMusicId` 10000 | a choice from an earlier answer; ids below and above the column's range |
| images | sides up to `MaxSide` 9, `MAX_DIMENSION` 4, 40 pixels | each check refused and passed at its boundary |
| pipeline | 2 requests, one client id or none | two requests in different layers |

`MAX_DIMENSION`, `limit`, `Queries` and `MaxMusicId` are smaller than in the code,
where they are constants without other meaning; the prompt keeps the code's 2800.

### Fairness

* `FairSpec` (`settles`, `enqueued_before_group`): a request under way continues
  (weak); a worker takes steps and is restarted (weak; `restart: unless-stopped`); a
  provider returns although progress keeps interrupting it (strong on `Mark`:
  `*_max_wait_seconds` bounds a run, see `RunBounded`); an entry nobody holds is
  eventually in a reclaimed batch (strong per job: its idle time only grows while
  nobody takes it).
* `RefreshTokens!LiveSpec`: uvicorn runs a handler to its end unless it is killed.
* `LiveAppSpec` of `MCApplication`: a provider's calls have client timeouts, the sleep
  returns and a dead worker's entry is reclaimed; the chat model's client has a
  timeout; the steps of a recommendation request and of a music request are taken.

New requests, logins, cancels, deletions, crashes, expiry and the moves of a remote
job are never fair.

### What the violations say

* `settled_overwritten`: the worker's transaction is opened by the read after the
  claim (or after the last progress report). A cancel committed later is not seen
  by `_ensure_status`, and the UPDATE has no condition on `status`: the job goes
  CANCELED to SUCCEEDED and the movie DRAFT to COMPLETED.
* `generating_forever`: between `queue.enqueue` and the last commit of
  `request_generation` a worker can finish the job. The movie is COMPLETED and is
  then set to GENERATING with no job left to move it on.
* `enqueued_before_group`: only the worker creates the group, at `$`. A request
  accepted before the first worker has ever started stays QUEUED, and its movie
  refuses every other request until it is cancelled.
* `live_run_failed`: with `video_generation_reclaim_count` above 1 the entries of a batch are run
  in sequence while their idle time already counts. `min_idle_ms` longer than one
  run does not protect the second entry. `batch_in_time` shows that a limit longer than
  all runs of a batch does; with the default batch of 10 and runs of up to 900 s that
  would be 9000 s, and the default is 1200 s.
* `crashed_unreadable`: `_fail_crashed` writes `WORKER_CRASHED`, which
  `GenerationErrorCode` does not list, so `GET /movies/{id}/generation` cannot
  serialise the failed job and answers 500.

### Other differences between code and documents

Seen while modelling; the models follow the code, and no run is kept for these.

| code | what it does | what is said |
| --- | --- | --- |
| `repositories/refresh_token_store.py:124` | under MySQL two processes can rotate one token: the UPDATE has no condition on the status | `README.md:239`: a rotated token cannot be used again |
| `repositories/redis_refresh_token_store.py:156` | `mark_expired` overwrites a rotation that happened since its lookup, and its `replaced_by` with it | `README.md:238` |
| `routers/auth.py:313` | a logout that loses the race to a refresh answers 200 while the successor lives on | `routers/auth.py:287` |
| `services/auth_service.py:104` | `/auth/me` answers 401 for a suspended account | `routers/auth.py:231` documents 403 |
| `services/video_generation_provider.py:223` | a run can last longer than `max_wait_seconds` by the calls under way (`RunBounded`) | `core/config.py:49` compares `min_idle_ms` with 900 s |
| `services/video_generation_provider.py:139` | a 504 or 408 on the result of a run that fal has COMPLETED is recorded as `PROVIDER_TIMEOUT`, because its message says timeout | `docs/ERD.md:300`: waiting for polling or generation took too long |
| `services/video_generation_provider.py:82,193` | a kill or a database error between the provider's answer and the first report leaves a paid remote job whose row has no `provider_job_id` | `docs/ERD.md:322`: the id is stored |
| `services/video_generation_provider.py:510` | a long story pushes the fixed constraints out of the prompt | `tests/unit/services/test_video_generation_provider.py:147` |
| `api/movies/router.py:191` | a chat turn answered while another waits is lost from the history | `router.py:214`: the history so far |
| `api/movies/router.py:283` | a finalize-story that waited stores a prompt without the turns answered meanwhile | `router.py:242` |
| `api/movies/router.py:194` | a chat that loaded the row before a finalize-story sets a prompt to NULL that was NULL for it, so the UPDATE leaves the finalized prompt beside the later draft and history | `router.py:231`: the summary of the final input |
| `api/movies/router.py:501` | the download information of an unfinished movie is a 200 that says it is ready, without a URL | `router.py:485`: of a finished movie |
| `api/movies/router.py:616` | after a later run that failed or was cancelled, the download is refused (409) though an earlier video is stored | `router.py:621`: no finished movie yet |
| `api/movies/router.py:634` | a `LOCAL_PUBLIC_BASE_URL` that is a full URL, or empty, is read otherwise than it was written | `README.md:136` |
| `api/movies/router.py:675` | with S3, the URL of a video that fal hosts is taken for a key and a link to an object that was never stored is signed | `README.md:138`: results are stored in S3 |
| `routers/music.py:126` | an id of Spotify's list is a position and is used again by the next answer | `docs/ERD.md:201` |
| `routers/music.py:202` | a track without preview is offered with an empty `file_url` | `music.py:289` |
| `routers/music.py:327` | Deezer down during a search is a 500 | `music.py:334` |
| `models/movie.py:43` | Deezer's ids can exceed INTEGER: `PUT /music` is then a 500 | `router.py:105` |
| `routers/images.py:84,86` | the derived side may exceed `_MAX_DIMENSION`, or be 0 (500) | `images.py:19,32` |
| `repositories/movie_recommendation_repository.py:41` | two first requests replace each other's rows, so a client's list is not the stored one | `router.py:571` |
| `services/movie_recommendation_service.py:343` | one candidate without a title makes the whole request a 500 | `README.md:154` |
| `core/errors.py:198` | an unknown route is answered by Starlette's own body, not a problem document | `core/openapi.py:15` |

## 4. Proofs

Every theorem is for all values of the constants that satisfy the named
assumptions of the module it is about.

`VideoGenerationProofs`, for every number of movies, workers, API processes, jobs
and crashes, every batch size, every set of reported progress values and every
setting of the switches:

1. `ShapeAlways`, `TypeCorrect`. `TypeOK` alone is not inductive: `RefreshMarked`
   loads the status of the job's movie, which is a status only because a job row
   never outlives its movie. `Shape` adds that foreign key, and that a process past
   its first step holds an id. One lemma per group of actions, with frame lemmas
   for the groups of variables an action leaves alone.
2. `ClaimDisciplineAlways`, `AtMostOneProviderCall`. `ClaimDiscipline` ties
   `startedAt` to the status (QUEUED rows are unclaimed), `calls` to the worker's
   position, and says that a job in a run is claimed. Most steps are `Quiet` (they
   create, claim and call nothing) and are handled at once; `CreateJob`, `Claim`,
   `StartProvider` and `ReadReclaimed` have a lemma each.
3. `Refinement`: each step is a step of `GenerationLifecycle` or a stutter, under
   the identity on `jobStatus`, `startedAt` and `calls`.
4. `OneJobPerMovie`, with the extra hypothesis that there is one API process: in
   the gap between check and INSERT no job of the movie gets into progress
   (`CheckStillHolds`). With two processes the property fails; the deployment has one.
5. `ProgressMonotonic`: only the one runner of a job writes its progress, so the
   value its open transaction saw is the stored one (`ProgressSeen`) and the maximum
   taken with it cannot go back.
6. `StatusIsEarned`: `MovieStatusEarned` is not inductive, because the movie's status is
   committed after its job's, in another transaction. `WritersOK` adds what holds in
   between: whoever is about to write a movie has a job of that movie with the past
   the status needs. That past stays (`PastStays`): neither a claim nor a provider call
   nor the movie of a job is ever undone.

`RefreshTokensProofs`, for every number of API processes, tokens and logins:
`TypeCorrect`, `OneActive`, `NoDoubleRotation`, `RotationIsAtomic`,
`LogoutIsFinal`, `NoThirdTry`, `BrowserKeepsUp`. One invariant `Inv` carries them:

* `RowsInv` is the promises themselves with the order of ids: `SpendKeepsRows` and
  `SuccessorKeepsRows` say that the two ways a row is written keep it, the second
  only if the predecessor is ACTIVE under Redis.
* `RequestsInv` supplies that: a process at EXEC has `stale` set exactly if its token
  stopped being ACTIVE since its WATCH, because every write to the row trips the
  watch. After a conflict the token is spent for good, so the second try ends the
  loop; the third that the code allows is never made.
* `CookieInv`: until it is delivered a successor is presented by nobody, so nobody
  can spend it; and whoever spent the browser's own token has a 200 still to
  deliver. Together the cookie of a browser that got all its answers is current.

`VideoProvidersProofs`, for every limit, interval and length of a call (natural
numbers, hypothesis `Durations`) and every configuration: `RunTypeCorrect`,
`RowMatches`, `RunIsBounded`, `ProgressKept`, `RunsLikeAWorker`. `Inv` adds to them which
steps each provider's loop has (`StepsOf`), that a job that ended is as the client saw it
(`ClientFollows`), what the row knows at each step (`RowFollows`: nothing before the first
report, the id from then on), and that a row is settled by the last step alone; `ClockInv`
says how late each step can be, from which the bound follows: the deadline counts from the
first report, and the sleep or the calls under way at the deadline still finish.
`RunsLikeAWorker` joins this model to `VideoGeneration`, which sees a provider run as reports
and one result: each step of a run changes the row as `RecordProgress`, `Mark` or
`FailCrashed` may (`RowStep`; a report by the lemma `Records`), or not at all.

`VideoRecoveryProofs`, about what keeps an accepted job within reach:

1. `RunningIsPending`, `AcceptedIsRecoverable`. `UnfinishedIsRecoverable` says of a
   row that some step can still finish it; it is carried by `RecoveryInv`. Every entry
   of a job is in one place (about to be added, waiting, pending: `EntriesOK`); what a
   worker holds is pending and nobody else's (`HoldersOK`); a worker about to
   acknowledge knows that the job is settled (`ResultsOK`); so a RUNNING row has a
   pending entry and a QUEUED one an entry or a request about to add it
   (`RowsReachable`). The proof needs `IdleCoversRun` in one place, where a
   reclaim must not take an entry out of live hands (`NothingSnatched`); a QUEUED row
   also needs `GroupAtStart` and no death between row and XADD (`ApiMayAbort` FALSE):
   without them an accepted job can be lost, as `enqueued_before_group` shows.
2. `TimedTypeCorrect`, `OneHolderAlways`, `LiveRunsAreSafe`, `TimedRecoverable`.
   In the timed model `NothingSnatched` is no assumption but follows from `BatchFits`,
   `ReclaimCount * MaxRun < MinIdle`, for every batch size: `Clocks` bounds the idle time of
   an entry by the runs its holder has behind it in the batch (`Behind`) and the time of the
   current one, so that an entry in live hands is not due (`DueIsFree`). Each timed step is a
   step of `VideoGeneration`, so the same lemmas carry `RecoveryInv`. The defaults of the
   code (10, 900 s, 1200 s) do not meet `BatchFits`; the run `live_run_failed` shows what
   that costs. `TimedRecoverable` also keeps the two assumptions about the group and about
   dying requests.
3. `ResultsAreKept`, `TimedResultsAreKept`: no worker writes over another's result, from
   `IdleCoversRun` and from `BatchFits`. The invariant is `NoResultYet`: the job of a
   worker that may still write has no result. A step that writes one writes the row of
   its own entry (`WritesOwnRow`), and `HoldersOK` gives that entry one holder.
4. `DurationsCover`: under `BatchFits` every step of the timed model is a step of
   `VideoGeneration` with `IdleCoversRun` TRUE, the setting of `recoverable` and `settles`.
   It says which deployments those runs are about: not one with the default settings.

`RefreshTokensProofs!FamilyRefinement`: under Redis every step is a step of
`TokenFamily` or leaves the families alone. The mapping takes the ACTIVE row of
a family, so each way a row is written gets a lemma: a row that keeps its
status (`RowFrameRefines`), a token spent (`SpendRefines`: the end of a family, or
nothing when it was spent already), a successor stored (`ReplaceRefines`: the
predecessor is the current token, by `OneActivePerFamily`), a login
(`LoginRefines`). `Inv` supplies that there is one such row.

`AccountsProofs`, `StoryDraftsProofs`, `RequestPipelineProofs`, for every number of
processes, requests, addresses, turns and uploads:

* Accounts: the row a signup or login works on is there (`RequestsOK`), the table has
  normalised addresses and none twice (`TableOK`: the unique constraint decides,
  the lookup before it does not), and a request that may still log in has every ACTIVE
  account in view (`SeenOK`), which makes the token earned.
* Drafts: the row loaded before the await is paired (draft with history, brief
  with prompt), and so is what `Update` makes of it, although it writes only the
  columns that differ from what it loaded into a row others wrote meanwhile; a
  chat's turn is later than all it loaded, so the columns it writes belong together. A
  request nobody overtook writes a prompt that agrees with the history (`InTimeAgrees`).
* Pipeline: requests do not touch each other, so the invariant lists what the four
  components of one request may be together: on the way down, an answer or an
  exception on its way up, gone. `RaisedIs` gives the status of an exception,
  `CloseSessionKeeps` the session closed behind an answer that is on its way or sent.

`ApplicationProofs` shows that each behaviour of `MCApplication` is one of every part
(`AppSpec => Part!Spec`: a step of another part is a stutter), so the theorems above
hold of the application, and it proves the parts that have no module of proofs:

* Images: integer division rounds down (`DivisionRoundsDown`), hence `AspectIsKept`.
* Music: what a request has gathered at each call of the chain (`GatheredOK`); a song
  two seeds find is appended once (`AppendNewKeeps`); hence `MusicIsOffered`.
* Media: `MediaInv` says that every object was stored by one run under a name of that
  run (`FilesOK`), and that a job shows the URL of what it stored (`ShownOK`).
  `VideosAreKept` follows because a run's names are its own. `LatestShown` needs that
  reading a URL undoes writing it (`KeyIsRead`, through stripping, quoting and the
  prefix), which is so when the public base is a path and the video not
  hosted; the other settings are in the table of differences above.
* Recommendations: the model ranks by counting, a candidate's place being one more
  than the number of those before it. `PlacesAreTaken` shows that every place is taken by
  one candidate, so `Kept` is a list without duplicates, best first (`KeptIsBest`);
  the stored rows are always those of one such list (`StoredRows`). That an insert leaves
  no rows of others beside its own is the locks' doing (`LocksOK`): what a process
  between its DELETE and its commit has deleted is all the rows there are, because nobody
  commits while another is between the two. Hence `OneResultIsWhole`.
* Prompt: `StoryReaches`. The cut drops a line exactly when it ends too late, so the proof
  is about where the lines end. `EndsAre` gives the recursion of `Ends` one step
  at a time and `EndsGrow` its order; both go over the positions of a list by
  the lemma `UpTo`, induction stated for sets of numbers, which needs no operator as a
  parameter. The fixed lengths then add up (`PartEnds`), and of the scenes at most four
  count.
* `TypesAreKept` collects the types of all parts, among them that a cut prompt fits
  (`CutFits`).

Assumptions. `BoundsAssumption`, `Bounded` and `Durations` say that bounds and durations
are numbers; `MediaAssumption` that settings have values `config.py` knows. They restrict
no behaviour of the code. `LatestShown`, `OneHolderAlways`, `LiveRunsAreSafe`,
`TimedRecoverable`, `TimedResultsAreKept`, `DurationsCover`, `AcceptedIsRecoverable`,
`RunningIsPending`, `ResultsAreKept` and `OneJobPerMovie` have hypotheses of their own, which
they state; the passing runs of their properties satisfy them. `BatchFits`, `GroupAtStart` and
`~ApiMayAbort` are not met by every deployment of the code; what happens without them is in
section 3.

Only model-checked: every liveness property (`EveryJobSettles`, `EveryRequestAnswered`,
`ProviderRunEnds`, `RequestsAnswered`), because fairness and ENABLED are out of the
prover's reach. Every safety property of a passing run is proved.

## 5. Plan

Done: video generation with the provider run, refresh tokens, accounts, drafts,
delivery, prompt, recommendations, music, images and the request pipeline, and the
proofs of all their safety properties. Next, in this order:

1. `MediaDelivery` with settings that change between a run and its download.
2. A Redis that loses its newest entries when it restarts.

## 6. Not modelled

* The share link (`router.py:547`) only formats a URL; titles and descriptions are
  stored as given. Presigned uploads and `delete` of the storage, `start_generation`
  and `get_next_queued_generation` have no caller, so a deleted movie's objects stay.
* Settings, logging format, OpenAPI texts, theme and preset lists, schemas without
  logic: no state. Migrations: the schema they define is in the modules.
* Hashing, JWT encoding, cookie attributes, e-mail validation; a token or password is
  a value that matches or does not.
* What the chat model, the planner and TMDB answer, and the score of a candidate:
  any answer, any score.
* Stream entries without a numeric job id: no caller adds one. Data loss at a Redis
  restart; settings that change between a generation and its download: see the plan.
* Whether a URL of an image is allowed is an input of `ImageResize`.
