# Hikyaku: specification and proofs

Hikyaku accepts events over HTTP, fans each one out to a tenant's webhook
endpoints, delivers them from a queue with retries, and lets a tenant replay what
failed. This directory models the delivery core, the services around it and the pages
of the console in TLA+, model-checks them with TLC and proves every invariant
and action property of the runs with TLAPS. `PROJECT.json` lists the components, the
runs, the hazards of the code and, for every definition, the lines it translates.

## 1. The system

Two processes share a Postgres database and a Redis server: the API
(`apps/api`, any number of instances) and the worker (`apps/worker`, any number).
`packages/shared` holds the schema and the code both use; `apps/web` is the console.

| Part | State | Operations | What makes it correct |
|---|---|---|---|
| Ingest (`ingest/fanout.ts`, `events/handlers.ts`) | `events`, `deliveries`, `delivery_outbox` | one transaction: insert the event or find it by idempotency key, insert deliveries of active endpoints and their outbox rows, roll the event up; then enqueue and acknowledge | a committed delivery is never left with neither an outbox row nor a job |
| Enqueue and acknowledge (`queue/publish.ts`, `enqueueDelivery.ts`) | outbox, queue | race the enqueue against 3 s; 503, or delete the outbox rows | nothing is acknowledged that the queue did not accept; a late enqueue does no harm |
| Replay (`deliveries/handlers.ts`) | a delivery row | read; compare-and-set from `failed` to the next run; outbox row; enqueue | one run at a time; old workers and jobs cannot write into a new run |
| Worker (`processor.ts`) | a delivery row, `delivery_attempts`, the job | admission, claim (reserves an attempt), POST, outcome under a lease, move to delayed | the lease excludes; an attempt number is used once; at most `MAX_DELIVERY_ATTEMPTS` POSTs in a run |
| Sweeper (`sweeper.ts`) | outbox, delivery rows, a Redis lock | drain the outbox; reclaim stale rows; enqueue both, in batches | it never takes a live lease; it loses no row; it recovers every orphan |
| Queue (BullMQ) | jobs | deduplicated add, job locks, delayed and stalled jobs | external; modelled as the code relies on it |
| Event roll-up (`eventStatus.ts`) | `events.status` | lock the event, then recompute in a second statement | the status agrees with the deliveries in every committed state |
| Rate limits (`rateLimitWindow.ts`, `rateLimit.ts`, `authRateLimit.ts`, `ingestRateLimit.ts`) | counters in Redis | one script: test all keys of a call, then take from all; defer the job, or answer 429 | while a minute lasts its counter is the number of calls it admitted; nobody is blocked beyond the minute |
| Sweeper lock (`sweeper.ts`) | a Redis key with expiry, a timer | SET NX PX, batches until the deadline, compare-and-delete, stop | one sweep per lock; nobody deletes another's lock |
| Runtime (`runtime.ts` of both) | process resources | start; drain, close and exit against one deadline | shutdown ends, in order, and the exit code tells how |
| HTTP client (`httpClient.ts`, `webhookUrl.ts`) | a call, the lookup cache, idle connections | resolve, check, connect to what was checked, follow redirects | one deadline for all of it; only checked addresses; a whole answer |
| Idempotent ingest (`fanout.ts`) | an event under a key | insert or find, compare the bodies, fan out | 202 means: stored as sent, and on its way to whoever was active |
| API keys (`routes/api-keys`, `auth/apiKey.ts`) | rows | create, rotate, revoke, touch | rotation leaves exactly one successor |
| Sessions (`routes/auth`, `requireSession.ts`, `sessions.ts`) | sessions, a password hash | login, logout, password change, reset, workspace creation | old sessions die with the old password |
| Accounts and admin (`auth/invites.ts`, `passwordReset.ts`, `routes/admin`) | users, invites, resets, tenants | bootstrap, invite, accept, reset, removals | links are used once, by whom they are for; the last user stays |
| Console hooks (`usePaginatedList`, `useDetailFetch`, `useDashboardSnapshot`, `page-cache`, `SessionProvider`) | rows shown, a cache, request generations | fetch, poll, paginate, clear | a late answer never replaces a newer one |
| Console pages and dialogs (`pages/*`, `components/*`) | forms, targets, secrets, redirects | submit, close, navigate | what is shown belongs to what is asked about |

The hardest behaviour is in the first seven rows, which share state. There is no distributed transaction
between Postgres and Redis: every hand-over (outbox to queue, retry row to delayed
job, reclaimed row to job) can be cut in two by a crash, a timeout or a lost reply,
and several mechanisms repair each other's losses: the outbox, BullMQ's stalled
check, the stale scan, replay. They all meet in one row of `deliveries`, whose only
protection is the compare in its UPDATEs. There, `updated_at` is at once the lease
of a worker, the age the sweeper looks at, and a value that other writers set.

The other rows keep to themselves: each is exposed to its own clients and failures,
and touches the others by one fact (a job is admitted or not, a sweep runs or not, a
POST has one answer, an endpoint is active or not), which the pipeline takes as a
choice. In the console the hazard is asynchrony in one process: React runs the
effects of a render after it, answers arrive between the two and in any order, an
abort does not stop an answer that is already queued, and the user navigates,
submits, or closes a dialog meanwhile.

## 2. Modules

| Module | Models | Shape |
|---|---|---|
| `DeliveryRow` | a row of `deliveries` and the statements that change it | functions from rows to rows; no state |
| `DeliveryQueue` | the BullMQ queue with the deduplication of `enqueueDelivery.ts` | a function from job ids to states |
| `DeliveryPipeline` | API requests, worker calls, sweeps, queue, outbox, attempts, a clock | state machine; one action per statement, transaction or external call |
| `MCDeliveryPipeline` | instances for TLC | symmetry sets |
| `DeliveryContract` | what the deliveries of an event promise a tenant, without rows, leases, queues or clocks | abstract specification that `DeliveryPipeline` implements |
| `DeliveryProgress`, `MCDeliveryProgress` | `DeliveryPipeline` running for ever, under fairness | state machine, liveness |
| `DeliveryPipelineProofs` | type correctness and the lease | TLAPS |
| `DeliveryAttemptProofs` | attempt numbers, outcomes, the history of a row, the contract | TLAPS |
| `DeliveryOutboxProofs` | the outbox | TLAPS |
| `EventRollup`, `MCEventRollup` | the roll-up at statement level, inside concurrent transactions | state machine |
| `EventRollupProofs` | theorems about `EventRollup` | TLAPS |
| `RateLimitWindow` | the window script, its keys, expiries and callers | state machine |
| `SweeperLock` | the Redis lock, deadline, timer and `stopSweeper` of several processes | state machine with fairness |
| `Shutdown` | `shutdown` of a worker or an API process | state machine with fairness |
| `WebhookRequest` | `postWithTimeout` with lookups, cache, connections and redirects | state machine with fairness |
| `Sessions` | one account, its sessions and its password | state machine |
| `Accounts` | bootstrap, invites, reset links, removals as transactions with row locks | state machine with fairness |
| `ApiKeys` | the keys of a tenant | state machine |
| `TenantIngest` | requests under one idempotency key, endpoints that come and go | state machine |
| `ListFetch` | `usePaginatedList` and the page cache, as Deliveries, Events and Endpoints use them | state machine with fairness |
| `DetailFetch` | `useDetailFetch` with polling and replay, as the two detail pages use it | state machine with fairness |
| `Dashboard` | `useDashboardSnapshot` and what the dashboard makes of a snapshot | state machine with fairness |
| `SendEvent` | the form of a test event, its idempotency key and the accepted event | state machine with fairness |
| `SessionGate` | `SessionProvider`, the guards, login, logout, password change | state machine with fairness |
| `LinkPages` | AcceptInvite, ResetPassword and Bootstrap | state machine with fairness |
| `SecretsOnce` | the panels that show a secret once | state machine with fairness |
| `TargetDialogs` | the dialogs that change one thing of a list | state machine with fairness |
| `MCServices`, `MCApi`, `MCConsole` | the modules from `RateLimitWindow` on, as scenarios of one specification | composition for TLC |
| `MCServicesProgress` | the same under fairness | composition for TLC |
| `ServicesProofs` | rate limits, the sweeper's lock, shutdown, webhook calls | TLAPS |
| `ApiProofs` | sessions, accounts, keys, ingest | TLAPS |
| `FormsProofs` | session gate, links, send event, secrets, dialogs, detail pages | TLAPS |
| `ConsoleProofs` | lists, dashboard; the pages put together | TLAPS |

A definition whose comment begins with "Faulty:" is no part of the model: it is the
code with a plausible mistake. Replacing the right definition by it must make TLC
report the property named with it in `PROJECT.json` ("mutants").

### State and code

`row[d]` is the row of delivery `d` ("absent" before its insert); `outbox` the
delivery ids with an outbox row; `attempts` the rows of `delivery_attempts` by
`<<delivery, run, number>>`; `job` the queue. `worker[w]` holds the local variables
of a `processor` call (`lease` is `leaseStartedAt`, `run` is `row.replayCount`,
`attempt` is `reservedAttempt`) with a `pc` that says which call it awaits;
`sweeper[s]` those of `sweepOrphanDeliveries` (`at` is its `now`, `candidates` what
the SELECT returned), `handler[h]` those of a request. `queued`, `sent` and `acked`
are history variables: jobs the queue has accepted, attempts POSTed, runs that got
a 2xx.

| Actions | Code |
|---|---|
| `Ingest`, `HandlerEnqueues`, `EnqueueTimesOut`, `Acknowledge`, `HandlerFails` | `ingestFanout`, `ingestEvent`, `enqueueAndAcknowledge` |
| `ReadForReplay`, `Replay` | `replayDelivery`: the read, then the transaction |
| `Fetch`, `Admit`, `RateLimited`, `Claim`, `ClaimTimesOut`, `Post`, `Record`, `Delay`, `Finish` | `processor`, from one await to the next |
| `ProcessorThrows`, `WorkerCrashes`, `LockExpires` | a rejected call, a killed process, an expired BullMQ lock |
| `Promote`, `RecoverStalled`, `RedisLosesData` | BullMQ and Redis by themselves |
| `SelectOutbox`, `EnqueueOutbox`, `DeleteOutbox` | `drainDeliveryOutbox` |
| `SelectOrphans`, `Reclaim`, `EnqueueOrphans`, `SweepFails` | `sweepOrphanDeliveries`, `runSweep` |

### Abstractions

- The pipeline follows one event. A delivery stands for an (event, endpoint) pair;
  an endpoint is active or disabled at each moment the code reads its status. Which
  event an idempotency key finds is left out.
- One clock serves all processes and Postgres. The distance between taking a
  timestamp and the statement that carries it matters for the lease alone, and is
  bounded there by `ClaimDelay`: `connectionTimeoutMillis` and `statement_timeout`
  of `db.ts` are 5 s each, the lock duration is the delivery timeout plus 30 s,
  hence the assumption `ClaimDelay < WORKER_LOCK_DURATION`. Differences between the
  clocks of hosts are part of that delay. Elsewhere a write carries the time of the
  step. A POST may take any time: nothing in the model relies on its timeout.
- `next_retry_at` NULL is 0, the reserved attempt NULL is 0.
- A delayed job may come back at any moment, as BullMQ's clock is not the one
  `next_retry_at` is compared with; the claim's own test must suffice.
- An active job whose lock nobody holds waits again or fails, as BullMQ's
  stalled-job check decides.
- An answer to a POST is `ok`, `permanent` or `retryable`, the classes the code tells
  apart; the answer and the decision on it are one step, since nothing is awaited
  between them.
- Statements that change one row are atomic; `recordOutcome` and the replay's
  transaction are one step in the pipeline, because they hold the row's lock from
  their first statement on. `EventRollup` takes these transactions apart.

### The services: state and code

| Module | State | Actions |
|---|---|---|
| `RateLimitWindow` | `count`, `expires`: what INCR and PEXPIRE leave per key and window; `call`: where a caller is | `Start` computes keys and TTL on the caller's clock; `Admit`, `Refuse` are the script; `RedisFails` loses the reply before or after it ran |
| `SweeperLock` | `lock` and `sweep` with the time that is left of them | `AskRedis` and `HearRedis` are the two ends of SET NX PX; `Batch`, `Release`, `Fail`, `Crash`, `StopSweeper`, `Stopped` |
| `Shutdown` | `phase`, the calls waited for (`drain`, `closer`), `timeUp` | `Signal`, `DrainSettles`, `WorkerCloses`, `ServerClosed`, `CloserSettles`, `Deadline`, `WorkerForced`, `ApiForced`, `Exit` |
| `WebhookRequest` | per call: `pc`, `url`, `pinned`, `reply`; shared: `cache`, `idle` | `Refuse`, `CacheHit`, `Lookup` and its three ends, `Connect`, `RespondsWith`, `Data`, `End`, `Breaks`, `Abort` |
| `Sessions` | `hash`, `sessions` rows with the fingerprint they were given, `resets` | each handler from one await to the next, with the load of the row by express-session at the start and its possible write at the end |
| `Accounts` | rows, and `tx`: what a transaction has read, written and locked | a statement per action; a waiter is a disabled action; `Rollback` for errors, `DeadlockDetected` for cycles |
| `ApiKeys` | `keys` | SELECT and UPDATE of each handler apart; `touchLastUsedAt` at any later time |
| `TenantIngest` | `event`, `deliveries`, `outbox`, `queue` | insert or find, endpoints, deliveries and commit, enqueue, acknowledge |

Values are abstracted to what these compare: a password is its position in the
history of the account, a body is one of two, a name resolves to sets of public and
private addresses.

### The console: state and code

A module keeps what its hook or page keeps in `useState` and `useRef` (`view`,
`latest`, `abort`, `current`, `held` ...), the requests in flight with what they were
asked for, and a server that changes by itself and numbers its versions. "Rendered"
and "seen by the effects that ran last" are two values wherever an answer can arrive
in between. What a page shows, offers or disables is an operator on that state
(`Body`, `Offers`, `Shown` and the like), translated from its JSX.

Where the model stays close to a peculiarity of the code:

- `ListFetch`: another page's `clearPageCache` makes a load in flight drop its answer.
  The polled lists recover at the next poll; Endpoints does not poll and keeps its
  skeleton or old rows until the user acts (`ghost.dropped` exempts this case).
- `DetailFetch`: the first load of another item does not clear the error of the one
  before; a page with neither is what `Settled` rules out.
- `LinkPages`: a bootstrap that is answered "forbidden" leaves the remembered status
  "available" for its five minutes, and a late `loadBootstrapStatus` may overwrite it.
  The resets of an effect are merged with the navigation that causes them. The effect
  of Login that shows the link to the setup is left out.
- `SecretsOnce`: the tab of API keys allows a rotation of one key and a creation, or two
  rotations, at a time. The second answer replaces the first secret in the dialog,
  saved or not. The model has this; `CloseOnlySaved` is about closing the dialog.
- `TargetDialogs`: the rename dialog can be closed while it submits, and the busy flag of
  an edit is cleared by the reload of an earlier save, so that an answer may close the
  dialog of another row (`DeletionClosesOwn` holds of deletions only) and two saves of
  one label may be in flight.

## 3. Properties

`DeliveryPipeline`:

- `LeaseExclusive`: of all calls that have claimed a delivery, at most one can still
  record an outcome.
- `AttemptIsFree`: that call's attempt number is the row's, and unused, so its INSERT
  never rolls back the outcome of a webhook that was delivered.
- `AttemptBudget`: a call about to send has a number of its run that nobody has
  sent, although calls that lost their lease may still be sending.
- `DeadOnlyAtCap`: `max_attempts` means that every attempt of the run was used.
- `SucceededWasAcked`: a success belongs to the run that got the 2xx.
- `OutboxUntilQueued`: an ingested delivery is in the outbox until the queue has
  accepted a job for it.
- `RowHistory` (action): succeeded rows never change; failed rows change only to the
  next run; attempts of a run are never taken back.
- `ReclaimsOnlyStale` (action): an open delivery goes back to pending unrecorded only
  when it has been left alone for the lock duration, by the clock of that moment and
  not of the sweep.
- `KeepsContract` (refinement): every step is a step of `DeliveryContract` or changes
  nothing of it, with `state`, `run`, `posts` and `accepted` read off `row`, `sent`
  and `acked`. Runs follow one another, a POST has a number nobody has used in its
  run (whether or not the run is over), a run has one outcome, and a success has a
  2xx of that run behind it.
- `TypeOK`: types, and the cap on `attempt_count`.

`DeliveryProgress`:

- `EverySettled`: an open delivery is eventually succeeded or failed, in every run.
- `OutboxDrains`: no outbox row stays for ever.

`EventRollup`: `EventAgrees`, the event's status is the roll-up of its deliveries
in every committed state; `TypeOK`, which includes that at most one transaction is
past the event's lock.

The services and the console are checked through bundles: a property of `MCServices`,
`MCApi` or `MCConsole` says of the scenario that runs what its module says.

| Property | Parts |
|---|---|
| `LimitIsExact` | `WindowCap`, `CounterIsExact`, `CountersExpire`: a call that one key refuses uses up nothing of the others; a script that runs late neither uses up nor revives a later minute |
| `RetriesInLaterWindow` | a refused job asks again in a later minute |
| `SweepsApart` | `OneSweepPerLock`, `BoundedOverrun` (one batch at most begins after the deadline), `StoppedIsQuiet` |
| `EndsInOrder` | `DrainsBeforeClosing`, `CleanExit`, `ClosesOnce` |
| `CallIsBounded` | `DeadlineKept`, `OnlyCheckedAddresses`, `RedirectsBounded`, `WholeAnswer`, `CacheIsFresh` |
| `PasswordRules` | an accepted session knew the current password; a change never undoes a reset; a link changes the password once; one workspace per account |
| `AccountsAgree` | one bootstrap; one open invite per address; each link used once, for the user it was issued for; no link of a user who is gone |
| `RotatedOnce` | one successor of a rotated key, none of any other |
| `AcceptedIsKept` | 202: the body that is stored, every endpoint active throughout, an outbox row or a job while open |
| `ListIsHonest` | rows of this session, filter and page; none older than a change the user was told of; "nothing" only if so; never blank without an error |
| `DetailIsHonest` | the item of the route; no replay offered on news older than the last one |
| `DashboardIsHonest` | the cached snapshot is later than what cleared the cache; the newest activity; never blank without an error; no first steps for a busy tenant |
| `FormsBelong` | a retry of an untouched form makes no second event; the event shown is that of the last submission; a link's form and password are of that link; the secret shown is the one in force; what stands in a dialog was filled in for it |
| `NeverOlder` (action) | no page goes back to an older state than the one it shows, whatever the order of answers |
| `OwnersOnly` (action) | a lock is released by its owner; a session of the current password ends by its own request; the last user of a workspace stays; `last_used_at` moves forward, by more than the interval |
| `NotTakenAway` (action) | no guard logs out for an answer that did not say so, nor redirects in circles; the word about a changed password stays; no secret is closed unsaved; a deletion or a revocation closes only its own dialog |
| `JobsAdmitted`, `SweepsGoOn` | jobs are admitted in the end; sweeps go on after any crash |
| `ServicesEnd` | `stopSweeper` returns; a signal ends the process; calls end; transactions end, deadlocks included |
| `PagesSettle`, `ChangesFollow` | nothing loads or is busy for ever; what changed is shown, or an error is |
| `SignOutClears` | a sign-out on the way to a link puts its form in reach, also when the session had ended already |

## 4. Runs

Deadlock is checked in all runs but the last two, whose services end: requests are
finite, a process exits, users have a last turn. Deliveries, workers, handlers and sweepers are
symmetric, but for the two runs of liveness. Bounds: `MaxTime`
on the clock, `MaxFaults` on failures, `MaxReplays` on replays.

| Run | Instance | Why these bounds |
|---|---|---|
| `pipeline_crash` | 1 delivery, 2 calls, 2 attempts, lock 2, claim delay 1, 4 ticks, 1 fault | claim, loss, reclaim after the lock duration, second claim and both outcomes fit in 4 ticks; with 2 attempts the first and the last differ |
| `pipeline_replay_late` | 2 calls, 1 attempt, 1 replay, lock 1, 1 fault | the call of run 0 must lose its lease to a reclaim, the row must fail and be replayed, and the old answer arrive in run 1; the refinement is checked here because run numbers and stale calls meet |
| `pipeline_requests` | 2 requests, 1 call, 1 replay, 2 ticks | ingest, repeated ingest and replay in every order with timed-out enqueues |
| `pipeline_replay_race` | 2 requests, 1 call, 2 replays, clock standing still | two replays read the same failed row, and the loser may find the row failed again one run later; time plays no part in a compare-and-set on the status |
| `pipeline_batch` | 2 deliveries, batch of 1 | the smallest outbox that one batch does not empty |
| `pipeline_sweepers` | 2 sweeps | the smallest number of sweeps that can overlap |
| `pipeline_acknowledge` | 1 delivery, 1 replay | a counterexample, below |
| `progress` | 1 call, 1 sweep, 2 attempts, lock 2, 1 fault anywhere | a retry, and each hand-over (enqueue, claim, outcome, delay, reclaim, all of Redis) cut once |
| `progress_replay` | 1 call, 1 sweep, 1 attempt, 1 replay | the replay's outbox row is deleted by an earlier request or sweep and its enqueue never arrives: only the stale scan is left |
| `event_rollup` | 3 deliveries, 3 transactions | success, failure and an open delivery at once; one transaction waits while two contend |
| `services` | 19 scenarios, below | safety of the services and pages |
| `services_progress` | 13 of them, smaller | liveness of the same |

The last two runs hold many small state spaces side by side. The modules share no
variable, so a behaviour that interleaved two of them would show nothing that each
alone does not; one specification runs them in turn, the initial state chooses which
(`scenario`), and the others stand still. A run is the union of its scenarios.

| Scenario | Instance | Why these bounds |
|---|---|---|
| jobs, ingest, auth | 2 jobs, limit 1; a key and a cookie, limit 1; two emails and one request without, limit 2; windows of 2 ticks, 2 windows, 1 lost reply | the last token is contended, a call straddles the minute, two keys of one call disagree |
| sweeper | 2 processes, 3 tokens, lock 2, 1 crash or lost reply | a sweep outlives its lock while another holds it and a third is asked for |
| shutdown | either process, 3 pieces of work | work that ends before, during and after the deadline |
| webhook | 1 call, timeout 2, 1 redirect, 2 hosts, a refused url, public and private addresses, 4 chunks for a body of 2 | a redirect too many, a body too long, each hop with its own lookup |
| cache | 2 calls, an entry that lives 1 tick, room for 1 | a lookup that outlives its call fills the cache another call reads |
| login | 3 requests, 3 passwords, 1 reset link | a login verifies, a change and a reset overtake it |
| accounts | 3 requests, 2 addresses | a removal and an acceptance or two removals with a third that re-invites; cycles of locks |
| keys | 3 requests, 4 keys | two rotations and a revocation of one key |
| events | 2 requests, 2 bodies, 2 endpoints, one always active | a duplicate and a conflict while the first is uncommitted |
| list | 2 filters, 2 pages, 2 calls in flight, 1 change, 2 moves | a late answer of another page, filter or session |
| detail | 2 items, 2 calls, 3 steps, 2 replays | leave and return while a replay is under way |
| dashboard | 2 overlapping loads, 3 events, 1 turn of the user | poll and reload overlap, a clear falls between |
| send | 2 bodies, one malformed, 2 posts, 2 turns | send, lose the answer, send again |
| gate | 3 turns | login, password change and an expiry in a row |
| links | 2 links, 3 turns | a second link while the first one's check is on its way |
| secrets | all three kinds, 3 turns | two requests at once and a closing |
| dialogs | 4 kinds, 2 things of one name, 5 turns | open, submit, leave, open another, submit |

`services_progress` drops sessions, keys and ingest: their handlers end with their
statements, and nothing waits for another but in `Accounts`, which is there. Clocks
are relative or long enough for the case; users stop after their turns, and where a
property says "again and again" it is about what remains to happen by itself then.

### What the code does against its comment

`publish.ts` says "Acknowledge durable outbox rows only after the queue accepts
their jobs." As an invariant of every run this is `AcknowledgedAfterQueued`, and
`pipeline_acknowledge` violates it: an outbox row names a delivery, not a run.
An ingest's job is accepted, a worker fails the delivery (its endpoint is disabled,
say) before the ingest has acknowledged, a replay commits run 1 and finds the
outbox row already there (`onConflictDoNothing`), and then the ingest's
acknowledgement deletes the row that run 1 relies on. If the replay's own enqueue
fails now, the delivery waits for the stale scan of the sweeper, one lock duration
later, instead of the next drain. No delivery is lost; the comment, and the outbox
section of the guide, hold for ingested deliveries (`OutboxUntilQueued`) and not
for replayed ones.

### A comment the console does not keep

`SettingsApiKeyDialogs.tsx` tells the user that the key is shown only this time. With
two key requests in flight the dialog may drop a key unseen (section 2). Nothing is
lost that another rotation would not replace, so it is listed as a hazard, without a
property.

## 5. Proofs

For all values of the constants that satisfy the named assumptions of `DeliveryRow`,
`DeliveryQueue` and `DeliveryPipeline` (a positive cap and lock duration, natural
backoff delays, `ClaimDelay < WORKER_LOCK_DURATION`):

- `TypeCorrect`: `Spec => []TypeOK`. `TypeOK` is inductive: it carries that a call
  past admission has a job and that a call about to send has a real attempt number.
- `LeaseExcludes`: `Spec => []LeaseExclusive`. Exclusion alone is not inductive: a
  lease is only a time, and a second claim could carry the first one's. The inductive
  invariant `LeaseInv` adds `HeldOrOld`: whoever has claimed and has not recorded
  either holds the row in progress with its lease, or its lease can never equal that
  of a later claim, because the row was reclaimed no sooner than a lock duration
  after the lease, and any claim after that has a lease at most `ClaimDelay` old.
  This is where the assumption is used. It also needs that a sweep's clock is not in
  the future.

- `AttemptsAreFree`, `BudgetIsKept`, `DeadLettersAtCap`, `SuccessWasAcked`
  (`DeliveryAttemptProofs`): the invariants of the same description in section 3. They
  follow from `NumbersInv`, which bounds every number in use, in `attempts`, in `sent`
  or in the hands of a call, by the run and the attempt count of its row (`Past`), and
  keeps the numbers of calls apart. A claim takes a number that is not `Past`, so it
  is new; a replay starts a run in which nothing is `Past`. The induction needs
  `LeaseExclusive` in the state after a claim: whoever held the row before holds it no
  longer, so only the new call may rely on `attempt_count`.
- `HistoryIsKept`, `OnlyStaleReclaimed`: the action properties `RowHistory` and
  `ReclaimsOnlyStale`, from `RowStep`: a step leaves a row as it is or is one of five
  statements. That a retry is no unrecorded reclaim uses that its attempt is new.
- `PipelineKeepsContract`: `Spec => Contract!Spec`, step by step.
- `CommittedUntilQueued` (`DeliveryOutboxProofs`): `Spec => []OutboxUntilQueued`. The
  induction carries that jobs in the hands of requests and sweeps are of runs that
  have begun, so a delivery in run 0 has one job; and that a request about to
  acknowledge, or a sweep about to delete, has seen its jobs accepted.

For any sets of deliveries and transactions:

- `RollupTypeCorrect`: `Spec => []TypeOK` for `EventRollup`.
- `EventAlwaysAgrees`: `Spec => []EventAgrees` for `EventRollup`. The strengthening says
  that a transaction past its UPDATE has the roll-up of what it sees: it holds the
  event's lock, no other transaction can commit before it, and a change between open
  statuses does not show in a roll-up.

### Services and pages

`MCConsole` is the specification the run `services` checks, so the theorems are of
`ConsoleSpec` itself: each names the property of the run, for any values of the
constants. The modules are instances in it, and their proofs come in three layers:
an inductive invariant for each module, in terms of the console's variables; the lemmas
`ServicesStep` and `PagesStep`, that a step of the whole is a step of each service, or
of the page that runs, or leaves its variables alone; and `ServicesInv`, `ApiInv` and
`PagesInv`, which put them together. Each proof module extends the one before it:
`ServicesProofs`, `ApiProofs`, `FormsProofs`, `ConsoleProofs`.

| Theorem | States | The strengthening that makes it inductive |
|---|---|---|
| `LimitsAreExact`, `RefusedAskLater` (of `RateLimitWindow` alone) | `LimitIsExact`, `RetriesInLaterWindow` | `LivesOut`: a counter that is there stays until its minute has ended, because PEXPIRE gets what was left of the minute when the call was made, and the script ran no earlier. `CallsInOrder`: a call was sent in the past, and a refused job waits for the end of its minute |
| `SweepsAreApart` | `SweepsApart` | `HoldsLock`: a sweep whose lock has time left finds in Redis that time and its own token; `OwnTokens`: tokens of sweeps differ. That a sweep forgets its lock when the reply of SET is lost, while Redis keeps it, breaks neither |
| `ShutdownsEndInOrder` | `EndsInOrder` | `ShutdownInv`: the resources are closed together when the draining ends; a drain that returned has seen the work end unless something failed (`DrainsWait`); work in hand after it was left by the deadline or a failure (`LeftInHand`) |
| `CallsAreBounded` | `CallIsBounded` | what a call has pinned to connect to, and every idle connection that may be used again, is public (`WebhookChecked`); a hop posts once, so posts are at most one more than redirects (`WebhookHops`); a running call and its lookup end with its deadline (`WebhookTimely`); what is kept of an answer is what was sent, up to the cap (`WebhookWhole`); an entry of the cache expires a lifetime after its lookup (`WebhookCached`) |
| `PasswordsRule` | `PasswordRules` | a session, stored or carried by a request, has the hash its owner verified (`LoginRowsHonest`, `LoginCarries`); once accepted it is the current one; who asks for a workspace holds the user's row |
| `AccountsDoAgree` | `AccountsAgree` | three parts about a transaction at each statement: which locks it holds (`AccountHolds`), what it knows of the invites because it holds their rows or the lock of their address (`AccountSeesInvites`), and of the users (`AccountSeesUsers`). `AccountLocks` says that no two hold one lock; `AccountMoves`, that a step changes only what its transaction has locked, so what the others know stays true |
| `KeysRotateOnce` | `RotatedOnce` | `KeyInsertHoldsRow`: a rotation past its UPDATE holds the row of a key that is still active to the others, alone. `KeyOneSuccessor` says `RotatedOnce` without counting |
| `AcceptedEventsAreKept` | `AcceptedIsKept` | `EventOneInserts`: the unique index lets one request at a time insert the event, and whoever found it has compared bodies. `EventWatched`: endpoints active since a request began are among those it has read. `EventQueuedFirst`: a job is in the queue before its outbox row is deleted |
| `OwnersOnlyEnd` | `OwnersOnly` | the invariants above; besides the compare in the release script, that no lock with time left has the empty token (`LockHasToken`) |
| `DetailsAreHonest` | `DetailIsHonest` | `DetailLoadIsNews`: the one call that is not aborted is the last, about the item on the screen, and its answer is news of all the page was told |
| `ListsAreHonest` | `ListIsHonest` | `ListCallsFit`: the call that may be taken is the latest, its rows are of the view it asked for and no older than those shown. `ListShownFit`: how the view of the rows, of the last answer and of the last render differ while the user moves on. `ListLagFit`: rows older than what he was told stay only while a load that will replace them is under way, or he is shown an error |
| `DashboardsAreHonest` | `DashboardIsHonest` | `BoardTimely`: a part that was read after the last change says what is. `BoardLoadsFit`: the load that is held reads later than what is shown and, while fresh, than the last clear. `BoardTopIsNewest` and `BoardNewestIsTop` count: of rows read in two parts at one moment, those among the newest of their part are the newest of the log |
| `FormsDoBelong` | `FormsBelong` | `SendPostOfForm`, `SendMadeOfForm`: what is under way or made is of the key in the form. `LinkAsksOwn`: the question awaited is about the page that is there. `SecretIssuedInTurns`, `SecretFlightsFit`, `SecretRotationStays`: which answers may still bring a secret, and that one rotation at a time is under way for an endpoint. `Dialog!TextOfOpening` with `DialogFieldsFilled` |
| `NothingGrowsOlder` | `NeverOlder` | the invariants of the five pages |
| `NothingTakenAway` | `NotTakenAway` | `GateHopsBounded`: `hops + GateHopsLeft <= 3`, where `GateHopsLeft` counts the redirects that the page and the answers under way can still cause; every redirect spends one, and no answer adds any but those counted for it. `SecretTicksFit`: a tick is for the secret on the screen. `DialogDeletionsStay`, `SecretRevocationStays`: the dialog of a deletion under way stays |
| `AllTyped` | `ServicesTypeOK` | all of them |

`SweepsKeptApart`, `OnlyOwnersRelease`, `ShutdownEndsInOrder` and `AcceptedStaysKept`
state four of these of the modules' own specifications, without a scenario.
`WindowsTypeCorrect`, `WindowsCapped`: the types and the cap of the limiter alone.

The assumptions are named in `MCServices`, `MCApi` and `MCConsole`, and TLC evaluates
them on the run:

| Assumption | Because |
|---|---|
| `LockAssumption`, `RequestAssumption` | times, sizes and numbers of redirects are natural; a token is never the empty one, and the cache has room for an entry (`DNS_CACHE_MAX` is 1024) |
| `LoginAssumption`, `AccountAssumption`, `EventAssumption` | addresses and reset tokens are finitely many, sessions and passwords are counted from 1; what stands for "no request", "no address" or "no body" is none |
| `KeyAssumption` | hours are natural numbers |
| `ListAssumption`, `BoardAssumption`, `DetailAssumption`, `SendAssumption`, `AskAssumption` | calls, items and loads are counted from 1, as 0 stands for none; there is a filter (that of all rows), an item to open, a body that is no JSON and one that is; the log of the dashboard begins with two rows |
| `GateAssumption`, `SecretAssumption`, `DialogAssumption` | turns are counted; panels and dialogs are those there are |

### What is not proved

`NumbersInv` and `LeaseInv` were checked by TLC on the instances of `pipeline_crash`
and `pipeline_replay_late` before they were proved. All invariants and action
properties of the passing runs are proved, and so is the refinement of
`DeliveryContract`. What TLC alone checks is liveness: `EverySettled` and `OutboxDrains` of
`DeliveryProgress`, and `JobsAdmitted`, `SweepsGoOn`, `ServicesEnd`, `PagesSettle`,
`ChangesFollow`, `SignOutClears`. Fairness and ENABLED are outside what the prover
does. Neither is needed for the theorems above, and no definition they rest on is
recursive.

## 6. Fairness

Of the delivery core only `DeliveryProgress` has fairness. The bounded clock of `DeliveryPipeline` would end
every behaviour, so there the clock stands still at `MaxTime` and a passing tick
lowers every stored time instead (`Recede`), down to 0, which means long ago. This
is exact for the differences the code looks at: a lease or a row is stale before its
time has reached 0 (`HorizonAssumption`), and from then on stays so.

| Assumed | Because |
|---|---|
| WF of the steps of a processor call | an awaited call returns or times out: POST, statements and pool have deadlines |
| WF of `Fetch` | BullMQ hands out a waiting job when a worker is free |
| SF of `Admit` | each minute is another window, so a call that is deferred again and again meets one with a token. A tenant that always has more jobs than tokens may starve a single job: the window is not fair among them, and this is assumed not to happen |
| WF of `Promote` and `RecoverStalled` | BullMQ looks for delayed and stalled jobs |
| WF of the steps of a sweep, its start included | `setInterval`, and a crashed worker is restarted |
| SF of `TimePasses` | time goes on; strong, because a claim in flight holds it up until the claim is over |

Nothing is assumed of API requests (an enqueue that timed out may never arrive) nor
of failures. `CallsInTime` says of calls in flight that they end before the lock
duration does, as it is the delivery timeout plus 30 s; a call that takes longer is
a failure (`CallHangs`) and counts as one. Without it a worker may hang for ever on
every claim and a delivery be reclaimed as often as it has attempts; that too ends,
but the state space is out of reach. Both runs have one call and one sweep: what
they show is that no hand-over loses a delivery, and contention is the matter of
the safety runs.

Each service has its own `Fairness`:

| Module | Fair | Not assumed |
|---|---|---|
| `RateLimitWindow` (in `MCServicesProgress`) | a delayed job comes back, Redis answers, time passes; jobs are answered within a tick | that a request is sent again |
| `SweeperLock` | batches end, Redis answers, the timer fires, time passes | that a backlog ends: full batches may follow each other up to the deadline |
| `Shutdown` | the deadline fires, and what is settled is noticed | that work, drains or closings ever end: any may hang |
| `WebhookRequest` | time passes, the event loop takes its steps | an answer from a name server or a receiver |
| `Accounts` | a handler's next statement, the deadlock detector | that a transaction succeeds |
| console modules | effects run, requests are answered or fail (the API client has a timeout), answers are delivered, timers of a visible page fire | anything of the user, of other tabs, or of the server's changes |

## 7. Not modelled

- Schema, migrations, seeds, deployment: one-off scripts. Unique indexes, foreign keys
  and cascades are in the modules that meet them (`Accounts`, `TenantIngest`).
- CSRF tokens, validation, serialisation, cursors and health: functions of a single
  request. They have no second actor and are better tested by example.
- The tables of private addresses and refused urls of `webhookUrl.ts`: constants of
  `WebhookRequest` (`Private`, `Refused`). Signing of webhooks and hashing of secrets:
  a signature or a hash is a function of its input.
- The metrics log, and the reads that serve lists, statistics and details, but for what
  the console puts together of them (`Dashboard`).
- Marketing, legal and documentation pages, layout, styles, scroll and focus, sort and
  search fields: no state that an answer or another actor could bring out of line.
- The seeded read-only workspace, but for the `ReadOnly` flag by which pages hide actions.

`PROJECT.json` says "partly" of the console's presentation and of the API's plumbing for
these reasons, and "not_modelled" of the scripts.

## 8. What could follow

The composition of `TenantIngest` with `DeliveryPipeline`, which share the outbox and
the queue; two tenants in `RateLimitWindow`; the invariants of `DeliveryProgress`, which
has the actions of the pipeline but not its clock.
