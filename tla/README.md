# WikiKit: a TLA+ model of its review gate, pipeline, outbox, scheduler, MCP sessions and OAuth server

WikiKit is a wiki for agents and people in which nothing becomes readable
without review. Sources are archived and turned into *change proposals* by a
pipeline that calls a language model; a reviewer approves, rejects, splits or
sends back a proposal over REST or MCP; approval publishes its rows in one SQL
function; decisions and failures are announced to webhooks. A scheduler in every
process writes briefings and health reports; clients connect over MCP and are
let in by an OAuth server of the program's own. The state is in PostgreSQL, and
one or more server processes work on it.

This directory holds the TLA+ modules for the parts that carry this promise,
the TLC runs that check them on small instances, and TLAPS proofs that nearly all
of their safety properties hold for instances of any size. `PROJECT.json` lists components,
runs, hazards and theorems, and maps every definition to the lines it models.

## 1. Inventory

| Component | State | Operations | Interacts with |
|---|---|---|---|
| **Review gate** (`domain/proposals.ts`, `domain/concept-lifecycle.ts`, `lintProposal` of `domain/lint.ts`, migrations 0020, 0027, 0033, 0034, 0039) | proposals, revisions, page pointers, claims, relations, decisions, lifecycle changes, space epoch | create, stage deletion or restoration, approve, reject, request changes, split, defer pages, retire superseded; preview a proposal | writes events to the outbox and, over REST, audit rows in the same transaction |
| **Ingest pipeline** (`ingest/pipeline.ts`, `ingest/acquire.ts`) | `wk_ingest_jobs` with lease columns; per loop the held job and lease token; per process a quota pause | enqueue, claim, heartbeat, process stages, finish, fail, park on quota, reap, requeue | archives sources, creates and retires proposals, emits `ingest.failed` |
| **Source archive and streams** (`domain/sources.ts`, `domain/source-streams.ts`) | sources by content hash, stream heads, supersedes links | archive, record a stream version, tombstone | the pipeline; retirement of superseded proposals |
| **Capture and triage** (`domain/triage.ts`) | captured jobs | capture, suggest, process, use existing, discard, leave | the pipeline |
| **Retrieval index** (`ingest/chunker.ts`, `domain/sources.ts`) | chunks per source | persist, backfill, take out of the window | the pipeline |
| **Webhook outbox** (`webhooks.ts`) | outbox events, endpoints with a breaker, delivery rows | register, fan out, deliver, retry, trip and reset the breaker | events of gate and pipeline; external endpoints |
| **Scheduled maintenance** (`schedule.ts`, migration 0037) | `wk_schedules` with the next instant of each window; per process a loop with the row it claimed | replace the set (PUT), arm rows without an instant, claim a due row and advance it, park an unreadable window, write the report | briefings read the gate's approvals; reports are outputs |
| **Outputs** (`domain/outputs.ts`) | `wk_outputs` with `promoted_ingest_id` | record, list by keyset, promote, sweep after the retention | promotion enqueues an ingest job |
| **MCP sessions and elicitation** (`mcp/`) | leases with an in-flight counter and a last-seen order, the sweep interval, open bodies, the registry of URL reviews | initialize, use, retain and release a body, hang up, delete, sweep, evict at the cap, stop; ask in a form or by URL, complete | the review gate decides; a REST decision completes URL reviews |
| **OAuth server** (`oauth/`, the identity routes) | codes, access and refresh tokens by family; login states, operator sessions, identities | authorize, log in by key or OIDC, admit or sign up, consent, redeem, rotate, detect a replay, revoke a token, an identity or a key, sweep | HTTP server; the identity provider |
| **Audit trail** (`domain/audit.ts`) | audit rows | append in the caller's transaction | review gate over REST |
| Query, search, lint, health, stats; export and import; charter and spaces; HTTP, keys, configuration, logging, metrics; LLM provider; storage driver; cockpit | none of their own that the protocol depends on | reads, formatting, single statements | |

**What is hard here.** Proposals are written against a state that is minutes
old when they are approved, and several of them touch the same page. A split
moves staged rows between proposals. An approval that fails inside the caller's
transaction takes the caller's writes with it. Jobs are worked on under leases
that can expire while the worker is alive and comes back with a result; the
process can die between any two statements; a write can commit and report an
error. Versions of one document are processed in any order. Webhooks are sent
by workers that claim nothing. A schedule is armed from a clock and columns read
earlier, beside other processes that poll the same row. A session is busy as long
as somebody reads a body it answered with, which only the body's own callbacks
tell. A token or a login state is checked in one statement and written in
another, while others rotate, revoke or sweep. What a reviewer agrees to was
foretold by queries that only resemble the function that will run. `hazards` in `PROJECT.json` names the line where
each of these bites and the property that watches it.

**What makes the parts correct.** The gate: readers see only what was approved;
no approval silently overwrites another; a page has one current revision; a
decision is final, announced once, and moves the epoch readers cache on. The
pipeline: every accepted job ends, exactly one outcome stands and is announced,
no two loops work on a job, no source is under review twice. The outbox: an
event reaches every endpoint it is owed to, and rows settle, after a bounded
number of attempts, with what really happened. Schedules: a window runs once,
at its wall-clock time, and briefings leave no gap. Sessions: no busy session is
ended, every lease ends, every retain is given back. OAuth: codes, refresh
tokens and login states are good for one use; what was revoked stays revoked.
Outputs: promoting twice costs one job; a walk over the pages misses nothing.

## 2. Modules

| Module | Models | Lines of argument |
|---|---|---|
| `ReviewGate` | the review gate of one space | one action per database transaction |
| `PublishedPages` | what the gate promises readers of pages: a shelf changed by compare-and-swap | abstract specification, refined by `ReviewGate` |
| `ReviewPreview` | what the diff and the lint of a proposal foretell of its approval | operators over the gate's state, one property of its steps |
| `ReviewGateProofs` | | the gate's invariants, the previews, refinement of `PublishedPages` |
| `IngestQueue` | jobs, loops, leases, sources, streams, captures, index of one space | one action per statement; loops keep what they read |
| `IngestQueueProofs` | | the pipeline's safety properties |
| `Outbox` | outbox, endpoints and delivery workers of one space | one action per database call; workers keep what they read |
| `OutboxProofs` | | any number of workers: complete fan-out, delivered means received; one worker: one row per endpoint, bounded retries, settled rows |
| `Schedules` | schedule rows, PUT and the loops of the server processes | one action per database call; loops keep what they read |
| `WallClock` | `computeNextRun` and its time-zone arithmetic | operators, and a definition of "next due" without the search |
| `DueTimes` | composes `Schedules` and `WallClock` | what `computeNextRun` answers on the days of the scheduler's clock |
| `SchedulesProofs` | | windows run once and at their time, briefings leave no gap, the arithmetic finds what is due |
| `McpSessions` | session leases, request handling, streams, URL reviews of one process | one action per stretch between awaits |
| `McpSessionsProofs` | | retains balance, only idle sessions are ended, decisions are announced |
| `OAuthTokens` | codes, tokens, replay and revocation | one action per statement, row locks held to the commit |
| `OAuthTokensProofs` | | single use, no resurrection, revocations reach their tokens |
| `OAuthLogin` | login states, sign-in, admission of identities, operator sessions, consent | one action per statement |
| `OAuthLoginProofs` | | one outcome per state, grants kept, nothing revived |
| `Outputs` | recording, paging, promoting and sweeping outputs | one action per statement |
| `OutputsProofs` | | one job per answer but for counted exceptions, a promoted answer is kept, a walk over the pages is complete |
| `MC...` | | the values of the constants for each run: what callers submit, the table of instants |

The modules meet at tables. `ReviewGate` counts the events its transactions
write; `Outbox` starts where such an event is committed (`Emit`).
`IngestQueue` sees a proposal as pending, failed or decided (`Propose`,
`RetireSuperseded`, `Review`), which is what `ReviewGate` does to it; `Schedules`
sees an approval as a stamp and a commit; `McpSessions` sees a review as decided
in a form or over REST. `OAuthLogin` ends where a code is issued, `OAuthTokens`
starts there. `Schedules` takes `computeNextRun` as a parameter, which its run
fills with `WallClock`'s; `DueTimes` has both.

### ReviewGate

State is the tables: `prop`, `rev`, `known`/`current`/`deleted` (the columns of
`wk_concepts`), `claim`, `rel`, `dec`, `change`, `epoch`; `events` and
`revEvents` count outbox rows, `audit` holds the REST handlers' audit rows, and
`staleSeen` is an MCP approval between its rollback and its write of `failed`.
A revision is named by the proposal that first staged it and the draft entry it
came from.

* `CreateProposal` is `createProposal`: dedup on the input hash, the refusals
  of the lock pass (`Stageable`), base revisions read from the pointer or given
  by the caller (`BaseChoices`), then revisions, claims, relations (added, or
  marked for removal) and decisions (a known slug takes over its row).
* `StageConceptLifecycle` stages a deletion or a restoration.
* `ApproveProposal` is the whole of `wk_apply_proposal`: stale checks, flips 1
  to 7, derived `contradicts` and `supersedes` edges, decisions in force, epoch
  and events. It is one atomic step.
* A stale approval has two shapes. Over REST (`ApproveStaleRest`) it runs in
  the transaction of `auditedReview`, where the failed function has aborted the
  transaction, so that the write of `failed` is lost. Over MCP
  (`ApproveStaleMcp`, then `MarkFailed` or `LoseMark`) the write is a statement
  of its own, and others may decide in between.
* `RejectProposal`, `RequestChanges`, `RetireSupersededProposals`, `SplitFull`
  (one child per page) and `SplitDefer` (chosen pages move to a child) are the
  SQL functions of the same names.

Texts, titles and citations are left out. Hashes are values; the hash of a
split child is what the code concatenates (`ChildHash`), because its collisions
matter.

### ReviewPreview

Before deciding, a reviewer sees the diff (`getProposal`) and the lint of the
proposal (`lintProposal`): pages whose base moved (`StalePages`,
`StaleLifecycle`), claims that will be disputed (`Collides`,
`LintContradictions`), links that will dangle (`LintDangling`), relations that
will go and decisions that will be replaced. These are queries of their own,
written to repeat the conditions of `wk_apply_proposal`.
`ApprovalKeepsItsWord` compares them, in the state before an approval, with what
the approval does. Its exceptions are what the code really does: each of them
occurs in `gate_pages`, and without it TLC refutes the property (section 6).

### IngestQueue

`job` is `wk_ingest_jobs`, `worker` a loop between two statements, `client` a
request between its checks and its insert. Times are kept as what the code asks
of them: `expired`, `late`, `reopened`, `aged`, `paused`. The lease token is the
number of the claim.

* Clients: `EnqueueCheck` then `EnqueueInsert` (the checks are stale when the
  insert runs, the partial unique index is not), `EnqueueCapture`,
  `EnqueueUnchanged`, and the triage resolutions.
* A loop: `RequeueQuotaBlocked`, `ReapStale`, `Claim`, then `Archive`,
  `CheckReingest`, `PersistChunks`, `Classify`, `Synthesize`, `Propose`,
  `RetireSuperseded`, and one of `FinishJob`, `FailJob`, `QuotaBlockJob`, each
  guarded by the lease (`HoldsLease`); `StopHeartbeat` ends the attempt.
  `StepFails` and `QuotaExhausted` are the model's and the network's answers;
  `FinishErrors`, `EndIsLost` and `SweepErrors` are database errors.
* `LeaseExpires`, `RuntimeExceeded`, `ResumeAtPasses`, `SourceAges` and
  `PauseEnds` are clocks; `Crash` and `Start` processes; `Review` is the gate;
  `UnindexAgedSources` and `BackfillChunks` maintain the index.

### Outbox

`event`, `endpoint` and `delivery` are the tables. `worker` says where a tick is
and what it holds: the events it read, the endpoints of the event it fans out,
the due rows with the attempt number they had, the failure count of the endpoint
it calls. `owed`, `posts`, `received`, `streak` and `disputed` are history
for the properties.

* `TickStart`, `ReadEndpoints`, `CommitFanOut` are `fanOutPending`; rows and
  `dispatched_at` are one transaction. A row id is (event, endpoint, copy):
  the schema has no unique index over the first two, and the model lets a second
  copy exist (bound `MaxCopies`).
* `ReadDue`, `ReadEndpoint`, `MarkDead`, `Defer`, `Post`, `WriteDelivered`,
  `ResetFailures` are `deliverDue` and `deliver`; `WriteFailed` and
  `WriteBreaker` are `onFailure`. A call is answered with a 2xx, refused, or
  processed and not answered in time. What a write does to the tables has a name
  of its own (`FanOut`, `SetDead`, `SetDeferred`, `SetDelivered`, `ClearFailures`,
  `SetFailed`, `SetBreaker`), because it may happen without the worker learning of
  it.
* A database call throws before it has changed anything (`DbError`) or after its
  commit (`ReplyLost`). `AfterError` follows the code's handlers: the tick is given
  up, except that a failed write of `delivered` goes to `onFailure` and that the
  reset and `onFailure`'s own writes are swallowed. A statement whose reply was
  lost has finished before the worker goes on. `disputed` remembers the rows marked
  delivered by a write that was reported as failed. `Crash` loses what the worker
  holds.
* `Deactivate` is external: no code path of the server switches an endpoint off.

Signatures, secrets and target checks are left out; a target that is refused at
send time is a refused call. Rows of a deleted endpoint or event disappear with
it (`on delete cascade`); no code path deletes either.

### Schedules and WallClock

`row` is `wk_schedules` of one wiki, `worker` a process's loop between two
database calls, `put` a PUT between its reading of the process clock and its
transaction, `review` an approval between its stamp and its commit. Instants are
numbers, 0 is NULL.

* `BeginPut`, `CommitPut` are `replaceSchedules`: the whole set is replaced,
  ids and `last_run_at` of rows that stay are kept.
* `ReadUnarmed`, `ComputeArm`, `WriteArm` are `armUnscheduled`; `NothingDue`,
  `Park`, `ClaimDue` are `claimDue`, one transaction with `SKIP LOCKED`;
  `Collect` and `Record` the report, outside of it. `Wake` ends the sleep.
* `JobFails`, `ArmFails`, `IterationFails` are the three catch blocks, `Crash`,
  `Stop` and `Start` the process. `LoseZone` is external: a row whose window
  this build cannot read. A row without an instant is there from the start.
* `repeated`, `late`, `displaced`, `origin`, `told`, `missed` are history.

`WallClock` has `zoneParts`, `instantForWallClock` (with its second try at a
transition) and the walk over nine local dates of `computeNextRun`; `IsNextDue`
says what the result should be without the walk. A zone is its offset as a
function of the instant. `Regular` is what the arithmetic takes from it: offsets
of less than a day; at most one transition within a day before and after any
instant (the two samples of `instantForWallClock` are two days apart); a fold
takes the local date back by one day at most; a gap's skipped hour, moved by the
gap, stays on its date. `DueTimes` puts the two together.

### McpSessions

`lease` is the manager's map with `inFlight`, `seen` the order of `lastSeenAt` as
a set of pairs, `req` a request with the body it was answered with. `Arrive`, `Receive` and
`Handle` are the handler of `server.ts` with its awaits (authentication,
`connect`, `handleRequest`); `Grace`, `Pull`, `BodyEnds` and `Cancel` are the
callbacks of the body `trackStreamLifetime` wraps; `Tick` is the sweep, `Age` the passing
of the TTL; `Stop` the shutdown. `Review` is the review tool: a form, or a URL
entered in `registry` under the next number (a bound evicts the oldest);
`RestDecides` is a decision over REST that calls `complete()`, `RestEndsSilently`
one that does not: a full split, or a decision whose commit is answered with an
error. `Notify` is one turn of the loop of `complete()`, which awaits each notice,
and `Completed` its end. `opened`, `told` and `evicted` are history.

### OAuthTokens and OAuthLogin

`row[x]` is a code, an access or a refresh token. A request that runs in a
transaction holds the rows it locked or changed until it commits (`Held`); one
that does not (revocation) writes at every statement. The instant a request
writes into `revoked_at` or `consumed_at` is the one of its check (`now`), which
may be past when the statement runs. `SelectCode`,
`SelectRefresh`, `Check`, `Refuse`, `IssueTokens` are `POST /token`, where a
replay turns into `revokeFamily` (`Snap`, `Update`, `CloseFamily`: PostgreSQL
picks the rows of an UPDATE before it waits for them, so rows written meanwhile
are not among them). `RevokeToken`, `ReadIdentity`, `DenyIdentity`, `RevokeKeys`,
`RestoreIdentity`, `RevokeKey` are the routes that revoke; `CleanupOAuthRows` the
sweep; `Victim` PostgreSQL's choice among the requests of a ring of waits
(`Deadlocked`; a request that merely waits for such a ring is not in it). `raced` and `slipped` are
history: tokens issued by requests that were past their checks.

`OAuthLogin` keeps `state` (login states), `session`, `identity` and `keyLive`.
Its actions are the statements of authorize, key login, the OIDC start and
callback, admission (`Admit`, `Upsert`, `SignUp`, `Mark`, `MintKey`), consent
(`ReadConsent`, `Approve`, `Deny`, `SwitchAccount`), renewal and logout, the
identity routes and the sweep. A request can die after any statement.

### Outputs

`RecordOutput`, `ListOutputs` (one page by keyset on time and id; the cursor
names a row), `ReadOutput`, `Enqueue`, `WritePromotion`, `Abandon` (the three
statements of `promoteOutput` and a death between them) and `CleanupOutputs`.
`walk` is a client that follows the cursor. `job` (of which output each job is,
whether its promotion was late, that is had read the row while another was on its
way, and whether its id reached the row) and `stranded` are history. A promoted
answer is answered from its row, which changes nothing and is no action.

## 3. Runs

| Run | Instance | Shows |
|---|---|---|
| `gate_pages` | 3 proposals, 2 pages, 4 claims of a single-valued predicate, a link, a derived contradiction, 2 decisions, drafts with early and late bases, one that drafts a page twice | `OneCurrentRevision`, `LinearHistory`, `ReadableByApproval`, `CollisionsAreDisputed`, `TerminalIsFinal`, `ApprovalKeepsItsWord`, and that the gate implements `PublishedPages` |
| `gate_structure` | 4 proposals, 2 pages, a relation added and removed, 2 decisions of which one supersedes the other, 2 versions of a source | `OnlyApprovedIsReadable`, `StagedRowsOwned`, `DecisionsAnnouncedOnce`, `EpochValidates` |
| `ingest_crash` | 2 processes with a loop each, a note submitted up to twice, one crash or database error, one quota exhaustion | `FailureAnnouncedOnce`, `NeverDoubleProcessed`, `OneReviewPerSource`, `EndedIsFinal` |
| `ingest_notes` | one loop; note, evidence, resynthesis and capture of one content; index window | `QueueInv` (types, and the queue exceeds its ceiling only by requests that passed the check together and jobs a worker gave back), and `EndedIsFinal` for triage |
| `ingest_live` | one loop, 2 jobs, a crash, a quota exhaustion | `AcceptedEnds` |
| `ingest_streams` | 2 processes, two versions of a document pushed to a stream | `RetiredHasReplacement` |
| `outbox_worker` | one worker, 2 events, one endpoint, 2 attempts, breaker at 2, batches of 1, one fault anywhere | `FannedOutInFull`, `OneDeliveryPerEndpoint`, `DeliveredWasReceived`, `RetriesAccounted`, `SettledIsFinal`, `EventuallySettled` |
| `schedules` | 2 processes, one PUT, one approval, 3 instants, one fault; a daily window and an unreadable one, of one kind; for `WallClock` days of 6 ticks, weeks of 3 days, every column, every instant of three days and 159 regular zones with at most one transition | `ScheduleInv`, `EveryApprovalReported`, `NextRunIsNextDue`, `EveryDueIsTaken` |
| `mcp_sessions` | 2 session ids, a cap of one session and one URL review, 2 requests in flight, 3 in all | `SessionInv`, `DecisionAnnounced`, `VictimsAreIdle`, `EveryLeaseEnds` |
| `oauth_tokens` | 2 requests at a time, 5 in all; one code, 3 token pairs, one identity with a key; lifetimes of one instant (access tokens: the instant they are issued), no retention, 2 instants | `TokenInv`, `RevocationHolds`, `DeadFamilyStaysDead` |
| `oauth_login` | 2 requests at a time, 5 in all; 2 identities of which one is on the allowlist, sign-up open, 2 states, 2 sessions, 3 instants | `LoginInv`, `NothingRevived` |
| `outputs` | 3 outputs of 2 kinds, 2 promotions at a time, pages of one, retention of one instant | `PromotionInv`, `WalkIsComplete` |

Some invariants are conjunctions of named parts, each with its own comment in
the module:

* `ReadableByApproval`: `OnlyApprovedIsReadable`, `OnlyUnbasedResurrects` (a
  deleted page comes back only by a restoration, or by the approval of a page
  drafted when there was none);
* `StagedRowsOwned`: `NothingOrphaned`, `RemovalUnderReviewIsActive`;
* `RetriesAccounted`: `AttemptsBounded`, `GivenUpOnlyWhenExhausted`,
  `BreakerCountsConsecutive`;
* `ScheduleInv`: `OncePerWindow`, `FiresAtItsTime`;
* `SessionInv`: `RetainsBalance`, `SweeperWatches`, `NoLeakedServer`,
  `RegistryServesLive`; `VictimsAreIdle`: `NeverSevered`, `OverCapOnlyWhenBusy`;
* `TokenInv`: `OneLiveRefresh`, `OneFamilyPerCode`, `ReplayRemembered`;
  `RevocationHolds`: `FamilyRevocationHolds`, `RevocationReachesAll`,
  `DeadlockSparesRevocations`;
* `LoginInv`: `OneOutcomePerState`, `OperatorGrantKept`, `SessionsEnd`;
  `NothingRevived`: `ConsumedIsFinal`, `OnlyRestoreReadmits`;
* `PromotionInv`: `OneJobPerOutput`, `ToldOfItsJob`, `PromotedIsKept`; `WalkIsComplete`:
  the types, `WalkMissesOnlyOld`, `WalkRepeatsNothing`.

**Why the bounds are enough.** A conflict over a page takes the proposal that
created it and two written against the same base; a deletion with a stale
approval or a split with its child takes a fourth, which `gate_structure` has
and the proofs cover for pages. The races of the pipeline are between a reaped
attempt and its successor, or between two submissions of one content: two loops
and two jobs, with a fault or a quota exhaustion in the middle. A breaker that
trips while another row waits takes two rows and a threshold of two; batches of
one make both limits of a tick bite. A window run twice takes two processes, or a
process and a PUT, and two windows; the health report takes the same path as the
briefing, so one kind is enough. A session ended in use takes two requests on it,
an eviction a second session and a cap of one. A replay takes a rotated token and
a second holder of it, a deadlock two replays of two revoked tokens of a family,
a rotation behind the back of a revocation three pairs. Two overlapping
promotions are two promoters; a cursor whose row is swept takes pages of one and
three rows. Proposals are interchangeable, and so are two processes of one loop each, the
requests of `oauth_tokens` and the promotions of `outputs`: the safety runs use
that symmetry, the liveness runs do not. With two instants and no retention the
sweep still takes rows under running requests. What the bounds leave open (a PUT of
another readable window, longer lifetimes) is closed by the proofs: every safety
property of the table is proved for every value of the constants.

**Deadlock.** The gate, the pipeline, MCP sessions, OAuth and outputs may run out
of work (every id or request used, everything decided), so their runs do not
check for deadlock. The outbox and the scheduler always have a poll to run and
are checked.

**Fairness.** *Pipeline:* a loop that can step does (`LoopStep`: the loop is a
plain `while` with a poll timer, and the runtime ceiling aborts a hanging model
call), a process is started again by its supervisor (`Start`), the lease of an
attempt that nobody renews expires, quota windows reopen and pauses end (clock
time). Nothing is asked of clients, reviewers, heartbeats or crashes, and
leases of live attempts may expire or not. *Outbox:* the poll timer starts
ticks and every await returns, the post by its timeout (`WorkerStep`);
`next_attempt_at` and `disabled_until` pass; and since `deliverDue` reads the
longest due rows first, a row that is due whenever rows are read is eventually
among them (`Takes`). *Schedules:* a process is started again, or its
loop turns: the poll timer fires and database calls return (`Start`, `Poll`). *MCP
sessions:* the sweep interval fires (`Tick`), a lease nobody touches passes its
TTL (`Age`), the handler's awaits return (`Receive`, `Handle`) and the grace timer
fires (`Grace`). Nothing is asked of a client: it may never pull a body, never
end it and never hang up. Crashes and failing calls are bounded by the run, so
"eventually" means once failures stop.

## 4. What is proved

Every safety property the runs check, invariant or action property, is proved in
TLAPS for every value of the constants; liveness is not (end of this section). The
proofs rest on the assumptions the modules name, which TLC evaluates on every run,
on the hypotheses two groups of theorems state (`OneWorker`, `Regular`), and on
nothing else:

* `NullAssumption`, `EntriesAssumption`, `ClaimsAssumption`, `DraftsAssumption`,
  `PredecessorAssumption` (gate): model values are distinct; the claims and
  relations of a draft are about pages it drafts.
* `QueueAssumption`, `FiniteAssumption` and the bounds (pipeline): the ceiling is
  positive, which `config.ts` insists on; clients and loops are finitely many.
* `OutboxAssumption`, `OutputsAssumption`, `McpAssumption`,
  `OAuthTokensAssumption`, `OAuthLoginAssumption`: limits are positive where the
  configuration demands it, names are distinct, ids are numbers; an operator
  session's idle time is at most its absolute one.
* `SchedulesAssumption`: `computeNextRun` returns a later instant, and the same
  one when asked from just before it. `NextRunJustified` proves this of
  `WallClock`'s, for regular zones.
* `WallClockAssumption`: a day and a week are not empty. What the theorems about
  the arithmetic need of a zone, `Regular` at all instants, is a hypothesis they
  state; TLC evaluates it over six days of the zones of the run.

One pattern recurs. What a step may do to a row, a request or a session is
stated once, as a relation of old and new state; every action is shown to stay
within it; the properties follow from the relation and from books kept on what
is held across awaits.

**Gate** (`ReviewGateProofs`).
`OneCurrent`, `NoLostUpdate` and `DecidedOnce` are for any numbers of proposals,
pages and drafts; `TypeCorrect` is the type invariant. (The type invariants of
gate and outbox are proved, so no run repeats them.) `OneCurrentRevision` and
`LinearHistory` are not inductive: an approval that publishes against a base says
nothing by itself about who published against it before. `HistoryInv` adds what
the code keeps true for that to work:

* `PointersAgree`: a pointer names a current revision of its page and every
  current revision is pointed to; a deleted page remembers a superseded one;
* `StagedOnce`: a proposal stages a page at most once, stages pages or a
  lifecycle change but not both, and an unused id owns nothing (which splits
  have to preserve when they move rows);
* `BasesPublished`: a base is a published revision of the same page, and
  nothing was published against a revision that is current or merely deleted.

The last is the heart of the argument: publishing against the current revision
is the first time, because the pointer moves on, and a restoration puts a
revision back that nobody had replaced. `GateImplementsShelf` proves
`ImplementsPublishedPages`: every transaction of the gate is a compare-and-swap of
published pages, a deletion, a restoration, or changes nothing a reader of pages
sees.

The other rows are followed from the proposal that owns them (`RevMove`,
`ClaimMove`, `RelMove`, `DecMove`): a row is staged for or moved to a proposal the
step opens, and becomes readable with the approval of its owner. `RowsInv` adds
`OwnersKnown` (rows belong to proposals that exist) and `Nested` (what a pending
proposal stages is about pages it stages, so a split takes it along). From it:
`ReadableIsApproved`, `ApprovalPutItThere` (with `FirstRevision`: a page that was
ever published has a revision without base, so a second one without base is what
resurrects it), `NothingLeftBehind`, `DisputesShown`, `DecisionsTold`, and
`CachesAreSound` (an approval moves the epoch, and of the other steps only the
staging of a superseded decision anew changes what a reader sees). `PreviewsAreTrue` compares the queries of the diff and
the lint with the flips of the approval, one kind of consequence at a time; it
needs `RowsInv` and that only lifecycle proposals name a page to change
(`LifeNamed`).

**Pipeline** (`IngestQueueProofs`).
`RowStep` says what a step may do to a job and `LoopMove` what to a loop.
`EndedStays` and `FailuresAnnounced` follow from the guards of the terminal
writes. `OneLoopPerJob` needs `InHand`: the job a loop works on is running,
or somebody has ended it, and only waiting jobs are claimed.
`OneReview`: a proposal is inserted only where the content has none pending.
`RetiredAfterReplacement` needs to know what proposals and loops are about
(`ProposalsCite`, `LoopsCite`): a loop that retires has a proposal of the newer
bytes. `CeilingHolds` counts: waiting jobs, admitted requests and jobs in hand
exchange elements, and only a request that saw room joins from outside; the queue
exceeds its ceiling by the clients and loops there are and no more.

**Outbox** (`OutboxProofs`).
`FanOutComplete` and `DeliveredMeansReceived` hold for any number of workers,
which fan out the same events and post the same rows at once and fail anywhere,
where `outbox_worker` has one. The inductive invariant `OutboxInv` adds what
workers hold across awaits: a row being delivered exists, and was received once
its call was answered (`HeldRows`); a worker about to dispatch an event holds every
endpoint that is owed the event and still active (`HeldEvents`), because endpoints
are registered once and switched off for good and an event is owed only to
endpoints that existed (`OwedKnown`).
`OneRowPerEndpoint`, `RetriesAddUp` and `SettledStays` have the hypothesis
`OneWorker`, exactly one process: nothing in the code keeps two apart, and with
two the statements are false (section 6). A settled row is in nobody's hand, but for the one whose write as
delivered was reported as failed: the worker that goes on to `onFailure` still holds
it (`disputed`). `SoleInv` adds that rows come with the
dispatch of their event (`DispatchBooks`), that the rows a worker holds are as the
table has them (`RowBooks`), and the sums of attempts, calls and faults
(`AttemptBooks`, `BreakerBooks`).

**Schedules** (`SchedulesProofs`).
`WindowsHold`: a window repeated is a row that holds an instant already claimed,
and claimed instants are past (`ClaimsPast`, `NextIsFresh`); a row that fires at a
wrong time was armed with a wrong one (`InstantsDue`). `NoGapInBriefings`: every
approval stamped in the period covered so far is told, missed, or owed by a
loop between its claim and its report (`StampedAccounted`). The invariant is
about approvals that are not committed yet too: when they commit, the claim that
should have named them may be past.
`NextRunHolds`: for every zone regular at all instants, every window and day of
the clock, the walk returns the first of the window's runs still ahead.
`InstantOfDay` is the heart: of a wall clock that is shown, the first showing is
one of the two candidates, because only one transition is near (`ShownInstant`);
of one that is not, the transition is a gap and the earlier offset lands behind it
on the same date (`SkippedInstant`); and no later date is shown before it. So
instants and days are in the same order (`DaysInOrder`), and a day before today is
never still ahead. Tomorrow's instant can be past already, when a fold takes the
clock back across midnight, the day after tomorrow's cannot; from there a whole week
is in the walk, and a week has every weekday once (`FirstDayAhead`,
`WeekdayAhead`). This is what the ninth candidate is for: with eight,
`NextRunIsNextDue` fails.

**MCP sessions** (`McpSessionsProofs`).
`SessionsHold`, `ReviewsAnnounced` and `VictimsIdle`, for any number of sessions
and requests and any limits. A step moves one request and takes, gives back or
keeps one retain (`Takes`, `Gives`, `Keeps`), so counter and holders change
together. The invariant `McpInv` adds what a request knows of its session
(`ReqOK`: it was in the map, or is still fresh and this request founded it; a
body that somebody pulls is held) and that a fresh server has one founder
(`FoundedOnce`). With no retain there is no holder, which is why what the sweep
and the cap take is idle; that the cap makes room is arithmetic on the size of the
map (`RoomOrBusy`), and that the registry keeps its limit is that the entry with
the least number goes (`RoomIsMade`). An entry that left the registry was notified,
evicted, or lost its session, and what is evicted has `MaxPending` younger ones
behind it: that is the bound `ReviewsAnnounced` puts on who is not told.

**Tokens** (`OAuthTokensProofs`).
`Books` says what the row locks give: no two requests hold one row, a row a
transaction let through is unspent until it commits, and a token is of a family
and a used-up code. `SingleUse` adds that tokens of one code are of one family
(`OriginBooks`) and what a rotated token remembers (`SpentBooks`);
`NoResurrection` follows because a live refresh token appears only in the commit
that ends another of its family, or in a new family. `RevocationsReach` follows a
revocation through its statements: it has in hand, or has ended, every live token
of the kinds it has picked, but for those that raced it (`EndSeen`, `AdminSeen`);
whoever waits in a ring is a replay (`RingsAreReplays`).
These proofs found two faults of the model, both corrected: an ended row was
stamped with the instant of the write instead of the one of the request's check
(with more instants than the run had, `ReplayRemembered` then failed), and a
request merely waiting for a ring counted as a member of it.

**Login** (`OAuthLoginProofs`).
`LoginHolds` and `LoginRevivesNothing`: a state that was never written is not
consumed, only a consumed one has an outcome (`StateBooks`), and no login is about
to write a grant an operator has pinned (`GrantBooks`).

**Outputs** (`OutputsProofs`).
`PromotionsHold`: a promotion that is not late found the row unstamped and no
other promotion on its way; a job that somebody is on the way with is open, one that
was written has stamped its row, which then is never unstamped or swept, so every
earlier job of the output was lost or late (`NoJobUnlessOverlapped`,
`FirstUnlessLate`, `JobsAccounted`). Two promotions of one output that are not late
never run at once, so the job the first of them enqueues is the only one that
counts. `WalksHold`: the cursor divides the rows into those shown and those
still due (`CursorDivides`), a page is the newest rows behind the cursor because
the rows are linearly ordered by time and id (`PageIsNewest`), and only rows
past the retention are swept (`SweptIsOld`).

**Only model-checked.** Liveness (`AcceptedEnds`, `EventuallySettled`,
`EveryDueIsTaken`, `EveryLeaseEnds`) is out of the prover's reach: these four
properties hold of the instances of their runs, under the fairness above. That a
zone of the IANA database is `Regular` is a fact about data, and neither checked nor
proved.

## 5. What is not modelled

* *Gate.* An apply as several statements under row locks (the model takes it as
  one step); the claims of two approvals in flight at once are therefore
  outside. A preview is compared with an approval of the same state; one that
  was read earlier is not. In the code the child of a full split that takes the
  decisions has the hash suffix of a page named `decisions`; the two are distinct
  here.
* *Pipeline.* Suggestions and `leave` of triage, version markers and tombstones
  of streams, how texts are chunked and ranked.
* *Outbox.* Signatures, secrets, target checks.
* *Schedules.* The limit of 20 rows armed per poll; the first briefing's clock
  is read with its claim, not right after it; zones that are not `Regular`, among them a gap so late in a local day that
  the skipped time is read as a time of the next date: asked between the
  transition and that run, the walk begins on the next date and passes it over, so
  `NextRunIsNextDue` fails there. The words of the reports.
* *OAuth.* Registration and clean-up of clients, rate limits, scopes, PKCE as a
  computation, the bootstrap key and the end of its sessions when it changes
  (`server.ts:717`), resources, the key an operator session is bound to beside its
  identity, the identity grant a key minted for an identity still depends on when
  somebody logs in with it (`server.ts:745`), grants without any scope, which are
  denied (`server.ts:556`; `PUT` no longer writes one). An UPDATE of several rows takes its locks at
  once.
* *MCP.* The tools other than the review tool, which read, or call what other
  modules model.
* *Not modelled at all:* audit rows other than the gate's (appended in the
  caller's transaction), agent sessions (single statements), search, answers,
  statistics and the other lint rules (reads), export and import (files built
  from reads; an import stages ordinary proposals), charter and spaces (single
  statements), HTTP routing and schemas, the LLM provider and the embedder
  (external answers, which the pipeline's model takes as choices), the storage
  driver and migrations runner, configuration, logging, metrics, and the cockpit
  (a browser client of the REST routes). They have no protocol of their own;
  `PROJECT.json` says so for each. Most of the repository's lines are of these
  kinds, or are schemas, texts and scripts.

## 6. Where code and words differ

Statements of the repository that the model contradicts. The properties in the
runs hold with these cases as named exceptions (`late`, `raced`, `evicted`,
`disputed`, ...), or concern something else; most were found as counterexamples, the others
while reading for the model.

*Gate*

* `routes.ts:1348`: a stale approval over REST answers "this proposal is now
  failed (terminal)" (`proposals.ts:1336`) and leaves it pending: the transaction
  of the REST handler is aborted, and the write of `failed` with it
  (`ApproveStaleRest`). `domain-proposals.test.ts:562` tests the other path.
* `0034_wk_decision_dedupe.sql:101`: a proposal for a new page is approved after
  the page was created and deleted, since both have no base: the page is current
  and deleted, where `0033_wk_concept_lifecycle.sql:1` says "A deleted concept is
  an identity with no current revision". `OnlyUnbasedResurrects` shows it is the
  only way.
* `proposals.ts:917`: "Every condition below is a condition of wk_apply_proposal
  flip 5 ... A flag BROADER than the flip tells the reviewer a consequence the
  approval will not produce". It is broader in one case: the rival of a flagged
  claim is superseded by another claim of the same proposal, and flip 5c runs
  first (`DisputesForetold`). The message of `lint.ts:1137`, "approval disputes
  both", has the same exception.
* `0034_wk_decision_dedupe.sql:126`: an approval can derive a relation to a page
  that is deleted, because the claims of a deleted page stay visible; no surface
  foretells that the link is broken (`BreaksForetold`).
* A proposal that stages a decision and its predecessor leaves both in force,
  and a predecessor that is still only proposed when its successor is approved
  is not marked and can become active later (`RemovalsForetold`; flip 6c).
* `concept-lifecycle.ts:60` marks the relations a deletion removes when it is
  staged; one staged or activated later survives the deletion, where
  `proposals.ts:1287` says "local relations will disappear on approval".
* `0027_wk_url_elicitation_channel.sql:154`: deferring the same page of the same
  input twice builds the same child hash, where `0020_wk_review_operations.sql:18`
  says it "never trips the pending-dedup index".
* `0027_wk_url_elicitation_channel.sql:144`: a deferral that leaves decisions or
  markers behind makes more than the "ONE child" of
  `0020_wk_review_operations.sql:12`.
* `proposals.ts:776`: staging a decision again takes over its row, so a
  superseded decision drops out of the list that `decisions.ts:46` describes, and of
  `GET`, before anybody has reviewed the proposal. The epoch stays, where
  `routes.ts:1904` calls the ETag over it a "perfect cheap validator for ANY read of
  approved knowledge" (`Restaged` in `EpochValidates`).

*Pipeline*

* `pipeline.ts:406`: "quota_blocked jobs DO block: they resume on their own"
  (`pipeline.ts:394`, `docs/CONTRACTS.md:1303`); a parked job does not block a
  second submission of its content.
* `chunker.ts:33`: the backfill indexes again what the index window took out
  (`docs/CONFIGURATION.md:358`).
* `pipeline.ts:1000`: the older version's worker stages its proposal after the
  newer version's retirement ran, and both are under review, where
  `CHANGELOG.md:449` says "A superseded capture no longer leaves a competitor
  behind".
* `triage.ts:138`: `suggestTriage` writes the whole input back after the model
  answered, over a `leave` decided meanwhile.
* `sources.ts:413` spares sources with a job by `source_id`, which is written
  when the job ends: a source being ingested can be taken out of the index
  (`docs/CONFIGURATION.md:368`).
* `source-streams.ts:146`: the head of a stream is set by whichever version is
  archived last, not pushed last (`0039_wk_superseded_proposals.sql:3`).

*Outbox*

* `webhooks.ts:432`: nothing claims undispatched events, so two processes that
  read one event both fan it out (`docs/CONTRACTS.md:2024` promises "one
  `wk_webhook_deliveries` row per matching active endpoint"). With two members
  in `Processes`, `OneDeliveryPerEndpoint` fails after eight steps. A row
  delivered by one worker can likewise be written back to `failed` by the other
  (`SettledIsFinal`). Receivers can deduplicate on `webhook-id`.
* `webhooks.ts:620`: "pending → delivered|failed|dead is crash-safe". With one
  worker too a delivered row becomes `failed` and is sent again, or `dead`, when the
  update to `delivered` (`webhooks.ts:544`) is committed and reports an error: the
  catch runs `onFailure`, which writes by the row's id (`ReplyLost`, `disputed`).

*Schedules*

* `schedule.ts:22`: "exactly ONE briefing per window". A PUT or an arm that read
  the clock before a window and is applied after it arms the window again
  (`late`); so does a process whose clock is behind the database's.
* `schedule.ts:934`: "both compute the same instant". An arm that read a row
  before a PUT writes the instant of the columns the PUT replaced (`displaced`).
* `schedule.ts:294`: "sampled a day either side of the target, which is safe
  because no zone transitions twice within 24 hours". The samples are two days apart,
  and the argument takes one transition in these two days (`Regular`).
* `schedule.ts:32`: "A missing briefing is repaired by tomorrow's". The next
  briefing looks back to the lost one's claim: its approvals are not reported
  (`missed`). The same befalls an approval stamped before a claim and committed
  after the briefing read.

*MCP*

* `tools.ts:1005`: "The server sends notifications/elicitation/complete when the
  review lands". Not when it lands in a form; not when it ends in a full split over
  REST, whose handler (`routes.ts:2225`) does not call `complete()`; not when the
  handler's commit is answered with an error; not for a page opened after the
  decision; and not for an entry that 500 later reviews have pushed out
  (`elicitation-registry.ts:43`, whose log line says so). `DecisionAnnounced` is
  about the decisions that do call it, and names the page opened late and the
  eviction.

*OAuth*

* `oauth/server.ts:1671`: "the complete token family was revoked". A rotation of
  the family that commits between the statements of `revokeFamily` leaves its
  pair alive (`raced`).
* `routes.ts:2643`: a token request that had checked the grant before an identity
  was revoked issues its pair after it (`slipped`).
* Two replays of one family can wait for each other: PostgreSQL aborts one, whose
  family end the other then completes.
* `oauth/server.ts:513`: "Operator-managed rows ... keep their stored ceiling". A
  login that read the row as `bootstrap` and writes after a PUT takes it back
  (outside `pinned`). No property bounds this case; `OperatorGrantKept` is about
  the logins that read the row after the PUT.
* `oauth/server.ts:983`: "A replayed state must not mint a second session". A
  second session row is minted; its cookie is never delivered.

*Outputs*

* `outputs.ts:302`: "RE-PROMOTION IS IDEMPOTENT". Two overlapping promotions
  enqueue two jobs (`late`); a death between enqueue and write leaves the row
  unpromoted with a job under way, and the next promotion makes another (`lost`).
  `OneJobPerOutput` counts: every job beyond the first belongs to such a promotion.
* `outputs.ts:363`: the row a promotion came from is kept, unless the sweep takes
  it between the promotion's read and its write (`stranded`).
* `outputs.ts:206`: a walk whose cursor's row was swept ends early; what it misses
  is older than the retention (`WalkMissesOnlyOld`).

## 7. Plan

In this order; each step is a module with its run, then its proof.

1. **`SourceStreams`**: version markers, tombstones and the race of two first
   pushes, refining the archive of `IngestQueue`; triage suggestions.
2. **`ApplyTx`**: approval as statements under row locks, for two approvals in
   flight, shown to implement `ApproveProposal` where it does.
3. **Composition** of `ReviewGate` and `Outbox` over the event table: every
   decision reaches every endpoint owed it.

## 8. Running

Each run of `PROJECT.json` is a module and a configuration, for instance

    tlc -workers 2 -config ReviewGatePages.cfg MCReviewGate
    tlc -workers 2 -config IngestQueueCrash.cfg MCIngestQueue
    tlc -workers 2 -config OutboxWorker.cfg MCOutbox
    tlc -workers 2 -config Schedules.cfg MCSchedules
    tlc -workers 2 -config McpSessions.cfg MCMcpSessions
    tlc -workers 2 -config OAuthTokens.cfg MCOAuthTokens
    tlc -workers 2 -config OAuthLogin.cfg MCOAuthLogin
    tlc -workers 2 -config Outputs.cfg MCOutputs

and takes from fifteen seconds to four minutes on two cores. The proofs are
checked by

    tlapm ReviewGateProofs.tla
    tlapm IngestQueueProofs.tla
    tlapm OutboxProofs.tla
    tlapm SchedulesProofs.tla
    tlapm McpSessionsProofs.tla
    tlapm OAuthTokensProofs.tla
    tlapm OAuthLoginProofs.tla
    tlapm OutputsProofs.tla

in half a minute to four minutes each.
