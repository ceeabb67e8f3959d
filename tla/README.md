# A verification project for Scoop Feeds

Scoop Feeds is a news service: it ingests feeds, groups articles into events, writes
and renders material about them with the help of language models and image tools,
and publishes it on a website, a radio stream, by push and email, and on social
platforms. The backend is Node.js (`src/backend/src`), its database one SQLite file
in WAL mode, its job queue BullMQ on Redis, its frontend React.

This directory holds TLA+ modules for the parts of the backend whose correctness
depends on order, failure and time, TLC configurations that check them on small
instances, and proofs that TLAPS checks for every instance. Nothing here models
wording, ranking scores, images or page layout.

To check a module: `tlc -config MCLlmQueue.cfg MCLlmQueue`. To check a proof:
`tlapm QueueProofs.tla`.

## 1. Inventory of the system

### Processes

`docker-compose.production.yml` starts several containers of one image. The **web**
process serves HTTP and the operator routes. The **scheduler** owns the cron table
and dispatches jobs. The **worker** runs ingestion, video, rendering, long-form,
social, enrichment, radio and newsletter jobs, and **worker-graph** analysis and the
reality index. They share the SQLite file, the Redis server and a data directory,
and nothing in memory. Each is one JavaScript thread: code between two awaits is
atomic within its process and, statement by statement, interleaved with the other
processes through SQLite. This is the rule by which the modules decide what one
action is: the code from one await to the next, or one SQL statement or
transaction where another process can come in between.

### Components

| component | state it keeps | operations | interacts with | what makes it correct |
|---|---|---|---|---|
| Scheduler (`services/scheduler.js`) | cron table, `isXRun` flags | `dispatchCycle`, `runDispatch`, in-process cycles | job queues, every in-process cycle | each cycle is dispatched at its time and no cycle is starved by a hung one |
| Job dispatch and queues (`jobs/`) | BullMQ jobs, locks, wait lists | `dispatchOne`, Workers' processors | scheduler, Redis, every cycle | a singleton never blocks itself for ever, is never queued twice, and a dispatch always settles |
| LLM caller (`realityIndex/llmQueue.js`) | `llm_daily_calls`, `llm_usage`, the in-memory queue and breaker | `callJson`, the pump, the breaker | every generator | the daily cap, no lost or repeated call, a pump that never stops |
| Paid-call ledgers (`generation/whatWeKnow.js`, `eventCarouselCopy.js`, `intelligence/eventActorExtractor.js`) | `event_what_we_know`, `event_actors`' attempts, `event_carousel_copy` | an hourly cycle or a request, one paid call, the row behind it | LLM caller, event graph, social publisher | unchanged content is paid for at most three times, and nothing is forgotten |
| Event graph (`realityIndex/intelligence/eventPromoter.js`, `eventBreaker.js`) | `events`, `event_articles`, tombstones | read, merge, match, absorb, adopt, create; split, detach; prune | ingestion, ledgers, pages, the web process's refresh | no story is lost or locked out, a merged event's page leads to its survivor |
| Social publisher (`services/socialPublisher.js`) | `social_posts`, `system_heartbeats`, `cycleInFlight` | platform cycles, operator requests | job queues, platforms, events | a story goes out once per platform, a hung cycle is seen and does not silence the rest |
| X text queue (`xTextPoster.js`, `xPostDigest.js`) | `x_post_queue` | enqueue, cycle, digest, stale sweep | X, mail | the daily cap, whole threads only, no repeats |
| Short-video loop (`services/videoAutopost.js`) | `video_posts`, `cycleInFlight` | claim, upload, cross-posts with deadlines | YouTube, Meta and other video surfaces | one upload per article, spacing and caps, no pinned files |
| Incident media ledger (`services/incident/`) | `media_candidates`, its audit rows, rulings | intake, verify, rule, clear, tap, revoke | web routes, shot resolver | nothing unverified, uncleared or uncredited is used; people have the last word |
| Shot resolver (`services/shots/`) | `shot_assets`, stored plans | the ladder of rungs | incident ledger, image tools | a plan shows only what may be shown |
| Long-form films (`services/longform/`) | film plans, publication guard | produce, plan, publish | LLM caller, YouTube | a film is published once |
| Video artifacts | files and holds | sweep | video loop | a file outlives every pending fetch |
| Newsletter and email sequences (`routes/newsletter.js`, `digest.js`, `welcomeSequence.js`, `confirmReminder.js`) | `subscribers` and its stamps | sign up, confirm, leave; two editions, two welcome mails, one reminder | SMTP, scheduler | each mail once, none long after the subscriber left, a link that works |
| Push (`pushService.js`, `breakingNewsPusher.js`, `watchlistPushDispatcher.js`) | `push_subscriptions`, `pushed_articles`, `pushed_anomalies` | subscribe, broadcast, dispatch, count failures | push gateways, ingestion, administrator | a message once per device, a dead endpoint is dropped, a live one kept |
| Markets | pools, resolutions, snapshots | trade, resolve, downsample | events | money is conserved, a market resolves once |
| Radio (`radio/`) | playout queue, programme state | playout loop, watchdog, safety | film library | the stream never stops and plays nothing withdrawn |
| Ingestion and enrichment | articles | fetch, upsert, enrich | everything | an URL is one article |
| X post drafting, LLM usage records, scoring, HTTP API, signal service, database layer, frontend, dashboard, deployment | | | | |

`PROJECT.json` lists the same components with their sources and, for the ones that
are not modelled, the reason.

### What is hard here

* **Two runs of one cycle.** Most cycles guard themselves with an in-memory flag that
  a later run overrides when it is old enough. A run taken for hung may come back.
* **Publish, then record.** No platform offers an idempotent post. Between the
  platform's publication and the row that records it, the process can die, the
  answer be lost, the write fail.
* **Deadlines that do not cancel.** `Promise.race` with a timer leaves the loser
  running: the Redis command, the cross-post or the social cycle acts later.
* **State read before an await and used after it**: budgets, candidate lists, the
  breaker, human rulings.
* **Several processes, one database**: a SELECT and the INSERT after it are two
  statements. The event graph is written by a cycle of the worker that no transaction
  holds together, and by a request handler of the web process that knows nothing of
  that cycle's flag.
* **Send, then mark**: mail and push go out one recipient after the other and are
  stamped behind each or at the end; the lists they work from are minutes old by then.
* **Caps counted in one unit and spent in another**: rows and posts, calls and
  attempts, recorded and actual publications.
* **Long chains of legal requests** by operators, and a flag that switches an engine
  off in the middle of them.

The hazards that follow from these, each at its line, are in `PROJECT.json` with the
properties that cover them.

## 2. Modules

| module | models | run | states (about) |
|---|---|---|---|
| `JobDispatch` | the dispatch of singleton jobs, the queue and its Workers | `job_dispatch` | 31 000 |
| `LlmQueue` | `callJson`, the daily cap, the pump, the breaker | `llm_queue` | 364 000 |
| `PaidLedger` | the ledgers of three generators that pay per event | `paid_ledger` | 195 000 |
| `EventGraph` | promoter, breaker and prune over events and their articles | `event_graph`, `tombstone_overwritten` | 642 000 |
| `SocialCycle` | the article-card cycle with its flag, heartbeat and rows | `social_cycle` | 1 384 000 |
| `XTextQueue` | the X queue, its cycle, the digest and the sweep | `x_text` | 841 000 |
| `VideoPosts` | claim, upload, cross-posts, abandoned calls | `video_posts` | 2 100 000 |
| `Outbox` | what the senders of mail and push promise, abstractly | refined in `newsletter`, `push` | |
| `Newsletter` | sign-up to unsubscription, the digest, welcome and reminder runs | `newsletter` | 378 000 |
| `Push` | devices, broadcasts, the watchlist dispatcher | `push` | 194 000 |
| `UseRights` | what the incident engine promises, abstractly | refined in `incident_ledger` | |
| `IncidentLedger` | the ledger's handlers, verification, the resolver's two rungs | `incident_ledger`, `reuse_of_revoked` | 766 000 |
| `QueueProofs`, `LedgerProofs` | theorems about `LlmQueue` and `JobDispatch`, `IncidentLedger` and `PaidLedger` | | |
| other `...Proofs` | theorems about the module they are named after | | |

Every `MC` module instantiates one of these for TLC. In the specifications, an
operator marked *Mutant* just before a definition is a plausible wrong version of
it; no specification uses it. It is there so that one can replace the definition by
it and see the property fail which the definition is supposed to uphold.

A property that a run lists may be the conjunction of a few named ones which belong
together (`QueueInv`, `UploadsKept`, `LedgerInv` ...); the sections below say of which.

### JobDispatch

One action per Redis round trip of `dispatchOne`: `Begin` sends `getJob`, and each
`Deliver` executes the oldest command on the connection and lets its caller send the
next one. `Timeout` is the deadline of `jobs/queues.js` winning its race: the caller
goes on, the command stays on the wire with no owner. `Reject` is a connection that
drops a command. BullMQ is modelled from what the code relies on: a duplicate id is
not an error and returns the job that exists, a locked job cannot be removed, a
stalled job is put back `maxStalledCount` times and then failed. The check that an
added job is fresh (`timestamp >= enqueuedAt`) compares a clock reading with one the
same call took; instead of clocks, a job carries the set of dispatches in progress at
its creation.

* `QueueInv` is the types with `QueueConsistent` and `RunsBounded`: no interleaving of
  late commands, lapsed locks and stalls queues one id twice, or runs a job more often
  than the stall allowance.
* `DispatchKept` is `DispatchSettles` and `EnqueuedRuns`.
* `DispatchSettles`: every dispatch ends even when Redis never answers. Fairness: the
  timers fire (`WF` on `Timeout`), nothing is assumed of Redis.
* `EnqueuedRuns`: a dispatch reported as enqueued is followed by a run, unless it was
  superseded. Fairness: Workers fetch (`SF`, a Worker blocks on the list and is woken
  for a job that is offered again and again), processors return (`WF`; the cycles
  have timeouts of their own), the stall checker runs.
* `NoDeadSingleton`: under `RedisHealthy` (from some point on Redis answers in time
  and the cron ticks) the job is active again and again from every initial state of
  its key, unknown and completed included. This is the liveness the singleton rule in
  `queues.js` was rewritten for.

Bounds: one job id, two dispatches at once, two commands on the wire, one crash. One
id is enough for these properties: ids share only the list order and the Worker, and
the two dispatches can already be of one id.

### LlmQueue

`callJson` is split where another process can come in: `CheckBudget` is the SELECT,
`CountCall` the INSERT with the entry into the queue, `CountFails` the fail-open
branch. `Send`, `Succeeds`, `FailsSoftly`, `FailsHard`, `FailsTransiently` and
`RejectsParam` are the pump's await and the ways it ends. `Restart` forgets
everything but the tables; `Midnight` changes the UTC day between any two steps.

* `CapOvershoot`: processes can overshoot the daily cap together, but by no more than
  their number less one, a call counted on a day that has just ended included.
* `NoCallDropped`: admitted calls are waiting, in flight, settled with exactly one
  usage row, or died with their process.
* `BreakerJustified`: an open breaker has failures behind it that nothing cleared.
* `PumpDrains` (liveness): the process runs its own statements and every request ends,
  since requests carry a timeout. Transient errors cannot go on for ever because attempts are counted, and
  a parameter is dropped at most once.

Bounds: two processes, a cap of one, one retry, a breaker that opens at two failures,
two priorities, two days, one failing statement and one restart. The cap is small so
that overshoot, refusal and midnight meet in a few calls.

### SocialCycle

A cycle is a record in a slot: the process it runs in, its start time, the platforms
it still has to visit, the story at hand. `Start` is `runAllPlatformsCycle` up to its
first await, with the flag taken or overridden and the heartbeat written; `Select`,
`Prepare`, `Ship` and `Answered` are the stages of a visit between awaits; `PostFails`,
`PostedRowFails` and `BothRowsFail` its failure paths, with the single-card fallback;
`Complete` the end of the loop. Cycles start in the processes whose scheduler dispatches
them (`Crons`) and, on an operator's request, in any (`POST /auto-post` is served by the
web process); `StartThrows` is the start whose heartbeat write throws outside the `try`,
which leaves the flag set. `Poke` is the operator's single-platform request, which runs
outside the flag. A cycle may hang in any stage: its steps have no fairness. Time is a
clock that ticks up to a bound.

The guarded completion is two statements, so it is two actions: `End` is the SELECT of
the heartbeat row with the decision, `RecordEnd` the upsert with the `finally` block,
`RecordEndFails` the upsert that throws (into the catch block, or out of it). There is no
await between the two: the rest of the process stands still (`Yielded`), other processes
go on and the process may die.

* `SingleFlight`: two cycles of one process overlap only when the older one is past
  the hang threshold, late finishers included.
* `HeartbeatHonest`: the heartbeat belongs to the newest real cycle and says "start"
  as long as that cycle has not ended. Dry runs and late completions do not hide a
  hang. The history variable `overtaken` names the one exception: a cycle that began in
  one process while another process's completion stood between its SELECT and its
  upsert. The comment above `recordCycleCompletionGuarded` (`socialPublisher.js:813-817`:
  an abandoned cycle "must NOT clobber a NEWER cycle's heartbeat meta") knows no such
  exception; across processes the code does not keep it, within one process it does
  (`AloneHonest`, proved).
* `DuplicatesExplained`: every second publication of a story has its own overlap,
  crash, lost answer or failed write.
* `PickedOnce`: an event one of whose carousels went out is not picked for another,
  unless something overlapped or failed; retries, fallbacks to a single card and decks
  of other articles in between included. An article-first selection, which does not ask,
  is excepted (see section 3).
* `NeverSilent` (liveness): a flag is released or overridden, one left by a start that
  threw included. Fairness: time passes, the cron dispatches, and a row that was read is
  written (`WF` on `RecordEnd`: no await in between).

Bounds: two slots, two processes of which one has the cron, one platform (Instagram, which has all the paths the
others have and the event paths too), two stories of one event, four clock ticks, one
disturbance. Platforms are visited one after the other with rows of their own, so a
second one repeats the first.

### XTextQueue

`Start` is a cycle's count and list, read once; `BeginChain` takes or skips the next
thread under the budget; `Publish` and `Answered` are one post; `Unrecorded`,
`PostFails` and `PostFailsUnrecorded` what can go wrong in `postToX` and in the marks
after it. `Plan` maps the posts of an article to the rows they come from, since a row
is cleaned and split only when it is posted. Ages saturate at the thresholds the code
compares with, so time needs no bound.

* `RowCap`: without overlapping runs no rolling day holds more marked rows than the
  cap. `ChainFits`: while a chain is going out, what is left of it fits.
* `ThreadsIntact`: `NeverRepublished` (a post goes out again only for a fault or an
  overlap), `PrefixPublished` (never the rest of a thread without its beginning) and
  `MarkedWasSent`.
* `DeliveredOnce`: a row reaches people by the digest's email or by X, not by both. Only
  the status 'pending' keeps the two apart, and the digest changes it after its await while
  a run asks no row again. So the property excepts the rows that were on a run's list while
  they were in an email being sent (`crossed`), and faults. These exceptions are what the
  code does (section "Divergences"); everything else, the rest of a broken-off thread, rows
  marked in between, digests of what a run skipped, is covered.

`XTextQueue` has no liveness property: a row leaves 'pending' at the latest by the sweep, which
is a single statement and needs no argument.

Bounds: a thread of two rows and a row split into two posts, two runs, one disturbance.

### VideoPosts

`Start`, `StartGated`, `Claim`, `Accept`, `Record`, `UploadFails`, `Unrecorded` are
the cycle up to YouTube's acceptance and its record. `Begin`, `Post`, `Answered`,
`CallFails`, `Skip` and `Abandon` are one cross-post under its deadline; an abandoned
call lives on in `late` and ends by `LatePost` and `LateReturn`. Two surfaces may share
one status column, as Facebook's feed and Reel do.

* `UploadsKept` is `UploadsExplained` and `ClaimedFirst`: each upload has its own
  attempt on the row, and a second upload its crash, lost answer, failed write or
  overlap.
* `PaceHolds` is `RateHolds` (spacing and daily cap on YouTube, although the gate is
  asked minutes before) and `ChannelCap` (a surface's cap is exceeded only by posts the
  loop lost track of).
* `PostsInv` adds `PendingHasCall` to the types: a row pending on a URL-fetch surface
  has a call under way. `PostRecorded`: a post that went out is recorded as posted once
  its call has returned, however late, unless another surface writes the same column.
  `PublishedStays`: nothing a surface does re-arms a published video.

Bounds: two articles, two runs, three surfaces on two columns, three instants, one
abandoned call, one disturbance. Candidates and slots are symmetric; the run has no
liveness property, so symmetry is sound.

### PaidLedger

Three generators keep the same kind of row per event: the content last sent (a hash),
the attempts on it, the age and the outcome of the last one. The behaviour chooses which
of the three it is about; `entry[e]` is the row of an event, `call[r]` an invocation. `Start` is the SELECT of an hourly cycle, under its flag, or
`Ask` the social cycle's request for one event; `Skip`, `Probe` and `Call` are the
decision on the row, `Answer`, `Unavailable`, `Nulled` and `Unrecorded` the ways the
awaited call ends, `Crash` the process that dies with the answer paid. Beside them
the promoter (`PromBegin`, `PromApply`, `PromEnd`), the breaker and the prune change the
event, and stamp its activity with the start of their own cycle. Times are what the code
compares: the age of the attempt in steps of the spacing, and which of two stamps is the
later. The spacing is 6 h and 24 h for the facts and the actors, 4 h and 24 h for the carousel.

What a call cost and what its caller sees are two things, and the three generators read them
differently:

| how the call ends | paid | facts (`whatWeKnow.js:225-240`) | actors (`eventActorExtractor.js:118-126`) | carousel (`eventCarouselCopy.js:424-436`) |
|---|---|---|---|---|
| declined (no key, open breaker, spent day) | no | no row (null) | an attempt (null) | no row (null) |
| the provider was asked and failed | no | an attempt (`ok` is false) | an attempt (null) | no row (null) |
| a refusal or an empty text (`llmQueue.js:321-341`, `463-475`) | yes | an attempt (`ok` is false) | an attempt (null) | no row (null) |
| an answer the validation refuses | yes | an attempt | an attempt | an attempt |

`Unavailable` is the first two rows, `Nulled` the third for the carousel, `Answer` the rest.
`paid` counts the calls that cost something, `lost` those among them that left no row: the
process died, the write threw, or the carousel read the paid reply as null.

* `LedgerInv` is the types with `AttemptsCapped` and `OutageKeepsBudget`.
  `AttemptsCapped`: calls paid for one content stay under the cap, but for `lost` ones and,
  where two social cycles ask at once, those already awaited. For the carousel `lost` is not
  only a matter of faults: a model that refuses is asked and paid again at every cycle, since
  its null is taken for an outage (section "Divergences").
  `OutageKeepsBudget`: what the carousel's row counts was paid, so an outage costs an event
  none of its attempts. The other two ledgers do not promise this, and do not keep it.
* `GoodRowKept`: a good result is withdrawn only by an attempt on other content.
* `Settles` (liveness): once an event's articles no longer change and the promoter keeps
  matching it, its content ends with a good result or no attempts left, whatever was
  stamped with an earlier time before. Fairness: cycles start, take their turns and are
  answered, and time passes (`SF`: it can be held up by a cycle again and again).

Bounds: one event, since rows are independent and a cycle's list only shares its budget;
two bundles that pass the gates and one that does not; two invocations, three attempts,
one fault (an outage, a decline, a paid null, a failed write or a death).

### EventGraph

`Begin`, `ReadEvent` and `LoadCluster` are the reads of a promoter's run: the list of the
open events, their articles event by event, the clusters one by one, with a yield after
each and minutes before the writes. `Merge` and `MarkMerged` are the merge, statement by statement; then each cluster
takes a turn: `Match`, `Absorb`, `Adopt`, `Create` or `Hold` chooses what becomes of it,
`Insert` and `Link` are the statements, a link being one INSERT per article. `Split` and `Detach` are the breaker's, each a
transaction; `Prune` and `Sweep` the nightly deletion of articles and, later, of links to
them; `Crash` comes between any two. Which cluster tells the same story as which event is
text similarity in the code and a free choice here, so that what holds does so for every
scoring. The web process's refresh is a second run (`Manual`) from a snapshot of its own.

* `GraphInv` is the types with `MergedReachesOpen`: a tombstone's redirects lead to an
  open event.
* `NoStoryLost`: an article in an open event stays in one until it is pruned or detached.
  `TwoVoices`: an event does not grow while all in it is one outlet's, by the rows and
  not only by the run's memory. `NoDanglingReborn`: swept links are not written again by
  later runs.
* `ClusterServed` (liveness): a cluster with two outlets is in an open event again and
  again, whoever held its identity before. Fairness: the cron begins a run, statements
  follow one another, the breaker and the sweep run.

Bounds: five articles of two outlets in two clusters, three event rows, one prune or
death. Merges, splits, absorption, adoption and a tombstone that keeps an identity all
happen with them. The passing run has no refresh; `tombstone_overwritten` has one.

### Outbox, Newsletter and Push

`Outbox` is the promise of everything that sends and then writes down that it sent: an
item reaches its recipient once, and once more for every slip. A slip is one death, one
lost answer or write, or two runs that had both listed the item; the day's digest is an
item that is renewed.

`Newsletter`: `SignUp`, `Confirm` and `Unsubscribe` are requests; a run of one of the four
jobs is its list and its place in it: `Start`, `SecondStage` (the welcome run's second
SELECT), and per mail `Sent`, `Refused`, `Unstamped` or `NothingToSend`. Times are ages of
the stamps in parts of a day.

* `MailedOnce` is the refinement of `Outbox`.
* `MailInv` is the types with `StopsWhenAsked`: after an unsubscription comes only what
  was already listed, one mail for each run under way.
* `ReaderServed` (liveness): whoever signs up ends with a link that works (`LinkComes`), a
  confirmed subscriber gets both welcome mails within their windows (`WelcomeComes`) and
  digests for ever after (`DigestComes`). Fairness: crons fire, mail is answered, time
  passes; nothing is assumed of people.

Bounds: one subscriber (rows are independent), two slots for runs, two parts a day, three
requests, one fault. Runs end within their part of the day unless a fault makes them slow.

`Push`: `Broadcast` and `Dispatch` choose a message and list the devices, `NextUser` and
`NextSlice` go on, and an answer is one of `Accepted` or `Failed` in two statements, the
count (`StartOver`, `OneMore`) and the verdict (`Verdict`, `Disable`), between which other
processes come. `Record` and `RecordFails` end a run.

* `SentOnce` is the refinement of `Outbox`.
* `DisabledJustified`: a device is switched off only after enough failures in a row or when
  its gateway calls it gone, unless something came between count and verdict.
* `AlertTried`: an alert does not age out before it was sent to, or tried for, everyone who
  watches the event and had a device all along.
* `DeadDropped` (liveness): a device that is not reached any more is not dialled for ever.
  Fairness: runs go on; that there are ever new messages is not assumed.

Bounds: the constant `Casts` gives each behaviour its devices and messages: one device
between the two broadcasts and the dispatcher, two users of whom either may have no device,
one user with two devices in two slices; one story and one alert at a time, replaced by
others as they age, and one fault.

### UseRights and IncidentLedger

`UseRights` is the promise: a piece of footage is unjudged, verified, usable or ended,
comes forward one stage at a time, never comes back once ended, and first enters the
video pipeline while it is usable.

`IncidentLedger` has one action per operator request that changes a candidate, all
through `Transition` where the code goes through `transition`: `Intake`, `Rule`,
`BeginClearing`, `Clear` with its lanes, `GrantReply`, `MarkUncleared`,
`ApproveForRender`, `WithdrawRenderApproval`, `Revoke`. A verification awaits its
checks, so it is two actions, `VerifyStart` and `VerifyFinish`, with other requests
and a second verification in between; the assessment's UPDATE and the transition are
two statements, and `VerifyTorn` dies between them. What the machine can answer is
restricted as the checks restrict it: prior appearance never passes without a person,
a sensitive story stops the rest. `IncidentRung` and `ReuseRung` are the two rungs of
the shot resolver that can put a candidate into a plan. `Restart` drops what was
awaited and may switch the engine off.

* `DefensibleUse`: what plans show and the library holds was verified, cleared and
  tapped, each with an audit row, and carries the credit it owes.
* `AssessmentExplained`: the assessment on a row is the one that decided it, unless
  verifications overlapped or a crash tore the two writes apart. Both exceptions
  happen in the run.
* `HumanDecides`: no kill by a person is overruled, even one recorded during the
  await, and no candidate is verified without a person's pass.
* `KeepsRights`, the refinement of `UseRights` under the mapping `Phase`.
* `StickyRights` and `DarkOnlyWithdraws` are stated and proved, in no run.

Bounds: two candidates, two verifications, three of the four checks (the context check
behaves as the others do: it abstains or kills), two rulings, one restart. Candidates
do not influence each other in the ledger; two are needed for a plan that outlives one
of them. There is no liveness here: nobody is obliged to clear anything, and the
system may stop, so deadlock is not checked.

## 3. What the violation runs show

Each of these states what a comment of the repository says and TLC finds the code's
behaviour against it. The entries in `PROJECT.json` quote the lines.

1. `reuse_of_revoked`: a picture that entered the asset library while it was cleared
   is offered by the reuse rung after its clearance has been revoked or its approval
   withdrawn.
2. `tombstone_overwritten`: `POST /api/news/refresh` runs the promoter in the web process,
   which knows nothing of the worker's flag. Each of the two matches from a snapshot
   minutes old; when one has merged an event the other still holds as open, the other's
   match writes its meta over the redirect, and the merged page is served on its own.

### Divergences seen while reading, without a run

* LLM caller: the cap is called a hard ceiling (`llmQueue.js:90`) and is one for a
  single process only (proved: `HardCeilingSingle`). Calls queued before the breaker
  opens are still sent (`:23`). A call has one usage row, not one per attempt (`:31`).
* Dispatch: a dispatch reported as timed out with "nothing was enqueued" may enqueue
  later; a waiting singleton is removed and added at the tail on each tick, so on a
  queue whose backlog is longer than the period it may starve.
  Two Workers are registered on the social queue and neither looks at the job's name
  (`workerProcess.js:185` and `:213`), so each runs the other's jobs.
* Social: a crash between post and row posts twice, against "never double-posts" at
  the head of `socialPublisher.js`; a later failed upsert replaces a posted row. An
  article-first selection can post the carousel of an event that is already retired
  (`socialPublisher.js:128`), whose row then violates the unique index of migration 020
  and is recorded as a failure. A failed event carousel is recorded without its event
  (`socialPublisher.js:592`), so the two failures of `database.js:1488` are never counted.
* X: the budget is counted in rows across cycles and in posts within one
  (`xTextPoster.js:253`): a row split in two is one post from the next cycle on. A digest
  that has listed a row while a cycle posts it mails what is also posted;
  its guard on 'pending' protects the row and not the reader. The rest of a
  half-posted thread keeps a slot of the newest articles until it is swept.
* Video: writing the row before the upload does not prevent a second upload after a
  crash once the pending hold lapses. A cycle whose remaining budget is zero still
  starts the call whose deadline then fires. Reels never count against the cap, and a
  failed Reel is recorded over the posted feed post in their shared column
  (`videoAutopost.js:2261`).
* Ledgers: the actors' ledger counts an outage as an attempt (`eventActorExtractor.js:125`),
  the facts' one a failure of the provider (`whatWeKnow.js:233-236`). The carousel counts no
  null ("A null means we never got a response to judge", `eventCarouselCopy.js:428-433`), but
  `callJson` also returns null for replies that were billed, so that a bundle whose reply is
  always empty or refused is paid for without bound, against "must not be re-paid for on
  every cycle" (`eventCarouselCopy.js:55`).
  A bundle that changes and changes back has its attempts anew. The promoter stamps activity
  with the start of its cycle (`eventPromoter.js:366`), which an attempt made meanwhile
  hides from the SELECT of `whatWeKnow.js:268` until the next match; a prune changes a bundle
  without any stamp.
* Event graph: the breaker's `uniqueSlug` (`eventBreaker.js:49`) looks at `events` only, not
  at the aliases of migration 042 (behind a flag that is off). Two promoters that overlap and
  find equal `started_at` can merge two events into each other. A merge relinks the articles
  of its snapshot, swept ones included.
* Newsletter: a known address that signs up again is mailed links with a token its row never
  takes (`routes/newsletter.js:44-100`), and one that had unsubscribed is subscribed again
  without a new confirmation. Mail already listed is sent after the unsubscription.
  Confirming again starts the welcome windows anew. The welcome runs take 50 rows in a fixed
  order, so fifty addresses that always fail keep the rest waiting.
* Push: the cap that "is the only thing preventing two runs overlapping" is a `Promise.race`
  that cancels nothing, and `POST /api/push/breaking` runs unguarded in the web process. Count
  and verdict are two statements, so that a device reached or resubscribed in between can be
  switched off; one switched off while it was listed stays off after a success. An alert
  whose every send failed is recorded as pushed.
* Incident: no code makes the transition to "constructed", so the takedown that
  `incidentRevocation.js` announces for published footage never falls due. A person's
  kill on a candidate past verification is accepted and never read. A person's pass
  makes a later machine kill throw, so the candidate stays in verification. The
  resolver's incident rung does not look at the engine's flag. A stored plan is
  rendered for up to six hours without asking the ledger again.

## 4. Proofs

Every safety invariant and every action property of the passing runs is proved for all
values of the constants, from the assumptions named in the component modules (finite sets
where cardinalities are taken, natural numbers, `None` outside the sets). What is left to
TLC is liveness. `QueueProofs` and `LedgerProofs` each hold the proofs of two components that
share no state and no name (`JobDispatch` and `PaidLedger` have a prefix to theirs: `JobSpec`,
`PaidSpec`).

The invariants that the runs check are seldom inductive, and mostly for one reason: an
invocation acts on what it read minutes ago. So the proofs count what is *listed or awaited*
together with what is *done*, and say what a list may be trusted for.

**LlmQueue** (`QueueProofs`). `TypeCorrect`; `CapOvershootHolds`; `HardCeilingSingle`, which
is the comment's claim for one process; `CountPersistsHolds`; `BreakerJustifiedHolds`;
`NoCallDroppedHolds`. `CapOvershoot` does not know of the calls between SELECT and INSERT.
`Reserved` counts them with what is already counted, `PendingDay` says that they belong to a
day that has begun, and a call can be reserved only when the total is below the cap, hence
with at most all other processes pending. `NoCallDropped` is an equation between sums over
processes and priorities. What the pump's steps do to them (`SumsMove`, `SumsZero`) is proved from the defining equation of `Sums` by well-founded induction over the set of
instances of the claim. The proof needs the priorities to be a finite set (they are `PRIORITY`'s).

**JobDispatch** (`QueueProofs`). `QueueInvHolds`: for any ids, dispatches and Workers. The
list lemmas (`ListAppend`, `ListPush`, `ListTail`, `ListCut`) say what the four things Redis
does to the wait list do to its elements and that none is there twice. `Sound` adds that a
job which waits has a run less than its stalls allow.

**SocialCycle.** `TypeCorrect`; `SingleFlightHolds`; `HeartbeatHonestHolds` and
`AloneHonestHolds`. Three facts carry them: start times are never given out twice and lie in the past (`Starts`), a
running cycle either holds the flag of its process or is hung (`Owner`). A new cycle
takes the flag only if it is free or old, which makes the previous owner hung; the
owner check in `finally` keeps that true. A completion that has read the row and not written
it is no older than any open cycle that did not overtake it (`Unwritten`); with one process
none does, since its own starts wait. `DuplicatesExplainedHolds`: the cycles that may
still ship a story on a platform count as having shipped it, and a story that has no posted
row and is in no cycle's hands has a publication less than its disturbances allow (`ShipInv`).
`PickedOnceHolds`: without a disturbance a carousel that went out is in the hands of the one
cycle or in the row that retires its event (`DeckInv`).

**XTextQueue.** `TypeCorrect`; `ChainFitsHolds`, whatever the plans and however often a
row splits. The invariant needs to know that a run has posts left exactly while it is
sending or awaiting (`Shape`). `ThreadsIntactHolds`: a run posts what it listed, whatever the
rows say by then, so runs that may still send a post count as having published it
(`Counted`); what is pending and on no list has a post less (`Unsent`); and of a thread the
beginning was published at least as often as the rest, lists included (`Prefix`).
`RowCapHolds`: what is marked in the window and what a run may still mark stays within the
budget it counted at its start (`RowBudget`), since rows only leave the window meanwhile.
`DeliveredOnceHolds`: without faults a row in an email is no longer pending and on no run's list,
unless it crossed; and a row on X is not pending unless a run holds it.

**VideoPosts.** `UploadsKeptHolds`, `PostsInvHolds`, `PublishedStaysHolds`. A run that has
listed an article may upload it later, whatever the row says by then. So the runs that may
still upload an article are counted with its uploads (`Explained`), and an article that is
not published and in nobody's hands has one upload less (`Unpublished`): the next run, which
reads the row only, relies on that. `Single` says that without an overlap the one run under
way has nothing published on its list.
`PaceHoldsHolds` is the longest proof. A surface's cap is checked against what its rows
record, and a post can be lost to them: its call overran the deadline, its process died, or
another run marked the row. `LostAt` charges each lost post to a lapse of its own, and
already charges the runs that are still ahead of the surface and carry an article that
was touched there; `ClaimsAt` then bounds the posts of a rolling day by the cap and the
lapses. `RunsInv` bounds the runs, and the rows published since a run began, by the overlaps,
because a video published a second time is in a new window. For YouTube's own pace `PaceInv`
says that whoever has passed the gate still finds it open while nothing overlaps.
`PostRecordedHolds`: a post that no row records is in the hands of a run or of a call that
outlived its deadline (`Records`).
The proofs found three assumptions on the surfaces: one that Meta fetches by URL has a status
column of its own (`database.js:2496-2640`), two surfaces that record their own outcome share
no column (the Facebook Reel shares the feed video's, but only its deadline writes there), and
a run visits a surface once (`runChannel` is called once per surface,
`videoAutopost.js:2249-2336`).

**EventGraph.** `GraphInvHolds`, `NoStoryLostHolds`, `TwoVoicesHolds`, `NoDanglingRebornHolds`
and `DurableIdentityAlone`, all without a bound on articles, clusters, events, deaths or
prunes. `General` holds of every run, however many are under way: it deals with rows that
exist, and an article it holds that is gone was still linked or not yet swept when the run
began, or was taken away from it since. `Single` holds of a run that has been alone: its
events are open, until the merges are over its memory has every article readers see
of the events it has read (`CandOpen`, `Covers`; a merge that is being linked has the rest
of the articles still to go), none that is not linked unless links were taken away (`Exact`), and
two outlets in what it is about to write (`Voices`). `Alone` ties it to the history variable
`overlapped`. `DurableIdentityAlone` is the property that the run `tombstone_overwritten`
violates, proved where no refresh comes (`MaxManual = 0`): nothing but the refresh breaks it.
The attempt to prove `NoDanglingReborn` found it false on larger instances as it was stated:
links swept or detached while a run held them come back as well. The history `gone` now has
them (`Missed`), as the property says in words.

**IncidentLedger** (`LedgerProofs`). All of the run's properties: `TypeCorrect`,
`DefensibleUseHolds`, `AssessmentExplainedHolds`, `HumanDecidesHolds`, `StickyRightsHolds`,
`DarkOnlyWithdrawsHolds`, and the refinement `KeepsRightsHolds`. The inductive
invariant `IInv` adds: a status past a stage has that stage's audit row and a basis
exists only where there is or was a clearance (`TrailKept`); what the library holds was
approved and owes no credit, and plans show nothing else (`UsedKept`); a verification
is under way only while the engine is on, and its candidate is still being verified
unless another run or a crash decided it (`AwaitedKept`). `StepCases` then says what
one step can do to a candidate, and the action properties and the refinement follow
from it. This is where the proof says more than the run: it holds for any number of
overlapping verifications and for all four checks.

**PaidLedger** (`LedgerProofs`). `LedgerHolds`, `GoodRowKeptHolds`. A call that is awaited may
be paid whatever the row says by then, so awaited calls are counted with the paid ones (`Fits`);
and what was paid for a content is never more than its row counts and what left no row
(`Counted`). That a good row is kept needs that without an overlap the awaited call is the
only one and its content has no good result yet (`Alone`).

**Push.** `TypeCorrect`; `SentOnceHolds`, the refinement of `Outbox`. What a run has listed and
not yet sent counts as received (`Pending`, `Counted`), and a message that no run has in hand
and no row records was not received but for the slips (`Unsent`). `DisabledJustifiedHolds`: a
row counts no more failures than there were in a row, whoever counted them, and a verdict on
its way has its failures or was overtaken (`Reasons`). `AlertTriedHolds`: an alert that still
waits for a user is as many quarters of an hour old as there were faults, or has one chance
more while it is on the agenda or in hand (`Tries`). Its hypothesis `MaxFaults < Window` means
fewer faults than quarters in the lookback: with a fault in each quarter every alert ages out.

**Newsletter.** `MailInvHolds`; `MailedOnceHolds`, the refinement of `Outbox`. What a run has
listed counts as received (`Counted`), and what no run lists and no stamp records was not
received but for the slips (`Unsent`). The digest is an item of the day: its stamp and the
last receipt age together, and an old one has been renewed (`Aged`). That is what lets a run
trust the row alone. For `StopsWhenAsked` the runs that still list a subscriber are counted
against what it was owed when it left (`Owed`); a process that dies takes with it at least as
many of these runs as mails it had out.

Model-checked only: the liveness properties (`DispatchKept`, `NoDeadSingleton`, `PumpDrains`,
`NeverSilent`, `Settles`, `ClusterServed`, `ReaderServed`, `DeadDropped`), since
TLAPS does not reason about fairness and ENABLED in general, and the two properties that their
runs find violated. No module uses a RECURSIVE operator.

## 5. What the models leave out

* `JobDispatch`: priorities, telemetry, the in-process fallback without Redis.
* `LlmQueue`: the RPM limiter (a pause), embeddings (their slot counter has no await
  between check and increment), prompts, replies and prices.
* `SocialCycle`: captions, cards, the order of candidates, Bluesky's login cooldown.
* `XTextQueue`: the weekly prune of articles and their rows, the texts, a second digest
  in flight (the scheduler runs one).
* `VideoPosts`: between a Reel's cap check and its pending mark lies the import of a module
  that is already loaded (`videoAutopost.js:1561`), which `Begin` leaves out: the count is read
  once either way and the post is minutes later, so two runs past the check at once are in the
  model; and the mark is made without a look at the row, so nothing between them can change it.
  Then: the editorial gates, script and render (a candidate they refuse is one
  that is never claimed), the unlist route, shot plans resolved in advance.
  `updated_at` is kept only while a row is pending, since only then is it read.
* `IncidentLedger`: `embed_only` and acquisition (columns that gate nothing modelled),
  the grant request, commissions, the takedown record, the quarantine files, the
  digest and the reverse search (reports), the automatic mode (no caller).
* `PaidLedger`: the bundles' making, the prompts, what makes an answer valid; the LLM caller's
  own cap and breaker appear as an answer that is null.
* `EventGraph`: dormancy and closing by age, the coherence gate (off by default), titles,
  slugs, signatures, storylines, facets, markets, the events of the geographic importers.
* `Newsletter`: what is in a mail, referrals, the choice of articles, the LIMIT of 50 rows.
* `Push`: keys, quiet hours, the choice of a story among its candidates, thresholds of
  alerts, the administrator's two sends that keep no record.
* SQLite is taken at its word: one statement or transaction is atomic and durable.

### Not modelled

Long-form films and radio playout are the two state machines that remain and are planned.
Ingestion upserts by URL and keeps nothing across a fetch. Markets are real-valued. Scoring,
similarity, rendering, page building, the frontend and the scripts compute without state
whose order matters. `PROJECT.json` gives the reason for each component.

## 6. Plan

Built so far, in this order: the dispatch, because every cycle stands on it; the LLM
caller; the three publishing loops; the incident ledger with its abstract promise; the paid
ledgers; the event graph; `Outbox` with newsletter and push as its two implementations.

Next, to extend the model:

1. `LongformCycle`: the film cycle's stages and its publication guard.
2. `Playout`: the radio loop with its watchdog.
3. A composition of `JobDispatch` with `SocialCycle`: stalled jobs are what makes a
   second cycle, and the bound on overlaps should follow from the stall allowance.
4. The markets' resolver, without its prices.

Then, to prove more: that the overlaps which `SocialCycle` and `VideoPosts` count are bounded
by the stall allowance of `JobDispatch` (a theorem about the composition of item 3), and the
invariants of the new modules.
