# TLA+ models of GoodsHunter

GoodsHunter watches second-hand listings: users describe tasks, an API process schedules
them through Redis, crawler processes visit the pages with a headless browser and send
back results, and the API stores the items and the task's status in MySQL. This directory
holds TLA+ models of the parts of that system where several goroutines, processes or
stores have to agree, the TLC configurations that check them, and TLAPS proofs of the
results that matter most.

Paths below are relative to the repository (`src/` in `PROJECT.json`).

## The system

| Component | State | Operations | Talks to |
|---|---|---|---|
| Redis task queue, `internal/pkg/redisqueue/client.go` | lists `tasks`, `processing`, `results`; set `pending`; hash `started` | PushTask, PopTask (two commands), PushResult, PopResult, AckTask, RescueStuckTasks (many commands), RemoveFromPendingSet | everybody, through Redis |
| Crawler worker loop, `internal/crawler/crawl.go` 28-206, `cmd/crawler/main.go` | a semaphore of slots, the process itself | pop, fetch under a 90 s context, push the result, acknowledge; start-up rescue, shutdown | queue, browser |
| Janitors: `redisqueue` 287-383, `scheduler.go` 242-290, `browser.go` 189-212 | none of their own; snapshots of the hash and the list | rescue entries whose start time is overdue | queue, task rows |
| Scheduler, `internal/api/scheduler/scheduler.go` | dispatch round, result handlers | dispatch running tasks in batches, handle results, reset `queued` rows | MySQL, queue, worker pool |
| Request handlers, `internal/api/server.go`, `seed.go`, `middleware/guest_activity.go` | task rows; the `guest:active` key | create, start, stop, delete task; delete account; guest activity | MySQL, queue, worker pool |
| Worker pool, `internal/pkg/queue/queue.go` | a channel, `closed`, workers | three ways to enqueue, execute, two shutdowns | scheduler |
| Browser rotation and health check, `internal/crawler/browser.go`, `proxy.go`, `crawl.go` 303-533 | `s.mu`, the browser, `currentIsProxy`, `draining`, `activePages`, `drainComplete`, the proxy cache; two Redis keys | decide on the proxy, drain and rotate, track pages, probe and restart | Redis, Chrome |
| Result items and notifications, `scheduler.go` 316-387, 540-744, 851-906, `server.go` 378-415 | item rows, links, a price hash per task, e-mails | compare prices, upsert, link, announce, trim; remove a deleted task's items | MySQL, Redis, SMTP |
| Rate limiter, `internal/pkg/ratelimit/ratelimit.go`, `crawl.go` 464-500 | a token bucket in Redis, shared by all crawlers | take a token; wait for one for at most 30 s | Redis |
| Adaptive throttling and cookies, `internal/crawler/adaptive.go`, `crawl.go` 417-450 | per process a block count, `inCooldown` and a cookie cache; in Redis a block count and cookies | record blocks and successes, cool down; load, save and clear cookies | Redis, Chrome |
| Accounts, `internal/api/auth/auth.go`, `internal/pkg/dedup/dedup.go`, `server.go` 338-422, 424-517, 592-748 | user rows, tasks as far as their number and searches go, dedup keys | register, resend, verify, log in; create, update and delete a task; delete the account | MySQL, Redis, SMTP |
| Page work, `detect.go`, `parse.go`, `humanize.go`, `stealth.go`, `url_builder.go` | none | read one page | Chrome |

What is hard here:

* a client method of `redisqueue` is several Redis commands, and any other process may act
  between two of them; a crawler may die between two of them;
* a janitor decides on a snapshot of a hash and a later snapshot of a list, and executes
  its decision later still;
* a result handler writes a status that rests on a row it read seconds ago, ten handlers
  run at once, and users start, stop and delete meanwhile;
* task ids wait in the pool's channel, in a dispatch batch and in blocked requests while
  the rows they stand for change;
* a crawl waits for other crawls' pages while it holds the lock those crawls need, and the
  atomics that describe the drain are read and written outside that lock;
* an item is recorded in a row, in a link and in a Redis hash, by three commands of which
  each may fail, while other results and other tasks write the same row;
* the thresholds (2, 5 and 30 minutes) must leave room for the contexts (90 s, 5 s);
* the token bucket believes its callers' clocks, and everybody polls for the same tokens;
* block counts and cookies exist twice, in a process and in Redis, and `inCooldown` is
  written by sleepers, by successes and by blocks in any order;
* requests about one account check first and write later: full-row saves of users, a count
  of tasks before an insertion, a dedup key that outlives or precedes its task.

`PROJECT.json` lists each of these as a hazard at its line with the properties about it.

## Modules

| Module | Models | Uses |
|---|---|---|
| `RedisQueue` | the five keys; each command and each Lua script is one action | |
| `TaskPipeline` | scheduler push, crawler slots, crawler processes, janitors, time | extends `RedisQueue` |
| `AtLeastOnceQueue` | what the queue promises: a pending task stays live until it is settled | |
| `TaskLifecycle` | task rows, request handlers, dispatcher, pool, result handlers | the queue at the interface of `AtLeastOnceQueue` |
| `WorkerPool` | `internal/pkg/queue` by itself | |
| `BrowserRotation` | browser, lock, drain, proxy decision, health check | |
| `ResultItems` | what a result handler does to items, links, hashes and notices, and the deletion of a task's items | |
| `RateLimiter` | the bucket's script and the crawls that wait for a token | |
| `AdaptiveThrottle` | block counts, cooldown and cookies of all crawler processes | |
| `Accounts` | one e-mail address: verification, tasks, dedup keys, deletion | |
| `TaskPipelineProofs`, `TaskLifecycleProofs`, `WorkerPoolProofs`, `BrowserRotationProofs`, `ResultItemsProofs`, `RateLimiterProofs`, `AdaptiveThrottleProofs`, `AccountsProofs` | theorems | extend their component |
| `MC...` | symmetry sets, starting points and lists of items, one MC module per component | extend their component |

`TaskPipeline` and `TaskLifecycle` meet at `AtLeastOnceQueue`: the first implements it
(property `AtLeastOnce`, theorem `ImplementsAtLeastOnce`), the second uses the queue only
in ways it allows (`QueueInterface`, theorem `UsesAtLeastOnce`). What the crawlers do with
a task that is live is `Report`, `Acknowledge` and `CrawlAgain` in `TaskLifecycle`: one
result or a lost one, an ack that may leave a second copy behind, and a repetition after a
timeout. `Orphan` and `RescueOrphan` are the state that `TaskPipeline` calls `Orphaned`: a
copy in `processing` without a start time, which a janitor may or may not look at. The
abstract queue does not tell such a copy from one that is on its way, so both make up its
`live`.

### RedisQueue and TaskPipeline

Lists are sequences with the head first. An entry stands for the JSON text of a
FetchRequest: its task id and its CreatedAt. The code only ever compares `now - stamp`
with a threshold, so a stamp is represented by its age, which `Tick` increases up to
`MaxAge`. Two JSON texts are equal exactly if id and CreatedAt are, as in `LREM`. (Two
entries of one task pushed within one unit of time are equal in the model and hardly so in
the program. A rescue may then take the one for the other, which only changes the order of
equal entries.)

A slot goes through `stamp` (between BRPOPLPUSH and HSET), `fetch`, `push` and `ack`.
StartWorker's loop pops one task at a time, hence `Stamping`. A timeout of the task
context pushes an error result and skips the ack. A scan of RescueStuckTasks is `HGETALL`
(which ends the call on an empty hash), `LRANGE` and the choice of what is overdue, then
either one script per chosen entry or, if the list was empty, one `HDEL` per id of the
snapshot. A `Tick` is refused while a slot or a scan has used up the time its contexts
give it. `Crash` and `Exit` take the memory of the process with them; `Exit` does not wait
for the slots, as main.go does not.

Failures are injected by `Fail(kind)`, which a configuration allows and counts: a crash, a
shutdown, a lost reply to BRPOPLPUSH, a lost HSET, a result or an ack that fails, a scan
that is cut short, a task that times out. During a shutdown HSET may fail without being
counted, because it runs under the cancelled context.

### TaskLifecycle

A row is its status, its type and whether it is the demo user's; `unborn` and `deleted`
mean that there is none, and an UPDATE without a row changes nothing. The API starts with
any rows that an earlier run may have left, on an empty Redis; every later start runs
`SeedDemoData`, which creates the demo task anew if there is none. Status comes unchecked from the request, so a user
may create a task as `queued`. A request handler that starts a task writes the row, then
blocks on the pool (`starting`); one that deletes clears the pending set first, whoever owns the task, and deletes the row
later (`deleting`), if it is the user's. A dispatch round reads `BatchSize` ids after `lastID`, enqueues them
one by one and queries again; none left, or an error, ends the round, and the next tick starts
at the first id. A pool worker reads the row (`HandleTaskByID`), then pushes
(`HandleTask`). A result handler takes a result, loads the row, for a guest reads
`guest:active`, and finally writes a status, whatever the row says by then. What
`processItems` does in between touches no status; it is only visible as `HandlerPanic`.

Requests that change a task and failures are counted together in `events`, since each of
them disturbs what is under way and a bound on both at once leaves room for any mixture.
The reads and the key of the demo user's requests (`GuestRequest`) are not counted.

### WorkerPool

Each job is submitted once, by a goroutine of its own, in one of the ways of `Enqueue`,
`EnqueueBlocking` (with a context that is never done, or with the workers' own) and
`EnqueueWithTimeout`. The check of `q.closed` and the send are two steps, and so are the
store to `q.closed`, the closing of the channel and the wait for the workers.

### BrowserRotation

`writer` names the crawl that holds `s.mu` while it rotates; every other critical section
is one step. `view` says which browser process a goroutine captured: the current one, the
one a rotation has just replaced and will close half a second later, or one that is closed.
The work on a page is one step that ends with success or failure, and only with failure if
the captured browser is closed or hangs. `trackPageStart` is three steps (draining,
browser, counter), `trackPageEnd` three (counter, draining, channel). One replaced browser
at a time is waiting to be closed: the half second of browser.go:417-424 is taken to be
over before the next rotation has started its own browser (`SwapBrowser`'s second guard).

### ResultItems

It enlarges the part of a result handler that `TaskLifecycle` leaves out, between loading
the task and writing its status. A handler works through its list one item at a time:
HGET; for a known item the time of its link, which becomes the anchor for new items after
it; then either insert, HSET, link and notice, or, if the price differs, update, link, HSET
and, if it fell, a new time for the link, or only the id and the link. The clean-up counts,
looks for the cutoff and deletes. `link` holds the time of a task_items row and `row` the
price of an item's row, 0 standing for a missing one. An item's database id is represented
by whether the one in a handler's hands is still that of the present row; `DeleteRows`
voids it. `CanLink`, `DeleteRows` and `DeleteTask` assume foreign keys on `task_items`, which
refuse a link without its rows and the deletion of a row that is linked. `TaskItem`
(models.go:63-69) declares none; gorm may derive them from the `many2many` fields, which has
not been verified on a database, and no property is about them. A list of items has no item
twice; the crawler does not ensure that (crawl.go:976-994), and a second occurrence would
be known by the hash.

`announced`, `overlapped`, `unrecorded` and `foreign` are history: no action reads them.
They say under which circumstances the store's parts may disagree: an HSET that was lost
or came too late for a restart, two results of one task at the same time, and another
task's write of the same row. The code accepts all of them, and the properties name them
as their exceptions. Outside them `PriceAgrees` justifies the shortcut of line 634, which
does not look at the row when the price is that of the hash.

The demo task is left out, because every start of the API clears its hash and keeps its
links, and so are the notices of lower prices.

### RateLimiter

The script's arithmetic is on fractions of tokens. The model measures the bucket in units
of time instead: a token is worth `Cost`, a `Tick` refills one, and `Cap` is a full bucket,
so the script's `refill`, `min`, comparison and `PEXPIRE` are exact on whole numbers. Time
comes from the caller: `skew` says how far this caller's time is ahead of the slowest one
that may still reach Redis, whether its clock runs ahead or the other's command was late.
Only `now - ts` is ever used, which is `age + skew`. A crawl is idle, about to ask, or in
the `select` after a refusal; `waited` is the time since its one timer was made.

`meter` is history: it rises by `Cost` with every token that is handed out and falls by one
per unit of time down to 0. It is therefore the largest excess, over all periods that end
now, of what was handed out over what the rate allows in that period, and `RateBounded`
says of every period what a token bucket promises.

### AdaptiveThrottle

A slot is one of the crawls that the processes' semaphores let run. `RecordBlock` and
`RecordSuccess` are one step each, because `at.mu` is held over their only Redis command.
`ClearCookies` is two steps (memory, DEL), a load that goes to Redis two (GET, memory) and
`SaveCookies` three (page.Cookies, SET, memory). The cache's five minutes, the two hours of
`cookieMaxAge`, the TTLs and the sleep are choices, so `ExpireCookies` may also happen
earlier than in the program. `run` is history: the blocks that reached Redis since any
process had a success.

Cookies are jars. A page opens in its browser's default context (crawl.go:547), which all
pages of the process share and `ClearCookies` does not touch; it keeps what
`page.SetCookies` put there earlier and what the site sends. Which jar `page.Cookies`
returns is therefore left open, and a crawl may well succeed with cookies that were cleared.
Whether the site accepts a jar is not modelled.

`cleared` is history: the jars that a process has disposed of, from its memory and from the
key, up to the next crawl of any process that finds items with them. A jar on its way
through a load or a save at the moment of DEL is not disposed of. `ClearedStayAway` says
that these are the only ways back.

### Accounts

One e-mail address, at most one row at a time, and all requests about it. A request keeps
the id it has read; of the columns that `Save` writes back, the code is set anew and
`IsVerified` is what the guard before the read has established, so the id is enough.
gorm's `Save` is external and modelled by what it does: it re-inserts a row that is gone
and, when the address has a new row, updates that one through the unique index. A token is
the id it was issued for. `keys` are the dedup keys, which are the same for all users.
`lapsed` is history: the searches whose key was lost while a task or a creation needed it,
or that got a task without asking for a key.

## Runs

TLC checks each within five minutes on two workers.

| Run | Instance | Result |
|---|---|---|
| `Pipeline` | 1 task that may be deleted, 1 crawler with 1 slot, API janitor, 1 failure of any kind | `NoLostTask`, `RunningNotOverdue`, `AtLeastOnce`, `SettledUnlessOrphaned` hold |
| `PipelineStuck` | 1 task, 1 crawler, 1 crash | `CrashedTaskRecovered` fails, see below |
| `Lifecycle` | 2 running tasks in one batch and 1 event; the demo task or a task to be created alone and 1 event; a one-shot task alone and 2 events; 2 handlers, 1 place in the channel | `StopHolds`, `QueueInterface`, `DeletedDrains`, `OneShotEnds`, `GuestStopped`, `RunningIsCrawled` hold |
| `LifecycleStop` | 1 task, 2 requests, nothing fails | `StopSticks` fails, see below |
| `Pool` | 3 jobs, 2 workers, 1 place, cancellation | `JobInOnePlace`, `ShutdownDrains`, `SendersReturn`, `ShutdownEnds` hold |
| `RotationSafety` | 2 crawls, health check, automatic and forced switch, 1 failure | `PageCount`, `DrainHeld`, `ModeMatches`, `RotationSwitches` hold |
| `RotationLiveness` | 2 crawls, health check, cooldown that may expire | `CrawlReturns`, `FollowsCooldown` hold |
| `RotationPage` | 2 crawls, nothing fails | `PageKeepsBrowser` fails, see below |
| `ResultItems` | 2 tasks, 2 items, 2 prices, 2 handlers, 2 results, a deletion, limit 1, 1 failure | `LinksBounded`, `PriceAgrees`, `AnnouncedOnce`, `LinkedIsKnown` hold |
| `RateLimiter` | 2 crawls, 3 tokens of 2 units, times up to 3 units apart | `RateBounded`, `RefusedOnlyIfUsedUp`, `WaitEnds` hold |
| `Throttle` | 2 crawls in 1 process or in 2, a threshold of 2, 2 jars, 2 failures | `CooldownHasSleeper`, `SharedCountCoolsDown`, `ClearedStayAway` hold |
| `Accounts` | 2 requests, 2 searches, limit 1, 2 rows, 3 tasks, 3 codes, 1 failure | `TaskLimit`, `OneTaskPerSearch`, `VerificationSticks` hold |

Why the bounds are enough. The commands of the queue treat tasks apart, and the safety
properties of `Pipeline` are proved for any number of them; one task in two entries
already shows copies that overtake each other, and deletions let it be pushed anew beside
an old copy. The thresholds are the
smallest numbers with the order that the code's constants have, and `MaxAge` is one above
the largest. One failure at a time shows what each error path leaves behind. `Lifecycle` starts
where what it asks about can happen within its events (`Scenario`): with two tasks in one
batch and one place in the channel a round blocks in the middle while one of its tasks is
stopped or deleted or a failure hits it; a single task meets a request or a failure with its
dispatch, its crawl and two results under way, and the one-shot task two of them. In each of
these a copy may be orphaned: without the exception for it, all four liveness properties are
violated in this run. Two handlers are the fewest that can hold results of one task at the
same time. Two crawls are the fewest that
can race for `s.mu`; with one place and three jobs the pool's channel is full while
senders wait. With a limit of one and lists of up to
two items every result may exceed it, with equal and with different times; two results of
one task, which may have had its first run before, suffice to announce an item and to meet
it again after its link was trimmed or its row deleted.
In `RateLimiter` the bucket holds more than one token and a token takes more than one unit
of time, so that fractions matter, and the clocks differ by more than a token and less than
a bucket. A threshold of two is the smallest that one crawl does not reach by itself and two
processes reach together; two jars tell what was cleared from what came since, two crawls
let a load or a save meet a clearing, in one process or in another, and two failures lose a
DEL and restart a process. Two requests and a limit of one exceed the limit and race for a key; two
rows and three codes allow an account to be deleted and registered anew while an old
request still holds its row.
The theorems below do not depend on these bounds.

`MaxEntries` and `MaxResults` bound lists that are unbounded in Redis: a push waits
instead. `Report` is therefore strongly fair, since the bound could otherwise starve one
task.

### Fairness

* Pipeline: containers are restarted (`restart: always`), goroutines and tickers run, time
  passes. Neither the scheduler nor a user is obliged to do anything. Tick is strongly
  fair because it is refused only while something with a deadline is under way.
* Lifecycle: goroutines, tickers and crawlers run. A sender blocked on a Go channel is
  served in order, hence strong fairness for `StartTask` and the dispatcher. A copy that is on
  its way (`live`) is reported and acknowledged; that is `SettledUnlessOrphaned` of
  `TaskPipeline`, and here an assumption. It says nothing about an orphaned copy, which is
  no longer in `live`: no step that brings it back is fair, and the properties except the
  tasks that end up `Stranded`, pending because of it. No user, middleware or expiry is
  fair: the properties that need the demo user to stay away say so.
* Pool: senders as above; the owner shuts the pool down once its context is cancelled, as
  DispatchTasks does; a timeout of the shutdown is never obliged to come to the rescue.
* Rotation: pages end with their task's context, `sync.RWMutex` starves nobody, the health
  check's ticker and the cache's five seconds go on, and there is always another task. The
  expiry of the Redis keys is not fair.
* Rate limiter: time passes and a crawl that may go on does. When its deadline and the next
  poll are both ready, `select` chooses at random, hence strong fairness for the deadline.
  Redis need not fail and contexts need not end.

`AdaptiveThrottle`, `ResultItems` and `Accounts` have safety properties only and assume no
fairness.

## Theorems

All are proved for every value of the constants that satisfies the named assumptions
(`PipelineAssumption`, `ThresholdAssumption`, `LifecycleAssumption`, `PoolAssumption`,
`RotationAssumption`, `ItemsAssumption`, `ResultsAssumption`, `LimiterAssumption`,
`ThrottleAssumption`, `AccountsAssumption`), which TLC evaluates in the runs. Every invariant
and every action property that a passing run checks is stated by one of them.

* `TaskPipelineProofs`
  * `TypeCorrect`, `ImplementsAtLeastOnce`, `PendingNeverLost`. Each Redis command has a
    lemma on what it does to the sets of ids in the two lists (`PushEffect`, `PopEffect`,
    `AckEffect`, `RescueEffect`, `AgeEffect`, `OtherEffect`), resting on lemmas about
    `RemoveFirst` and the like. One lemma per kind of actor then shows that its steps keep
    the types and are a push, a settlement or a stutter of `AtLeastOnceQueue`.
    `NoLostTask` follows from the abstract queue.
  * `RunningTaskNotOverdue`: whatever fails, the start time that Redis holds for a task on
    which a worker is busy whose own HSET succeeded is not above the smallest threshold.
    The invariant alone is not
    inductive; `StampInv` adds that no slot is above `SlotDeadline` and that the start time
    in Redis is never older than the slot's own age. This is where
    `SlotDeadline < StartupThreshold` is needed: 90 s and two Redis timeouts against the
    two minutes of the start-up call.
* `TaskLifecycleProofs`
  * `TypeCorrect`, `UsesAtLeastOnce`, `StoppedStaysStopped` and `DeletedForGood`.
    `DeletedForGood` (`DeletedStays`) is the first half of `DeletedDrains`: no write of a
    status, no creation and no seeding makes a row of a deleted id. `StoppedStaysStopped`
    needs no strengthening beyond the types: `Quiet(t)` names everything that could set a task
    running again, and the proof shows for each action that it cannot begin with a quiet
    task, the point being that an id in the pool's channel, in a batch or in a blocked
    request is harmless because `handleTaskByID` reads the status once more.
* `WorkerPoolProofs`
  * `TypeCorrect` and `ShutdownExecutesAll`. `DrainInv` adds that every accepted job is in
    the channel, with a worker or executed, and that a worker which has left without being
    cancelled left a closed, empty channel behind.
  * `EachJobInOnePlace`. `Placed` says what the sums of `JobInOnePlace` come to: the entries
    of the channel differ, no two workers run one job, and channel, workers and outcomes have
    none in common and none that was not accepted. With `DrainInv`, by which an accepted job
    is somewhere, each of the counted sets has one element or none (`OneOrNone`).
* `BrowserRotationProofs`
  * `TypeCorrect`, `PagesCounted`, `DrainIsHeld`, `BrowserMatchesMode`, `MutualExclusion`,
    `ViewsAreOfProcesses` and `EveryRotationSwitches` follow from one inductive invariant,
    `RotationInv`. Its core is `LockHeld`: the crawl in a rotating phase is the writer that
    holds `s.mu`, it wants another mode than the current one, and the drain flag and the
    drain channel are there exactly as long. That is what the test of the mode under the
    lock establishes, and without it `DrainHeld` and `RotationSwitches` are not inductive.
    `activePages` has its bound in `TypeOK` only through `PageCount`, so the two are proved
    together. `ViewsExist` says which process a page or a probe may be on.
* `ResultItemsProofs`
  * `TypeCorrect` and `LinkedAreKnown`. `KnownInv` adds that the item in the hands of a
    handler is in the hash from the moment HGET found it there or HSET put it there
    (`HeldKnown`). Then nothing is ever removed from a hash (`RecordedGrows`), and only a
    handler in such a phase makes a link (`NewLinks`).
  * `AnnouncedAtMostOnce` and `PricesAgree` rest on `Alone`: a task whose results have not
    overlapped has one handler at most, which therefore finds hash and row as it left them.
    `AnnounceInv` adds that what was announced is in the hash, and that a handler on its way
    to an announcement holds an item that was not announced. `PriceInv` tells the moments
    between the write of the row and that of the hash, when the row has the handler's price
    (`WrittenAgrees`), from all others, when it has the price in the hash (`RestAgrees`);
    a handler that takes an item for new still finds it unknown (`NewUnknown`), which is
    why a restart between the two writes of a new item does no harm and the one of a known
    item does.
  * `LinksAreBounded`. `TrimInv`: a task with too many links has a handler that is still in
    the loop, is about to count, or is about to delete all but `Limit` of the links there are
    now. It is preserved because links are made and dated only by the loop of the task's own
    handlers (`LinksShrink`) and because the cutoff that `cleanupOldItems` asks for exists,
    also among equal times (`CutoffExists`, from the least element of a set of numbers,
    `LeastNat`).
* `RateLimiterProofs`
  * `TypeCorrect`, `LimitHolds` and `RefusalsJustified`. `BucketInv` says that what is
    outstanding by the meter and what the bucket will have refilled add up to a full bucket:
    to no more, which gives the limit, and to less by at most one clock difference, which
    justifies every refusal. Its last part says that a key is not older than twice the
    bucket's time less what is outstanding; that is why its expiry, after which the bucket
    starts full, gives nothing away, and it needs `MaxSkew <= Cap`.
* `AdaptiveThrottleProofs`
  * `TypeCorrect`, `CooldownEnds` and `CoolDownTogether`. The first invariant is inductive:
    whoever sets the flag goes to sleep in the same step, and each way of waking clears it.
    The other needs `SharedNotBehind`: the count in Redis is at least the number of blocks
    recorded since the last success, since only successes and the key's expiry reset it.
  * `ClearedCookiesStayAway`. The invariant alone is not inductive, since what a load or a
    save carries could be a cleared jar; `UnderWayNotCleared` adds that it is not: what is
    still to go to Redis is cleared by no process, and what is still to go to a process's
    memory is not cleared by that process.
* `AccountsProofs`
  * `TypeCorrect`, `LimitExceededByRequests`, `SearchesNotDoubled`, `VerifiedStaysVerified`.
    `LimitInv` counts the tasks of a user together with the requests that have passed the
    check. `KeyInv` says of a search whose key was never lost that it has one holder at
    most, a task or a request about to insert one, and that the holder's key is there.

Only model-checked: the liveness properties `SettledUnlessOrphaned`, `DeletedDrains`,
`OneShotEnds`, `GuestStopped`, `RunningIsCrawled`, `SendersReturn`, `ShutdownEnds`,
`CrawlReturns`, `FollowsCooldown` and `WaitEnds`, since fairness is out of the prover's
reach; of `DeletedDrains` the safety part is proved. The inductive invariants
`RotationInv`, `AnnounceInv`, `PriceInv` and `TrimInv` were model-checked, on the instances
of the runs `RotationSafety` and `ResultItems`, before they were proved.
`RateLimiter`'s `TypeOK` is proved and not run.

## Where code and documents disagree

Each of these is a run that TLC refutes.

* **A crashed task may never be recovered** (`PipelineStuck`). ADR 0001 says that the
  janitor recovers crashed tasks. `RescueStuckTasks` returns at once when the started hash
  is empty (client.go:316). A crawler that dies between BRPOPLPUSH and HSET leaves its task
  in `processing` and pending. Unless some other task has a start time when a scan begins,
  nobody looks at it, and the scheduler skips it because it is pending. `Orphaned` in
  `SettledUnlessOrphaned` is exactly this state. What it means for users is the exception
  `Stranded` of the life cycle: a running task that is not crawled any more, a one-shot task
  that does not end, a demo task that is not stopped.
* **A stop may be undone** (`LifecycleStop`). `handleResult` sets a monitor task running
  whatever its row says by then (scheduler.go:383), and so does the result of a crawl that
  was under way when its task was stopped, although the row it loads says `stopped`
  already. `StopHolds` says what does hold.
* **A page may lose its browser** (`RotationPage`). `trackPageStart` captures the browser
  before it counts the page (browser.go:356-364), so a rotation in between finds no page.

The models show further consequences of the same kind, without a run of their own: an
entry rescued while its worker finishes stays in the queue and may be pushed once more
beside it; a task popped between a janitor's two reads is judged by CreatedAt; a shutdown
of a crawler does not wait for its slots; workers whose context is cancelled leave jobs in
the channel and `ShutdownWithTimeout` reports success; a `trackPageEnd` that got 0 before a
drain began can end that drain early; a health check that probed a browser which a rotation
has replaced restarts the new one; the clean-up removes all links as old as the first one
over the limit, so that a first result above the limit leaves none; a restart between the
write of a row and HSET leaves a price that later results with the old price do not
correct; an item whose link was trimmed from one task and whose row went with another is
skipped until its price changes.

In the worker pool, "thread safe, no races" (`internal/pkg/queue/README.md:13`) does not
hold of `Shutdown`: the check of `q.closed` and the send are not atomic (queue.go:208), so
a sender may send on the closed channel and panic, as does one that was blocked when the
channel was closed (`SendPanics`).

In the throttler, "one success resets the counter" (ADR 0005:28) holds of the process that
succeeds only if it has counted a block itself (adaptive.go:310); otherwise the shared
count stays and a single block may send the next crawl to sleep. Only the crawl that
records the block sleeps, the other slots of its process go on; a page that ends as
`challenge_page` or without items is not recorded at all. The two hours of `cookieMaxAge`
count from the process's own first save or load, not from the cookies' origin, and a save
or load under way puts cookies back that were just cleared. Neither the two hours ("forced
refresh", adaptive.go:25) nor the five per cent (adaptive.go:26) make a page fetch new
cookies by themselves: the browser's default context keeps the ones it has, which
`ClearCookies` does not reach, and the next success saves them again.

A request to delete a task takes the task out of the pending set before it looks at who owns
it (server.go:371), so a registered user's request for another's task, or the demo task,
makes the scheduler push that task a second time.

In the rate limiter, rate and burst are truncated to integers before they reach it
(crawl.go:473), so a rate below one token a second switches it off (ratelimit.go:76).

In accounts: "Max tasks per user" (`docs/ops/configuration.md:20`) is exceeded by requests
that run at once, by one task for each request beyond the first (`TaskLimit`). A key stays
behind for the whole window when the insertion fails, when the type is refused
after SETNX, or when the account is deleted, and blocks that search for
every user, since keys are not per user; an update of a task's search neither takes the
new key nor frees the old one, and a later deletion frees the key of whoever has the new
search; a save by an older request undoes a verification or re-creates a deleted row; a
registration whose mail fails deletes an account that was verified meanwhile; a token
outlives its account, although the foreign key then refuses its tasks.

## Not modelled

* Text and DOM processing of a page, URL building, stealth scripts: one goroutine, no
  shared state, an outcome that is a success or an error.
* Configuration, logging, metrics, e-mail transport: set once, or pure output.
* Read-only handlers; generated protobuf code.
* `PushTaskForce`, `DeduplicateQueue`, `GetConsecutiveBlocks`, `ShouldReduceConcurrency`:
  no service calls them.
* `GuestLogin`, whose only change of state is to insert the demo user if the seeding has
  not; password hashes; the expiry of tokens.
* Notices of lower prices, and the item statements of `handleDeleteAccount`.

## Plan

Done: queue and pipeline, task life cycle, worker pool, browser rotation, result items,
rate limiter, adaptive throttling and cookies, accounts with task creation and dedup.
Left:

1. `ResultItems`: notices of lower prices, and handleDeleteAccount's transaction.
2. Proofs: that `Quiet` of `TaskLifecycle` and the crawlers' side of `TaskPipeline` compose,
   and safety lemmas towards the liveness properties (what each wait is waiting for exists).
