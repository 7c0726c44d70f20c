---------------------------- MODULE TaskLifecycle ----------------------------
(***************************************************************************)
(* The life of a task row in MySQL: the API's request handlers write its   *)
(* status, the dispatcher reads it to feed the worker pool, the pool pushes*)
(* running tasks into the Redis queue, crawlers report results, and up to  *)
(* ten result handlers at a time write the status back.  Each database or  *)
(* Redis access is a step of its own; what a handler has read before such  *)
(* a step may be stale after it.                                           *)
(*                                                                         *)
(* The queue is taken at the interface of AtLeastOnceQueue, which          *)
(* TaskPipeline is proved to implement: a push of a task that is not       *)
(* pending puts a copy of it on its way, a copy on its way is reported at  *)
(* least once, settling the task ends that.  A failure may orphan a copy:  *)
(* it lies in the processing list and nobody is obliged to look at it.     *)
(***************************************************************************)
EXTENDS Naturals, Sequences, FiniteSets

CONSTANTS Task,        \* task ids, in the order of creation
          Handler,     \* the tokens of the result listener
          Worker,      \* the goroutines of the worker pool
          Managed,     \* bound: the tasks that users start, stop and delete
          None,        \* no task
          PoolCap,     \* the capacity of the pool's channel
          BatchSize,   \* ids per query of enqueueRunningTasks
          MaxResults,  \* bound: results waiting in Redis
          Faults,      \* the failures the environment may inject
          MaxEvents    \* bound: requests to change a task and failures, together

\* A MySQL access, a Redis command of the API, a handler's panic, a lost result, a copy
\* left in the queue, a crawl that times out, a copy that is orphaned, a restart of the API.
Failure == {"db", "redis", "panic", "result", "copy", "timeout", "orphan", "restart"}

ASSUME LifecycleAssumption ==
    /\ Task \subseteq Nat \ {0}
    /\ Managed \subseteq Task /\ None \notin Task
    /\ PoolCap \in Nat \ {0} /\ BatchSize \in Nat \ {0}
    /\ MaxResults \in Nat \ {0} /\ MaxEvents \in Nat \ {0}
    /\ Faults \subseteq Failure

VARIABLES row,       \* the task rows; status unborn or deleted: there is no row
          active,    \* the demo user's guest:active key is in Redis
          starting,  \* tasks whose request handler is about to enqueue them
          deleting,  \* tasks whose request handler is about to delete the row
          dispatch,  \* the progress of enqueueRunningTasks
          jobs,      \* the pool's channel, task ids
          worker,    \* the task each pool worker has read as running
          pending,   \* the pending set in Redis
          live,      \* tasks with a copy in the queue that is on its way
          orphaned,  \* tasks with a copy in processing that nobody works on and that has
                     \* no start time
          reported,  \* live tasks whose result has been pushed, to be acked
          results,   \* the result list in Redis
          handler,   \* what each result handler is doing
          events     \* requests to change a task and failures, so far

apiVars   == <<starting, deleting, dispatch, jobs, worker, handler>>
queueVars == <<pending, live, orphaned, reported, results>>
vars      == <<row, active, apiVars, queueVars, events>>

Status == {"unborn", "running", "stopped", "queued", "completed", "deleted"}
Type   == {"monitor", "oneshot"}
Row    == [status : Status, type : Type, guest : BOOLEAN]

IdleHandler == [phase |-> "idle", task |-> None, type |-> "monitor"]

HandlerState == {IdleHandler} \cup
    [phase : {"guest", "stop", "final"}, task : Task, type : Type]

\* Before the query of a round's first batch: DispatchTasks waits for its ticker.
IdleDispatch == [phase |-> "query", last |-> 0, batch |-> {}]

TypeOK ==
    /\ row \in [Task -> Row]
    /\ active \in BOOLEAN
    /\ starting \in SUBSET Task
    /\ deleting \in SUBSET Task
    /\ dispatch \in [phase : {"query", "enqueue"}, last : Nat, batch : SUBSET Task]
    /\ jobs \in Seq(Task)
    /\ worker \in [Worker -> Task \cup {None}]
    /\ pending \in SUBSET Task
    /\ live \in SUBSET Task
    /\ orphaned \in SUBSET Task
    /\ reported \in SUBSET Task
    /\ results \in Seq(Task)
    /\ handler \in [Handler -> HandlerState]
    /\ events \in 0..MaxEvents

\* The demo user's task.
DemoRow == [status |-> "running", type |-> "monitor", guest |-> TRUE]

\* No row yet.
Unborn == [status |-> "unborn", type |-> "monitor", guest |-> FALSE]

\* The API starts with the rows that an earlier run has left, the demo task among them
\* if SeedDemoData has created it, on an
\* empty Redis.
Init ==
    /\ row \in [Task -> Row]
    /\ \A t \in Task : row[t].status = "unborn" =>
          row[t] = Unborn /\ \A u \in Task : u > t => row[u] = Unborn
    /\ \A t \in Task : row[t].guest =>
          /\ row[t].type = "monitor" /\ row[t].status # "deleted"
          /\ \A u \in Task : row[u].guest => u = t
    /\ events \in 0..MaxEvents
    /\ active = FALSE
    /\ starting = {}
    /\ deleting = {}
    /\ dispatch = IdleDispatch
    /\ jobs = << >>
    /\ worker = [w \in Worker |-> None]
    /\ pending = {} /\ live = {} /\ orphaned = {} /\ reported = {}
    /\ results = << >>
    /\ handler = [h \in Handler |-> IdleHandler]

CountEvent == events < MaxEvents /\ events' = events + 1

\* The environment injects one failure of kind f.
Fail(f) == f \in Faults /\ CountEvent

Exists(t) == row[t].status \notin {"unborn", "deleted"}

\* Mutant: Save, which inserts a row that is missing.
SaveStatus(t, s) == row' = [row EXCEPT ![t].status = s]

\* UPDATE ... SET status = s WHERE id = t, which changes nothing without a row.
UpdateStatus(t, s) ==
    row' = [row EXCEPT ![t].status = IF Exists(t) THEN s ELSE @]

-----------------------------------------------------------------------------
(* Request handlers *)

\* Ids are handed out in ascending order.
NextId(t) ==
    /\ row[t].status = "unborn"
    /\ \A u \in Task : u < t => row[u].status # "unborn"

\* handleCreateTask for a registered user: INSERT.  The status comes from the
\* request, unchecked.
CreateTask(t, status, type) ==
    /\ NextId(t)
    /\ CountEvent
    /\ row' = [row EXCEPT ![t] = [status |-> status, type |-> type, guest |-> FALSE]]
    /\ starting' = IF status = "running" THEN starting \cup {t} ELSE starting
    /\ UNCHANGED <<active, deleting, dispatch, jobs, worker, handler, queueVars>>

\* handleUpdateTaskStatus.  A guest's request has first set guest:active, which may
\* fail unnoticed.
UpdateTaskStatus(t, status) ==
    /\ t \in Managed /\ Exists(t)
    /\ CountEvent
    /\ UpdateStatus(t, status)
    /\ \/ active' = (active \/ row[t].guest)
       \/ row[t].guest /\ "redis" \in Faults /\ UNCHANGED active
    /\ starting' = IF status = "running" THEN starting \cup {t} ELSE starting
    /\ UNCHANGED <<deleting, dispatch, jobs, worker, handler, queueVars>>

\* StartTask, EnqueueBlocking: the request handler waits for room in the pool.
\* Its second read of the row may fail or find that the task is no longer running.
StartTask(t) ==
    /\ t \in starting
    /\ starting' = starting \ {t}
    /\ \/ Len(jobs) < PoolCap /\ jobs' = Append(jobs, t) /\ UNCHANGED events
       \/ row[t].status # "running" /\ UNCHANGED <<jobs, events>>
       \/ Fail("db") /\ UNCHANGED jobs
    /\ UNCHANGED <<row, active, deleting, dispatch, worker, handler, queueVars>>

\* handleDeleteTask, handleDeleteAccount: the pending set first, whatever the row says
\* and whoever owns it, so a second request for a deleted task does it again, and any
\* registered user's request takes the mark off another's task.
ClearPending(t) ==
    /\ t \in Managed /\ row[t].status # "unborn"
    /\ t \notin deleting
    /\ CountEvent
    /\ deleting' = deleting \cup {t}
    /\ \/ pending' = pending \ {t}
       \/ "redis" \in Faults /\ UNCHANGED pending
    /\ UNCHANGED <<row, active, starting, dispatch, jobs, worker, handler,
                   live, orphaned, reported, results>>

\* The row last, if it is the user's, which the demo task is not, and if the database
\* lets it: the transaction of handleDeleteAccount may roll back.
DeleteTask(t) ==
    /\ t \in deleting
    /\ deleting' = deleting \ {t}
    /\ \/ ~row[t].guest /\ UpdateStatus(t, "deleted")
       \/ UNCHANGED row
    /\ UNCHANGED <<active, starting, dispatch, jobs, worker, handler, queueVars, events>>

\* GuestActivityMiddleware on any request, and the expiry of its key.
GuestRequest ==
    /\ ~active
    /\ \E t \in Task : row[t].guest
    /\ active' = TRUE
    /\ UNCHANGED <<row, apiVars, queueVars, events>>

GuestExpires ==
    /\ active
    /\ active' = FALSE
    /\ UNCHANGED <<row, apiVars, queueVars, events>>

-----------------------------------------------------------------------------
(* The dispatcher and the worker pool *)

RunningAfter(id) == {t \in Task : t > id /\ row[t].status = "running"}

NextBatch ==
    LET found == RunningAfter(dispatch.last)
    IN {t \in found : Cardinality({u \in found : u <= t}) <= BatchSize}

\* Mutant: lastID survives the round.
QueryBatchAfterLast ==
    /\ dispatch.phase = "query"
    /\ \/ /\ NextBatch # {}
          /\ dispatch' = [dispatch EXCEPT !.phase = "enqueue", !.batch = NextBatch]
          /\ UNCHANGED events
       \/ ((NextBatch = {} /\ UNCHANGED events) \/ Fail("db")) /\ UNCHANGED dispatch
    /\ UNCHANGED <<row, active, starting, deleting, jobs, worker, handler, queueVars>>

\* The next BatchSize running ids in ascending order, the first ones when the ticker
\* fires; none, or an error, ends the round.
QueryBatch ==
    /\ dispatch.phase = "query"
    /\ \/ /\ NextBatch # {}
          /\ dispatch' = [dispatch EXCEPT !.phase = "enqueue", !.batch = NextBatch]
          /\ UNCHANGED events
       \/ /\ (NextBatch = {} /\ UNCHANGED events) \/ Fail("db")
          /\ dispatch' = IdleDispatch
    /\ UNCHANGED <<row, active, starting, deleting, jobs, worker, handler, queueVars>>

\* EnqueueBlocking of the smallest id left in the batch.
EnqueueTask ==
    /\ dispatch.phase = "enqueue"
    /\ Len(jobs) < PoolCap
    /\ \E t \in dispatch.batch :
          /\ \A u \in dispatch.batch : t <= u
          /\ jobs' = Append(jobs, t)
          /\ dispatch' = [phase |-> IF dispatch.batch = {t} THEN "query" ELSE "enqueue",
                          last |-> t, batch |-> dispatch.batch \ {t}]
    /\ UNCHANGED <<row, active, starting, deleting, worker, handler, queueVars, events>>

\* Mutant: the worker trusts the id it was given.
HandleAnyTask(w) ==
    /\ worker[w] = None
    /\ jobs # << >>
    /\ jobs' = Tail(jobs)
    /\ worker' = [worker EXCEPT ![w] = Head(jobs)]
    /\ UNCHANGED <<row, active, starting, deleting, dispatch, handler, queueVars, events>>

\* A worker takes the oldest job; handleTaskByID reads the row if it is running.  An
\* error counts as no row.
HandleTaskByID(w) ==
    /\ worker[w] = None
    /\ jobs # << >>
    /\ jobs' = Tail(jobs)
    /\ \/ /\ worker' = [worker EXCEPT ![w] = IF row[Head(jobs)].status = "running"
                                             THEN Head(jobs) ELSE None]
          /\ UNCHANGED events
       \/ Fail("db") /\ UNCHANGED worker
    /\ UNCHANGED <<row, active, starting, deleting, dispatch, handler, queueVars>>

\* handleTask: PushTask, which skips a pending task.
HandleTask(w) ==
    /\ worker[w] # None
    /\ worker' = [worker EXCEPT ![w] = None]
    /\ \/ /\ pending' = pending \cup {worker[w]}
          /\ live' = IF worker[w] \in pending THEN live ELSE live \cup {worker[w]}
          /\ UNCHANGED events
       \/ Fail("redis") /\ UNCHANGED <<pending, live>>
    /\ UNCHANGED <<row, active, starting, deleting, dispatch, jobs, handler,
                   orphaned, reported, results>>

\* runRescue, second part: a row left in "queued" becomes running.
ResetQueued(t) ==
    /\ row[t].status = "queued"
    /\ UpdateStatus(t, "running")
    /\ UNCHANGED <<active, apiVars, queueVars, events>>

-----------------------------------------------------------------------------
(* The queue, as TaskPipeline implements it *)

\* A crawler pushes the result of a copy that is on its way, or loses it.
Report(t) ==
    /\ t \in live \ reported
    /\ reported' = reported \cup {t}
    /\ \/ /\ Len(results) < MaxResults
          /\ results' = Append(results, t)
          /\ UNCHANGED events
       \/ Fail("result") /\ UNCHANGED results
    /\ UNCHANGED <<row, active, apiVars, pending, live, orphaned>>

\* Mutant: the ack takes the entry away and leaves the task pending.
AcknowledgeEntry(t) ==
    /\ t \in live \cap reported
    /\ reported' = reported \ {t}
    /\ live' = live \ {t}
    /\ UNCHANGED <<row, active, apiVars, pending, orphaned, results, events>>

\* The ack settles the task.  After a stale rescue another copy stays in the queue.
Acknowledge(t) ==
    /\ t \in live \cap reported
    /\ reported' = reported \ {t}
    /\ pending' = pending \ {t}
    /\ \/ live' = live \ {t} /\ UNCHANGED events
       \/ Fail("copy") /\ UNCHANGED live
    /\ UNCHANGED <<row, active, apiVars, orphaned, results>>

\* A task that timed out, or whose crawler died or could not acknowledge it, is crawled
\* again after its rescue.
CrawlAgain(t) ==
    /\ t \in reported
    /\ Fail("timeout")
    /\ reported' = reported \ {t}
    /\ UNCHANGED <<row, active, apiVars, pending, live, orphaned, results>>

\* A crawler dies, or Redis's reply is lost, between BRPOPLPUSH and HSET: the copy stays
\* in processing without a start time.  Another copy may still be on its way.
Orphan(t) ==
    /\ t \in live
    /\ Fail("orphan")
    /\ orphaned' = orphaned \cup {t}
    /\ live' \in {live, live \ {t}}
    /\ reported' = reported \ {t}
    /\ UNCHANGED <<row, active, apiVars, pending, results>>

\* A janitor finds some other start time in the hash, so it reads the processing list
\* and goes by the copy's CreatedAt.  Nothing obliges that to happen.
RescueOrphan(t) ==
    /\ t \in orphaned
    /\ orphaned' = orphaned \ {t}
    /\ live' = live \cup {t}
    /\ UNCHANGED <<row, active, apiVars, pending, reported, results, events>>

-----------------------------------------------------------------------------
(* handleResult *)

Goto(h, phase) == handler' = [handler EXCEPT ![h].phase = phase]

\* Mutant: the handler's state outlives it.
FinishKeepsTask(h) == handler' = [handler EXCEPT ![h].phase = "idle"]

Finish(h) == handler' = [handler EXCEPT ![h] = IdleHandler]

\* First(&task): without a row, or with an error, the handler gives up; otherwise it
\* works on with this copy of the row.  If the user cannot be read, the role is "".
LoadTask(h, t) ==
    \/ /\ (~Exists(t) /\ UNCHANGED events) \/ Fail("db")
       /\ UNCHANGED handler
    \/ /\ Exists(t)
       /\ \E phase \in {"guest", "final"} :
             /\ handler' = [handler EXCEPT ![h] =
                             [phase |-> phase, task |-> t, type |-> row[t].type]]
             /\ \/ (phase = "guest") = row[t].guest /\ UNCHANGED events
                \/ phase = "final" /\ row[t].guest /\ Fail("db")

\* StartResultListener, with a token, takes the oldest result and handleResult loads its
\* task.  Until it has, it holds nothing that another step could make stale.
TakeResult(h) ==
    /\ handler[h].phase = "idle"
    /\ results # << >>
    /\ results' = Tail(results)
    /\ LoadTask(h, Head(results))
    /\ UNCHANGED <<row, active, starting, deleting, dispatch, jobs, worker,
                   pending, live, orphaned, reported>>

\* GET guest:active; an error other than redis.Nil lets the handler go on.
CheckGuest(h) ==
    /\ handler[h].phase = "guest"
    /\ \/ Goto(h, IF active THEN "final" ELSE "stop") /\ UNCHANGED events
       \/ ~active /\ Goto(h, "final") /\ Fail("redis")
    /\ UNCHANGED <<row, active, starting, deleting, dispatch, jobs, worker, queueVars>>

\* Mutant: the return is missing.
StopGuestGoesOn(h) ==
    /\ handler[h].phase = "stop"
    /\ \/ UpdateStatus(handler[h].task, "stopped") /\ UNCHANGED events
       \/ Fail("db") /\ UNCHANGED row
    /\ Goto(h, "final")
    /\ UNCHANGED <<active, starting, deleting, dispatch, jobs, worker, queueVars>>

\* The demo user is away: status stopped, and no more of this result.
StopGuest(h) ==
    /\ handler[h].phase = "stop"
    /\ \/ UpdateStatus(handler[h].task, "stopped") /\ UNCHANGED events
       \/ Fail("db") /\ UNCHANGED row
    /\ Finish(h)
    /\ UNCHANGED <<active, starting, deleting, dispatch, jobs, worker, queueVars>>

\* processItems panics; the listener's recover ends the handler.
HandlerPanic(h) ==
    /\ handler[h].phase = "final"
    /\ Fail("panic")
    /\ Finish(h)
    /\ UNCHANGED <<row, active, starting, deleting, dispatch, jobs, worker, queueVars>>

\* Mutant: the type of the task is not looked at.
SetRunning(h) ==
    /\ handler[h].phase = "final"
    /\ \/ UpdateStatus(handler[h].task, "running") /\ UNCHANGED events
       \/ Fail("db") /\ UNCHANGED row
    /\ Finish(h)
    /\ UNCHANGED <<active, starting, deleting, dispatch, jobs, worker, queueVars>>

\* After processItems and the run's time stamps, which leave the status alone: the
\* final status, whatever the row says by now.
SetFinalStatus(h) ==
    /\ handler[h].phase = "final"
    /\ \/ /\ UpdateStatus(handler[h].task,
                          IF handler[h].type = "oneshot" THEN "completed" ELSE "running")
          /\ UNCHANGED events
       \/ Fail("db") /\ UNCHANGED row
    /\ Finish(h)
    /\ UNCHANGED <<active, starting, deleting, dispatch, jobs, worker, queueVars>>

-----------------------------------------------------------------------------
\* SeedDemoData creates the demo task if there is none; one that it finds keeps its
\* status.  Any of its statements may fail, which is only logged.
SeedDemoData ==
    \/ UNCHANGED row
    \/ /\ \A t \in Task : ~row[t].guest
       /\ \E t \in Task : NextId(t) /\ row' = [row EXCEPT ![t] = DemoRow]

\* The API process dies and comes back: what it held in memory is gone.
RestartApi ==
    /\ Fail("restart")
    /\ SeedDemoData
    /\ starting' = {} /\ deleting' = {}
    /\ dispatch' = IdleDispatch
    /\ jobs' = << >>
    /\ worker' = [w \in Worker |-> None]
    /\ handler' = [h \in Handler |-> IdleHandler]
    /\ UNCHANGED <<active, queueVars>>

UserStep(t) ==
    \/ \E type \in Type, status \in {"running", "stopped", "queued"} :
          CreateTask(t, status, type)
    \/ \E status \in {"running", "stopped"} : UpdateTaskStatus(t, status)
    \/ ClearPending(t)

DispatchStep == QueryBatch \/ EnqueueTask

QueueStep(t) == Report(t) \/ Acknowledge(t)

HandlerStep(h) ==
    \/ TakeResult(h) \/ CheckGuest(h) \/ StopGuest(h)
    \/ SetFinalStatus(h)

Next ==
    \/ \E t \in Task : \/ UserStep(t) \/ StartTask(t) \/ DeleteTask(t)
                       \/ ResetQueued(t) \/ QueueStep(t) \/ CrawlAgain(t)
                       \/ Orphan(t) \/ RescueOrphan(t)
    \/ GuestRequest \/ GuestExpires
    \/ DispatchStep
    \/ \E w \in Worker : HandleTaskByID(w) \/ HandleTask(w)
    \/ \E h \in Handler : HandlerStep(h) \/ HandlerPanic(h)
    \/ RestartApi

Spec == Init /\ [][Next]_vars

\* Goroutines run, crawlers crawl and tickers fire.  A sender blocked on the pool's
\* channel waits in first-in-first-out order, hence the strong fairness; a bound on
\* the result list is not one of Redis, hence it for Report.  What is orphaned is not
\* crawled: neither RescueOrphan nor any other step that would help it is fair.
Fairness ==
    /\ \A t \in Task : /\ SF_vars(StartTask(t))
                       /\ WF_vars(DeleteTask(t))
                       /\ SF_vars(QueueStep(t))
    /\ SF_vars(DispatchStep)
    /\ \A w \in Worker : WF_vars(HandleTaskByID(w) \/ HandleTask(w))
    /\ \A h \in Handler : WF_vars(HandlerStep(h))

FairSpec == Spec /\ Fairness

-----------------------------------------------------------------------------
(* Properties *)

\* Nothing of task t moves: no worker is about to push it, no crawler will report it,
\* no result of it waits or is being handled.
AtRest(t) ==
    /\ t \notin live
    /\ \A w \in Worker : worker[w] # t
    /\ \A i \in 1..Len(results) : results[i] # t
    /\ \A h \in Handler : handler[h].task # t

\* Nor could a janitor set it in motion.
Settled(t) == AtRest(t) /\ t \notin orphaned

Quiet(t) == row[t].status \in {"stopped", "completed", "deleted"} /\ Settled(t)

\* Once a task that is stopped, completed or deleted has nothing under way, it stays
\* so until its user starts it: an id that a dispatch round, a slow request or the
\* pool's channel still holds is dropped, because handleTaskByID reads the status
\* again before it pushes.
StopHolds ==
    [][\A t \in Task : Quiet(t) => Quiet(t)' \/ UpdateTaskStatus(t, "running")]_vars

\* What this module does to the queue, AtLeastOnceQueue allows: the scheduler, the
\* deletion of a task and the crawlers only ever push and settle.  It is the
\* interface that TaskPipeline implements, so the two models fit together.
Queue == INSTANCE AtLeastOnceQueue WITH live <- live \cup orphaned

QueueInterface == Queue!Spec

\* An orphaned copy keeps its task pending, so that the scheduler skips it.
Stranded(t) == t \in orphaned /\ t \in pending

\* A task that stays running is crawled, and its result handled, again and again: no
\* restart, lost result, overlapping handler, full channel or change to the tasks beside
\* it in a batch takes it out of enqueueRunningTasks for good, unless it ends up stranded.
RunningIsCrawled ==
    \A t \in Task : <>[](row[t].status = "running") =>
                    \/ []<>(\E h \in Handler : handler[h].task = t)
                    \/ <>[]Stranded(t)

\* If the demo user stays away, the demo task is stopped for good, although a handler
\* that saw the user active may set it running again and a start of the API may create
\* it anew, unless it ends up stranded, when no result of it comes any more.
GuestStopped ==
    <>[](~active) => \/ <>[](\A t \in Task : row[t].guest => row[t].status # "running")
                     \/ <>[](\E t \in Task : row[t].guest /\ Stranded(t))

\* A deleted row does not come back: the final status of a result that is still being
\* handled, or a start of the API, finds no row or takes a new id.
DeletedStays ==
    [][\A t \in Task : row[t].status = "deleted" => row'[t].status = "deleted"]_vars

\* A deleted task does not come back and comes to rest for good, although results, ids
\* and pushes of it are under way when its row goes: nothing of it is left in the queue
\* but an orphaned copy, and no mark in the pending set without one.
DeletedDrains ==
    /\ DeletedStays
    /\ \A t \in Task :
          <>[](row[t].status = "deleted" => AtRest(t) /\ (t \in pending => t \in orphaned))

\* A one-shot task does not stay running, unless it ends up stranded.
OneShotEnds ==
    \A t \in Task : <>[](row[t].type = "oneshot" /\ row[t].status = "running") =>
                    <>[]Stranded(t)

\* A claim that does not hold.

\* Scheduler: "the scheduling loop stops when a task is stopped or deleted"
\* (scheduler.go:28): only its user sets a stopped task running.
StopSticks ==
    [][\A t \in Task : row[t].status = "stopped" /\ row'[t].status = "running" =>
                       UpdateTaskStatus(t, "running")]_vars
=============================================================================
