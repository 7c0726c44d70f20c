---------------------------- MODULE TaskPipeline ----------------------------
(***************************************************************************)
(* The reliable task queue end to end: the API's scheduler pushes tasks,   *)
(* crawler processes pop, crawl, report and acknowledge them, and janitors *)
(* move the tasks of dead workers back.  The processes share nothing but   *)
(* the Redis keys of RedisQueue, and every Redis command is a step of its  *)
(* own, so any other process may act between two commands of one method.   *)
(*                                                                         *)
(* A crawler has Concurrency slots: the tokens of StartWorker's semaphore. *)
(* Its loop pops one task at a time and hands it to a goroutine, the slot. *)
(* A janitor is one periodic or start-up call of RescueStuckTasks.         *)
(*                                                                         *)
(* Time: one Tick is one unit.  A Tick is refused while a slot or a scan   *)
(* has used up the time its contexts give it (SlotDeadline, ScanDeadline), *)
(* which is how the 90 s task context, the 5 s Redis contexts and the      *)
(* 10 s and 60 s rescue contexts enter the model.                          *)
(***************************************************************************)
EXTENDS RedisQueue

CONSTANTS Crawler,           \* the crawler processes
          Api,               \* the API processes that run a janitor
          Concurrency,       \* cfg.Browser.MaxConcurrency
          None,              \* no task
          TaskTimeout,       \* taskTimeout, in units
          SlotDeadline,      \* taskTimeout and the pushes and acks after it
          ScanDeadline,      \* the longest RescueStuckTasks may take
          StartupThreshold,  \* the 2 minutes of cmd/crawler
          StuckThreshold,    \* stuckTaskThreshold, 5 minutes
          JanitorThreshold,  \* janitorTimeout, 30 minutes
          Deletable,         \* the tasks a user may delete
          Faults,            \* the failures the environment may inject
          MaxFaults,         \* bound: how many of them
          MaxEntries,        \* bound: entries in the two task lists
          MaxResults         \* bound: entries in the result list

Failure == {"crash", "restart", "reply", "stamp", "result", "ack", "scan",
            "timeout"}

ASSUME PipelineAssumption ==
    /\ None \notin Task
    /\ Crawler \cap Api = {}
    /\ Deletable \subseteq Task
    /\ Faults \subseteq Failure
    /\ Concurrency \in Nat /\ MaxFaults \in Nat
    /\ TaskTimeout \in Nat /\ SlotDeadline \in Nat /\ ScanDeadline \in Nat
    /\ TaskTimeout <= SlotDeadline
    /\ StartupThreshold \in Nat /\ StuckThreshold \in Nat /\ JanitorThreshold \in Nat
    /\ MaxEntries \in Nat /\ MaxResults \in Nat

\* 90 s for the task and 5 s each for the result and the ack stay below the
\* smallest threshold, 120 s; ages saturate above the largest.
ASSUME ThresholdAssumption ==
    /\ SlotDeadline < StartupThreshold
    /\ StartupThreshold <= StuckThreshold
    /\ StuckThreshold <= JanitorThreshold
    /\ JanitorThreshold < MaxAge

VARIABLES crawler,  \* the state of each crawler process
          slot,     \* what each token holder of a crawler is doing
          scan,     \* the progress of each call of RescueStuckTasks
          faults    \* how many failures have been injected

vars == <<redisVars, crawler, slot, scan, faults>>

Slot == Crawler \X (1..Concurrency)

Janitor == (Crawler \X {"boot", "cleanup"}) \cup (Api \X {"janitor"})

Threshold(j) == CASE j[2] = "boot"    -> StartupThreshold
                  [] j[2] = "cleanup" -> StuckThreshold
                  [] j[2] = "janitor" -> JanitorThreshold

IdleSlot == [phase |-> "idle", task |-> None, age |-> 0, stamped |-> FALSE,
             completed |-> FALSE]

SlotState == {IdleSlot} \cup [phase : {"stamp", "fetch", "push", "ack"},
                              task : Task, age : Age, stamped : BOOLEAN,
                              completed : BOOLEAN]

ScanState == [phase : {"idle", "lrange", "rescue", "orphans"},
              snap : Hash, raw : Seq(Entry), todo : SUBSET Nat,
              ids : SUBSET Task, age : Age]

IdleScan == [phase |-> "idle", snap |-> [t \in {} |-> 0], raw |-> << >>,
             todo |-> {}, ids |-> {}, age |-> 0]

TypeOK ==
    /\ RedisTypeOK
    /\ crawler \in [Crawler -> {"down", "boot", "up", "stopping"}]
    /\ slot \in [Slot -> SlotState]
    /\ scan \in [Janitor -> ScanState]
    /\ faults \in 0..MaxFaults

Init ==
    /\ RedisInit
    /\ crawler = [c \in Crawler |-> "down"]
    /\ slot = [s \in Slot |-> IdleSlot]
    /\ scan = [j \in Janitor |-> IdleScan]
    /\ faults = 0

\* The environment injects one failure of kind f.
Fail(f) ==
    /\ f \in Faults
    /\ faults < MaxFaults
    /\ faults' = faults + 1

Live == Ids(tasks) \cup Ids(processing)

-----------------------------------------------------------------------------
(* The API: scheduler, result listener, task deletion *)

\* handleTask: the scheduler's tick pushes a running task.
PushTask(t) ==
    /\ Len(tasks) + Len(processing) < MaxEntries
    /\ PushTaskScript(t)
    /\ UNCHANGED <<crawler, slot, scan, faults>>

\* StartResultListener takes the oldest result.
PopResult ==
    /\ BRPopResult
    /\ UNCHANGED <<crawler, slot, scan, faults>>

\* handleDeleteTask and handleDeleteAccount clear the id from the pending set
\* and leave its queue entries where they are.
DeleteTask(t) ==
    /\ t \in pending
    /\ SRemPending(t)
    /\ UNCHANGED <<crawler, slot, scan, faults>>

-----------------------------------------------------------------------------
(* A crawler's worker loop and its slots *)

\* The loop of crawler c is between BRPOPLPUSH and HSET.
Stamping(c) == \E i \in 1..Concurrency : slot[<<c, i>>].phase = "stamp"

\* PopTask, first command, by the loop that holds a token for slot s.
PopTask(s) ==
    /\ crawler[s[1]] = "up"
    /\ ~Stamping(s[1])
    /\ slot[s].phase = "idle"
    /\ BRPopLPush
    /\ slot' = [slot EXCEPT ![s] = [IdleSlot EXCEPT !.phase = "stamp",
                                                   !.task = Last(tasks).task]]
    /\ UNCHANGED <<crawler, scan, faults>>

\* The same command when its reply is lost: Redis has moved the entry, PopTask
\* returns an error and the token is released.
PopReplyLost(c) ==
    /\ crawler[c] \in {"up", "stopping"}
    /\ ~Stamping(c)
    /\ \E i \in 1..Concurrency : slot[<<c, i>>].phase = "idle"
    /\ Fail("reply")
    /\ BRPopLPush
    /\ UNCHANGED <<crawler, slot, scan>>

\* PopTask, second command; its error is ignored.  The goroutine starts.  The
\* command runs under workerCtx, so a shutdown under way also makes it fail.
StampStarted(s) ==
    LET goOn(ok) == slot' = [slot EXCEPT ![s].phase = "fetch", ![s].age = 0,
                                         ![s].stamped = ok]
    IN /\ slot[s].phase = "stamp"
       /\ \/ HSetStarted(slot[s].task) /\ goOn(TRUE) /\ UNCHANGED faults
          \/ Fail("stamp") /\ goOn(FALSE) /\ UNCHANGED redisVars
          \/ crawler[s[1]] = "stopping" /\ goOn(FALSE) /\ UNCHANGED <<redisVars, faults>>
       /\ UNCHANGED <<crawler, scan>>

\* FetchItems returns items or an error before the task context expires.
FetchDone(s) ==
    /\ slot[s].phase = "fetch"
    /\ slot' = [slot EXCEPT ![s].phase = "push", ![s].completed = TRUE]
    /\ UNCHANGED <<redisVars, crawler, scan, faults>>

\* The task context expires first: an error result, and no ack.
FetchTimeout(s) ==
    /\ slot[s].phase = "fetch"
    /\ slot[s].age >= TaskTimeout
    /\ Fail("timeout")
    /\ slot' = [slot EXCEPT ![s].phase = "push"]
    /\ UNCHANGED <<redisVars, crawler, scan>>

\* Mutant: the token of a task that timed out is released with the task still in it.
PushResultKeepsTask(s) ==
    /\ slot[s].phase = "push"
    /\ \/ /\ Len(results) < MaxResults
          /\ LPushResult(slot[s].task)
          /\ UNCHANGED faults
       \/ Fail("result") /\ UNCHANGED redisVars
    /\ slot' = [slot EXCEPT ![s].phase = IF slot[s].completed THEN "ack" ELSE "idle"]
    /\ UNCHANGED <<crawler, scan>>

\* PushResult; its error is only logged.  A task that timed out is left in
\* processing and the token is released.
PushResult(s) ==
    /\ slot[s].phase = "push"
    /\ \/ /\ Len(results) < MaxResults
          /\ LPushResult(slot[s].task)
          /\ UNCHANGED faults
       \/ Fail("result") /\ UNCHANGED redisVars
    /\ slot' = [slot EXCEPT ![s] = IF slot[s].completed
                                   THEN [slot[s] EXCEPT !.phase = "ack"]
                                   ELSE IdleSlot]
    /\ UNCHANGED <<crawler, scan>>

\* AckTask; its error is only logged.
AckTask(s) ==
    /\ slot[s].phase = "ack"
    /\ \/ AckTaskScript(slot[s].task) /\ UNCHANGED faults
       \/ Fail("ack") /\ UNCHANGED redisVars
    /\ slot' = [slot EXCEPT ![s] = IdleSlot]
    /\ UNCHANGED <<crawler, scan>>

-----------------------------------------------------------------------------
(* A crawler process *)

\* What disappears with the memory of the crawler process c.
ProcessGone(c) ==
    /\ crawler' = [crawler EXCEPT ![c] = "down"]
    /\ slot' = [s \in Slot |-> IF s[1] = c THEN IdleSlot ELSE slot[s]]
    /\ scan' = [j \in Janitor |-> IF j[1] = c THEN IdleScan ELSE scan[j]]
    /\ UNCHANGED redisVars

\* The process is killed, or FetchItems panics in a goroutine that no recover
\* covers.
Crash(c) ==
    /\ crawler[c] # "down"
    /\ Fail("crash")
    /\ ProcessGone(c)

\* A signal or the maxTasks limit: the loop stops popping.
StopWorkers(c) ==
    /\ crawler[c] = "up"
    /\ Fail("restart")
    /\ crawler' = [crawler EXCEPT ![c] = "stopping"]
    /\ UNCHANGED <<redisVars, slot, scan>>

\* Shutdown closes the browser and main returns, whatever the slots are doing.
Exit(c) ==
    /\ crawler[c] = "stopping"
    /\ ProcessGone(c)
    /\ UNCHANGED faults

-----------------------------------------------------------------------------
(* RescueStuckTasks *)

\* HGETALL: an empty hash ends the call.
ReadStarted == IF DOMAIN started = {}
               THEN IdleScan
               ELSE [IdleScan EXCEPT !.phase = "lrange", !.snap = started]

\* The container comes up and main makes its start-up call.
Boot(c) ==
    /\ crawler[c] = "down"
    /\ crawler' = [crawler EXCEPT ![c] = "boot"]
    /\ scan' = [scan EXCEPT ![<<c, "boot">>] = ReadStarted]
    /\ UNCHANGED <<redisVars, slot, faults>>

\* The start-up call is over, failed or not: the worker loop starts.
StartWorker(c) ==
    /\ crawler[c] = "boot"
    /\ scan[<<c, "boot">>].phase = "idle"
    /\ crawler' = [crawler EXCEPT ![c] = "up"]
    /\ UNCHANGED <<redisVars, slot, scan, faults>>

\* A ticker fires: startStuckTaskCleanup in a crawler, StartJanitor in the API.
StartScan(j) ==
    /\ j[2] # "boot"
    /\ j[2] = "cleanup" => crawler[j[1]] = "up"
    /\ scan[j].phase = "idle"
    /\ DOMAIN started # {}
    /\ scan' = [scan EXCEPT ![j] = ReadStarted]
    /\ UNCHANGED <<redisVars, crawler, slot, faults>>

\* now - stamp > threshold, the stamp being the start time of the snapshot or,
\* for a task it does not hold, the entry's CreatedAt.
Overdue(e, snap, threshold) ==
    IF e.task \in DOMAIN snap THEN snap[e.task] > threshold ELSE e.age > threshold

\* LRANGE, the reading of the clock, and the choice of the positions to rescue.
ReadProcessing(j) ==
    /\ scan[j].phase = "lrange"
    /\ LET late == {i \in 1..Len(processing) :
                      Overdue(processing[i], scan[j].snap, Threshold(j))}
       IN scan' = [scan EXCEPT ![j] =
            IF processing = << >>
            THEN [scan[j] EXCEPT !.phase = "orphans", !.ids = DOMAIN scan[j].snap]
            ELSE IF late = {}
                 THEN IdleScan
                 ELSE [scan[j] EXCEPT !.phase = "rescue", !.raw = processing,
                                      !.todo = late]]
    /\ UNCHANGED <<redisVars, crawler, slot, faults>>

\* rescueScript for the next chosen entry; its error skips the entry.
RescueTask(j) ==
    /\ scan[j].phase = "rescue"
    /\ \E i \in scan[j].todo :
          /\ \A k \in scan[j].todo : i <= k
          /\ \/ RescueScript(scan[j].raw[i]) /\ UNCHANGED faults
             \/ Fail("scan") /\ UNCHANGED redisVars
          /\ scan' = [scan EXCEPT ![j] = IF scan[j].todo = {i}
                                         THEN IdleScan
                                         ELSE [scan[j] EXCEPT !.todo = @ \ {i}]]
    /\ UNCHANGED <<crawler, slot>>

\* processing was empty: HDEL of the snapshot's ids, in the map's random order.  An error
\* is ignored.
DropOrphan(j, t) ==
    /\ scan[j].phase = "orphans"
    /\ t \in scan[j].ids
    /\ \/ HDelStarted(t) /\ UNCHANGED faults
       \/ Fail("scan") /\ UNCHANGED redisVars
    /\ scan' = [scan EXCEPT ![j] = IF scan[j].ids = {t}
                                   THEN IdleScan
                                   ELSE [scan[j] EXCEPT !.ids = @ \ {t}]]
    /\ UNCHANGED <<crawler, slot>>

\* The rescue context expires before LRANGE, or Redis fails there.
AbortScan(j) ==
    /\ scan[j].phase = "lrange"
    /\ Fail("scan")
    /\ scan' = [scan EXCEPT ![j] = IdleScan]
    /\ UNCHANGED <<redisVars, crawler, slot>>

-----------------------------------------------------------------------------
(* Time *)

Tick ==
    /\ \A s \in Slot : slot[s].phase # "idle" => slot[s].age < SlotDeadline
    /\ \A j \in Janitor : scan[j].phase # "idle" => scan[j].age < ScanDeadline
    /\ AgeRedis
    /\ slot' = [s \in Slot |-> IF slot[s].phase = "idle" THEN slot[s]
                               ELSE [slot[s] EXCEPT !.age = Older(@)]]
    /\ scan' = [j \in Janitor |->
                 IF scan[j].phase = "idle" THEN scan[j]
                 ELSE [scan[j] EXCEPT !.age = Older(@),
                                      !.snap = [t \in DOMAIN @ |-> Older(@[t])],
                                      !.raw = OlderEntries(@)]]
    /\ UNCHANGED <<crawler, faults>>

-----------------------------------------------------------------------------
SlotStep(s) ==
    \/ PopTask(s) \/ StampStarted(s) \/ FetchDone(s) \/ FetchTimeout(s)
    \/ PushResult(s) \/ AckTask(s)

ScanStep(j) ==
    \/ StartScan(j) \/ ReadProcessing(j) \/ RescueTask(j) \/ AbortScan(j)
    \/ \E t \in Task : DropOrphan(j, t)

ProcessStep(c) == Boot(c) \/ StartWorker(c) \/ Exit(c)

Next ==
    \/ \E t \in Task : PushTask(t)
    \/ \E t \in Deletable : DeleteTask(t)
    \/ PopResult
    \/ \E s \in Slot : SlotStep(s)
    \/ \E c \in Crawler : PopReplyLost(c) \/ Crash(c) \/ StopWorkers(c) \/ ProcessStep(c)
    \/ \E j \in Janitor : ScanStep(j)
    \/ Tick

Spec == Init /\ [][Next]_vars

\* Containers are restarted (restart: always), goroutines and tickers run, and
\* time passes.  Nothing obliges the scheduler to push or a user to delete.
Fairness ==
    /\ \A s \in Slot : WF_vars(SlotStep(s))
    /\ \A c \in Crawler : WF_vars(ProcessStep(c))
    /\ \A j \in Janitor : WF_vars(ScanStep(j))
    /\ WF_vars(PopResult)
    /\ SF_vars(Tick)

FairSpec == Spec /\ Fairness

-----------------------------------------------------------------------------
(* Safety *)

\* The scheduler skips a pending task, so a pending task with no entry in either
\* list would never be crawled again.  No interleaving of pops, acks, rescues,
\* crashes and lost replies reaches such a state.
NoLostTask == pending \subseteq Live

\* The queue implements AtLeastOnceQueue: a task becomes live only by a push that
\* found it not pending, and stops being live only when an ack settles it.  Pops,
\* rescues, scans, crashes and the passing of time change neither.
Queue == INSTANCE AtLeastOnceQueue WITH live <- Live

AtLeastOnce == Queue!Spec

\* Slot s is busy with a task and its HSET has reached Redis.
Working(s) == slot[s].phase \in {"fetch", "push", "ack"} /\ slot[s].stamped

\* While a worker whose HSET succeeded is busy with a task, the start time that Redis
\* holds for the task, if any, is not overdue for any janitor: HGETALL never shows its
\* task as stuck, although other workers may run copies of it and janitors may have
\* deleted the start time.  It rests on the thresholds leaving room for the task context
\* and the Redis contexts, and on every pop overwriting an older start time.  A worker
\* whose HSET was lost has no such guarantee.
RunningNotOverdue ==
    \A s \in Slot : Working(s) /\ slot[s].task \in DOMAIN started =>
        started[slot[s].task] <= StartupThreshold

-----------------------------------------------------------------------------
(* Liveness *)

\* Only the copy in processing is left of the task, nobody works on it, and Redis
\* holds no start time for it.
Orphaned(t) ==
    /\ t \in Ids(processing) \ (Ids(tasks) \cup DOMAIN started)
    /\ \A s \in Slot : slot[s].task # t

\* Finitely many crashes, restarts, timeouts and lost commands do not keep a
\* pending task from being settled, except by leaving it orphaned.
SettledUnlessOrphaned ==
    \A t \in Task : t \in pending ~> (t \notin pending \/ Orphaned(t))

-----------------------------------------------------------------------------
(* A claim of the documents that does not hold *)

\* ADR 0001:107: the janitor "recovers stuck and crashed tasks automatically".
CrashedTaskRecovered == \A t \in Task : t \in pending ~> t \notin pending
=============================================================================
