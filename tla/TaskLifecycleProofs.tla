------------------------- MODULE TaskLifecycleProofs -------------------------
(***************************************************************************)
(* What TLAPS proves of TaskLifecycle, for any numbers of tasks, pool      *)
(* workers, result handlers and failures.                                  *)
(***************************************************************************)
EXTENDS TaskLifecycle, SequenceTheorems, TLAPS

\* A failure or a request never exceeds their bound.
LEMMA EventBound ==
    ASSUME TypeOK, NEW f, Fail(f) \/ CountEvent \/ UNCHANGED events
    PROVE  events' \in 0..MaxEvents
  BY LifecycleAssumption DEF Fail, CountEvent, TypeOK

\* The type of a status update, and of a handler that moves on or finishes.
LEMMA UpdateTypes ==
    ASSUME TypeOK, NEW t \in Task, NEW s \in Status, UpdateStatus(t, s)
    PROVE  /\ row' \in [Task -> Row]
           /\ \A u \in Task : u # t => row'[u] = row[u]
           /\ row'[t].status = s \/ row'[t] = row[t]
           /\ ~Exists(t) => row'[t] = row[t]
  BY DEF UpdateStatus, TypeOK, Row

\* SeedDemoData only ever gives a row to an id that has none yet.
LEMMA SeedTypes ==
    ASSUME TypeOK, SeedDemoData
    PROVE  /\ row' \in [Task -> Row]
           /\ \A t \in Task : row[t].status # "unborn" => row'[t] = row[t]
  <1>1. DemoRow \in Row
    BY DEF DemoRow, Row, Status, Type
  <1> QED
    BY <1>1 DEF SeedDemoData, NextId, TypeOK

\* A result handler that takes, moves on or finishes keeps the type of its state.
LEMMA HandlerTypes ==
    ASSUME TypeOK, NEW h \in Handler
    PROVE  /\ Finish(h) => handler' \in [Handler -> HandlerState]
           /\ handler[h].phase # "idle" =>
                /\ handler[h].task \in Task
                /\ \A p \in {"guest", "stop", "final"} :
                      Goto(h, p) => handler' \in [Handler -> HandlerState]
  <1>1. handler \in [Handler -> HandlerState] /\ IdleHandler \in HandlerState
    BY DEF TypeOK, HandlerState
  <1>2. Finish(h) => handler' \in [Handler -> HandlerState]
    BY <1>1 DEF Finish
  <1>3. ASSUME handler[h].phase # "idle"
        PROVE  handler[h] \in [phase : {"guest", "stop", "final"},
                               task : Task, type : Type]
    BY <1>1, <1>3 DEF HandlerState, IdleHandler
  <1>4. ASSUME handler[h].phase # "idle",
               NEW p \in {"guest", "stop", "final"}, Goto(h, p)
        PROVE  handler' \in [Handler -> HandlerState]
    <2>1. [handler[h] EXCEPT !.phase = p] \in HandlerState
      BY <1>3, <1>4 DEF HandlerState
    <2> QED
      BY <1>1, <1>4, <2>1 DEF Goto
  <1> QED
    BY <1>2, <1>3, <1>4

-----------------------------------------------------------------------------
(* Types *)

\* The request handlers and the restart of the API keep the types.
LEMMA RequestTypes ==
    ASSUME TypeOK, NEW t \in Task,
           UserStep(t) \/ StartTask(t) \/ DeleteTask(t) \/ ResetQueued(t)
    PROVE  TypeOK'
  <1>1. CASE \E type \in Type, status \in {"running", "stopped", "queued"} :
                CreateTask(t, status, type)
    <2>1. PICK type \in Type, status \in {"running", "stopped", "queued"} :
                  CreateTask(t, status, type)
      BY <1>1
    <2>2. [status |-> status, type |-> type, guest |-> FALSE] \in Row
      BY DEF Row, Status
    <2>3. row' \in [Task -> Row]
      BY <2>1, <2>2 DEF CreateTask, TypeOK
    <2>4. events' \in 0..MaxEvents
      BY <2>1, EventBound DEF CreateTask
    <2> QED
      BY <2>1, <2>3, <2>4 DEF CreateTask, queueVars, TypeOK
  <1>2. CASE \E status \in {"running", "stopped"} : UpdateTaskStatus(t, status)
    <2>1. PICK status \in {"running", "stopped"} : UpdateTaskStatus(t, status)
      BY <1>2
    <2>2. row' \in [Task -> Row]
      BY <2>1, UpdateTypes DEF UpdateTaskStatus, Status
    <2>3. events' \in 0..MaxEvents
      BY <2>1, EventBound DEF UpdateTaskStatus
    <2>4. active' \in BOOLEAN
      BY <2>1 DEF UpdateTaskStatus, TypeOK
    <2> QED
      BY <2>1, <2>2, <2>3, <2>4 DEF UpdateTaskStatus, queueVars, TypeOK
  <1>3. CASE ClearPending(t)
    <2>1. events' \in 0..MaxEvents
      BY <1>3, EventBound DEF ClearPending
    <2> QED
      BY <1>3, <2>1 DEF ClearPending, TypeOK
  <1>4. CASE StartTask(t)
    <2>1. jobs \in Seq(Task) /\ (jobs' = Append(jobs, t) \/ jobs' = jobs)
      BY <1>4 DEF StartTask, TypeOK
    <2>2. jobs' \in Seq(Task)
      BY <2>1, AppendProperties
    <2>3. events' \in 0..MaxEvents
      BY <1>4, EventBound DEF StartTask
    <2> QED
      BY <1>4, <2>2, <2>3 DEF StartTask, queueVars, TypeOK
  <1>5. CASE DeleteTask(t)
    <2>1. row' \in [Task -> Row]
      BY <1>5, UpdateTypes DEF DeleteTask, Status, TypeOK
    <2>2. events' \in 0..MaxEvents
      BY <1>5, EventBound DEF DeleteTask
    <2> QED
      BY <1>5, <2>1, <2>2 DEF DeleteTask, queueVars, TypeOK
  <1>6. CASE ResetQueued(t)
    <2>1. row' \in [Task -> Row]
      BY <1>6, UpdateTypes DEF ResetQueued, Status
    <2> QED
      BY <1>6, <2>1 DEF ResetQueued, apiVars, queueVars, TypeOK
  <1> QED
    BY <1>1, <1>2, <1>3, <1>4, <1>5, <1>6 DEF UserStep

\* The crawlers' reports and acks, and what becomes of orphans, keep the types.
LEMMA QueueTypes ==
    ASSUME TypeOK, NEW t \in Task,
           QueueStep(t) \/ CrawlAgain(t) \/ Orphan(t) \/ RescueOrphan(t)
    PROVE  TypeOK'
  <1>1. events' \in 0..MaxEvents
    BY EventBound
    DEF QueueStep, Report, Acknowledge, CrawlAgain, Orphan,
       RescueOrphan
  <1>2. results' \in Seq(Task)
    <2>1. results \in Seq(Task) /\ (results' = Append(results, t) \/ results' = results)
      BY DEF QueueStep, Report, Acknowledge, CrawlAgain, Orphan,
       RescueOrphan, TypeOK
    <2> QED
      BY <2>1, AppendProperties
  <1> QED
    BY <1>1, <1>2
    DEF QueueStep, Report, Acknowledge, CrawlAgain, Orphan,
       RescueOrphan, apiVars, TypeOK

\* The steps of a dispatch round keep the types.
LEMMA DispatchTypes ==
    ASSUME TypeOK, DispatchStep
    PROVE  TypeOK'
  <1>1. CASE QueryBatch
    <2>1. events' \in 0..MaxEvents
      BY <1>1, EventBound DEF QueryBatch
    <2>2. \/ /\ NextBatch \in SUBSET Task
             /\ dispatch' = [dispatch EXCEPT !.phase = "enqueue", !.batch = NextBatch]
          \/ dispatch' = IdleDispatch
      BY <1>1 DEF QueryBatch, NextBatch, RunningAfter
    <2>3. dispatch' \in [phase : {"query", "enqueue"}, last : Nat, batch : SUBSET Task]
      <3>1. dispatch \in [phase : {"query", "enqueue"}, last : Nat, batch : SUBSET Task]
        BY DEF TypeOK
      <3>2. IdleDispatch \in [phase : {"query", "enqueue"}, last : Nat, batch : SUBSET Task]
        BY DEF IdleDispatch
      <3> QED
        BY <2>2, <3>1, <3>2
    <2> QED
      BY <1>1, <2>1, <2>3 DEF QueryBatch, queueVars, TypeOK
  <1>2. CASE EnqueueTask
    BY <1>2, LifecycleAssumption DEF EnqueueTask, queueVars, TypeOK
  <1> QED
    BY <1>1, <1>2 DEF DispatchStep

\* The steps of the pool's workers keep the types.
LEMMA WorkerTypes ==
    ASSUME TypeOK, NEW w \in Worker, HandleTaskByID(w) \/ HandleTask(w)
    PROVE  TypeOK'
  <1>1. CASE HandleTaskByID(w)
    <2>1. Head(jobs) \in Task /\ Tail(jobs) \in Seq(Task)
      BY <1>1 DEF HandleTaskByID, TypeOK
    <2>2. events' \in 0..MaxEvents
      BY <1>1, EventBound DEF HandleTaskByID
    <2> QED
      BY <1>1, <2>1, <2>2 DEF HandleTaskByID, queueVars, TypeOK
  <1>2. CASE HandleTask(w)
    <2>1. events' \in 0..MaxEvents
      BY <1>2, EventBound DEF HandleTask
    <2>2. worker[w] \in Task
      BY <1>2 DEF HandleTask, TypeOK
    <2> QED
      BY <1>2, <2>1, <2>2 DEF HandleTask, TypeOK
  <1> QED
    BY <1>1, <1>2

\* The steps of the result handlers keep the types.
LEMMA ResultTypes ==
    ASSUME TypeOK, NEW h \in Handler, HandlerStep(h) \/ HandlerPanic(h)
    PROVE  TypeOK'
  <1>1. CASE TakeResult(h)
    <2>1. Head(results) \in Task /\ Tail(results) \in Seq(Task)
      BY <1>1 DEF TakeResult, TypeOK
    <2>2. handler' \in [Handler -> HandlerState]
      <3>1. ASSUME NEW phase \in {"guest", "final"}
            PROVE  [phase |-> phase, task |-> Head(results),
                    type |-> row[Head(results)].type] \in HandlerState
        BY <2>1 DEF HandlerState, TypeOK, Row
      <3> QED
        BY <1>1, <3>1 DEF TakeResult, LoadTask, TypeOK
    <2>3. events' \in 0..MaxEvents
      BY <1>1, EventBound DEF TakeResult, LoadTask
    <2> QED
      BY <1>1, <2>1, <2>2, <2>3 DEF TakeResult, TypeOK
  <1>2. CASE CheckGuest(h)
    <2>1. handler' \in [Handler -> HandlerState]
      BY <1>2, HandlerTypes DEF CheckGuest
    <2>2. events' \in 0..MaxEvents
      BY <1>2, EventBound DEF CheckGuest
    <2> QED
      BY <1>2, <2>1, <2>2 DEF CheckGuest, queueVars, TypeOK
  <1>3. CASE StopGuest(h) \/ SetFinalStatus(h) \/ HandlerPanic(h)
    <2>1. handler' \in [Handler -> HandlerState] /\ handler[h].task \in Task
      BY <1>3, HandlerTypes DEF StopGuest, SetFinalStatus, HandlerPanic
    <2>2. row' \in [Task -> Row]
      BY <1>3, <2>1, UpdateTypes
      DEF StopGuest, SetFinalStatus, HandlerPanic, Status, TypeOK
    <2>3. events' \in 0..MaxEvents
      BY <1>3, EventBound DEF StopGuest, SetFinalStatus, HandlerPanic
    <2> QED
      BY <1>3, <2>1, <2>2, <2>3
      DEF StopGuest, SetFinalStatus, HandlerPanic, queueVars, TypeOK
  <1> QED
    BY <1>1, <1>2, <1>3 DEF HandlerStep

\* Types: rows, jobs, results and handlers only ever hold known tasks, and what a
\* handler has read of a row is a row's.
THEOREM TypeCorrect == Spec => []TypeOK
  <1>1. Init => TypeOK
    <2> SUFFICES ASSUME Init
                 PROVE  TypeOK
      OBVIOUS
    <2>1. row \in [Task -> Row]
      BY DEF Init, Row, Type, Status
    <2>2. /\ handler \in [Handler -> HandlerState]
          /\ dispatch \in [phase : {"query", "enqueue"}, last : Nat, batch : SUBSET Task]
      BY DEF Init, IdleDispatch, HandlerState
    <2>3. jobs \in Seq(Task) /\ results \in Seq(Task)
      BY DEF Init
    <2>4. worker \in [Worker -> Task \cup {None}] /\ events \in 0..MaxEvents
      BY LifecycleAssumption DEF Init
    <2> QED
      BY <2>1, <2>2, <2>3, <2>4 DEF Init, TypeOK
  <1>2. TypeOK /\ [Next]_vars => TypeOK'
    <2> SUFFICES ASSUME TypeOK, [Next]_vars
                 PROVE  TypeOK'
      OBVIOUS
    <2>1. CASE GuestRequest \/ GuestExpires
      BY <2>1 DEF GuestRequest, GuestExpires, apiVars, queueVars, TypeOK
    <2>2. CASE RestartApi
      <3>1. events' \in 0..MaxEvents
        BY <2>2, EventBound DEF RestartApi
      <3>2. row' \in [Task -> Row]
        BY <2>2, SeedTypes DEF RestartApi
      <3> QED
        BY <2>2, <3>1, <3>2 DEF RestartApi, queueVars, TypeOK, IdleDispatch, HandlerState
    <2>3. CASE UNCHANGED vars
      BY <2>3 DEF vars, apiVars, queueVars, TypeOK
    <2> QED
      BY <2>1, <2>2, <2>3, RequestTypes, QueueTypes, DispatchTypes, WorkerTypes, ResultTypes
      DEF Next
  <1> QED
    BY <1>1, <1>2, PTL DEF Spec

-----------------------------------------------------------------------------
(* The queue seen from the API *)

\* The scheduler, the deletion of tasks and the crawlers use the queue as
\* AtLeastOnceQueue says: every step here is a push, a settlement or neither.
THEOREM UsesAtLeastOnce == Spec => QueueInterface
  <1>1. Init => Queue!Init
    BY DEF Init, Queue!Init
  <1>2. TypeOK /\ [Next]_vars => [Queue!Next]_<<pending, live \cup orphaned>>
    <2> SUFFICES ASSUME TypeOK, [Next]_vars, ~UNCHANGED <<pending, live \cup orphaned>>
                 PROVE  \E t \in Task : Queue!Push(t) \/ Queue!Settle(t)
      BY DEF Queue!Next
    <2>1. ASSUME NEW t \in Task, ClearPending(t) \/ Acknowledge(t)
          PROVE  Queue!Settle(t)
      BY <2>1 DEF ClearPending, Acknowledge, Queue!Settle
    <2>2. ASSUME NEW w \in Worker, HandleTask(w)
          PROVE  worker[w] \in Task /\ Queue!Push(worker[w])
      <3>1. worker[w] \in Task
        BY <2>2 DEF HandleTask, TypeOK
      <3>2. /\ pending' = pending \cup {worker[w]}
            /\ live' = IF worker[w] \in pending THEN live ELSE live \cup {worker[w]}
            /\ orphaned' = orphaned
        BY <2>2 DEF HandleTask
      <3>3. worker[w] \notin pending
        BY <3>2
      <3> QED
        BY <3>1, <3>2, <3>3 DEF Queue!Push
    <2>3. ASSUME NEW t \in Task,
                 \/ \E type \in Type, status \in {"running", "stopped", "queued"} :
                       CreateTask(t, status, type)
                 \/ \E status \in {"running", "stopped"} : UpdateTaskStatus(t, status)
                 \/ StartTask(t) \/ DeleteTask(t) \/ ResetQueued(t)
                 \/ Report(t) \/ CrawlAgain(t) \/ Orphan(t) \/ RescueOrphan(t)
          PROVE  FALSE
      BY <2>3 DEF CreateTask, UpdateTaskStatus, StartTask, DeleteTask, ResetQueued,
                  Report, CrawlAgain, Orphan, RescueOrphan, queueVars
    <2>4. CASE GuestRequest \/ GuestExpires \/ DispatchStep \/ RestartApi \/ UNCHANGED vars
      BY <2>4 DEF GuestRequest, GuestExpires, DispatchStep, QueryBatch,
                  EnqueueTask, RestartApi, vars, queueVars
    <2>5. ASSUME NEW w \in Worker, HandleTaskByID(w)
          PROVE  FALSE
      BY <2>5 DEF HandleTaskByID, queueVars
    <2>6. ASSUME NEW h \in Handler, HandlerStep(h) \/ HandlerPanic(h)
          PROVE  FALSE
      BY <2>6 DEF HandlerStep, HandlerPanic, TakeResult, LoadTask, CheckGuest, StopGuest,
                  SetFinalStatus, queueVars
    <2> QED
      BY <2>1, <2>2, <2>3, <2>4, <2>5, <2>6 DEF Next, UserStep, QueueStep
  <1> QED
    BY <1>1, <1>2, TypeCorrect, PTL DEF Spec, QueueInterface, Queue!Spec

-----------------------------------------------------------------------------
(* A task that has stopped *)

\* A step that leaves the row and everything under way alone keeps a task quiet.
LEMMA QuietFrame ==
    ASSUME NEW t \in Task, Quiet(t),
           row'[t] = row[t], live' = live, orphaned' = orphaned, worker' = worker, results' = results,
           handler' = handler
    PROVE  Quiet(t)'
  BY DEF Quiet, Settled, AtRest

\* Requests leave a quiet task quiet, except the one that starts it.
LEMMA QuietRequest ==
    ASSUME TypeOK, NEW t \in Task, Quiet(t), NEW u \in Task,
           UserStep(u) \/ StartTask(u) \/ DeleteTask(u) \/ ResetQueued(u)
    PROVE  Quiet(t)' \/ UpdateTaskStatus(t, "running")
  <1>1. CASE \E type \in Type, status \in {"running", "stopped", "queued"} :
                CreateTask(u, status, type)
    <2>1. u # t
      BY <1>1 DEF CreateTask, NextId, Quiet
    <2> QED
      BY <1>1, <2>1, QuietFrame DEF CreateTask, queueVars, TypeOK
  <1>2. CASE \E status \in {"running", "stopped"} : UpdateTaskStatus(u, status)
    <2>1. PICK status \in {"running", "stopped"} : UpdateTaskStatus(u, status)
      BY <1>2
    <2>2. CASE u # t
      <3>1. row'[t] = row[t]
        BY <2>1, <2>2, UpdateTypes DEF UpdateTaskStatus, Status
      <3> QED
        BY <2>1, <3>1, QuietFrame DEF UpdateTaskStatus, queueVars
    <2>3. CASE u = t /\ status = "stopped"
      <3>1. row'[t].status = "stopped" \/ row'[t] = row[t]
        BY <2>1, <2>3, UpdateTypes DEF UpdateTaskStatus, Status
      <3> QED
        BY <2>1, <3>1 DEF UpdateTaskStatus, queueVars, Quiet, Settled, AtRest
    <2> QED
      BY <2>1, <2>2, <2>3
  <1>3. CASE ClearPending(u) \/ StartTask(u)
    BY <1>3, QuietFrame DEF ClearPending, StartTask, queueVars
  <1>4. CASE DeleteTask(u)
    <2>1. row'[t].status = "deleted" \/ row'[t] = row[t]
      BY <1>4, UpdateTypes DEF DeleteTask, Status
    <2> QED
      BY <1>4, <2>1 DEF DeleteTask, queueVars, Quiet, Settled, AtRest
  <1>5. CASE ResetQueued(u)
    <2>1. u # t
      BY <1>5 DEF ResetQueued, Quiet
    <2>2. row'[t] = row[t]
      BY <1>5, <2>1, UpdateTypes DEF ResetQueued, Status
    <2> QED
      BY <1>5, <2>2, QuietFrame DEF ResetQueued, apiVars, queueVars
  <1> QED
    BY <1>1, <1>2, <1>3, <1>4, <1>5 DEF UserStep

\* Crawlers and pool workers have nothing to do with a quiet task; an id left in the
\* pool's channel is dropped.
LEMMA QuietQueue ==
    ASSUME TypeOK, NEW t \in Task, Quiet(t),
           \/ \E u \in Task : QueueStep(u) \/ CrawlAgain(u) \/ Orphan(u) \/ RescueOrphan(u)
           \/ \E w \in Worker : HandleTaskByID(w) \/ HandleTask(w)
    PROVE  Quiet(t)'
  <1>1. ASSUME NEW u \in Task, Report(u)
        PROVE  Quiet(t)'
    <2>1. u # t
      BY <1>1 DEF Report, Quiet, Settled, AtRest
    <2>2. \A i \in 1..Len(results') : results'[i] # t
      <3>1. CASE results' = Append(results, u)
        <4>1. /\ Len(results') = Len(results) + 1 /\ Len(results) \in Nat
              /\ \A i \in 1..(Len(results) + 1) :
                    results'[i] = IF i <= Len(results) THEN results[i] ELSE u
          BY <3>1, AppendProperties DEF TypeOK
        <4> QED
          BY <2>1, <4>1 DEF Quiet, Settled, AtRest
      <3>2. CASE results' = results
        BY <3>2 DEF Quiet, Settled, AtRest
      <3> QED
        BY <1>1, <3>1, <3>2 DEF Report
    <2> QED
      BY <1>1, <2>2 DEF Report, apiVars, Quiet, Settled, AtRest
  <1>2. ASSUME NEW u \in Task,
               Acknowledge(u) \/ CrawlAgain(u) \/ Orphan(u) \/ RescueOrphan(u)
        PROVE  Quiet(t)'
    BY <1>2 DEF Acknowledge, CrawlAgain, Orphan, RescueOrphan, apiVars, Quiet, Settled, AtRest
  <1>3. ASSUME NEW w \in Worker, HandleTaskByID(w)
        PROVE  Quiet(t)'
    <2>1. \A v \in Worker : worker'[v] # t
      <3>1. \/ worker' = [worker EXCEPT ![w] = None]
            \/ worker' = worker
            \/ /\ worker' = [worker EXCEPT ![w] = Head(jobs)]
               /\ row[Head(jobs)].status = "running"
        BY <1>3 DEF HandleTaskByID
      <3> QED
        BY <3>1, LifecycleAssumption DEF Quiet, Settled, AtRest, TypeOK
    <2> QED
      BY <1>3, <2>1 DEF HandleTaskByID, queueVars, Quiet, Settled, AtRest
  <1>4. ASSUME NEW w \in Worker, HandleTask(w)
        PROVE  Quiet(t)'
    <2>1. worker[w] # t
      BY DEF Quiet, Settled, AtRest
    <2>2. t \notin live'
      BY <1>4, <2>1 DEF HandleTask, Quiet, Settled, AtRest
    <2>3. \A v \in Worker : worker'[v] # t
      BY <1>4, LifecycleAssumption DEF HandleTask, Quiet, Settled, AtRest, TypeOK
    <2> QED
      BY <1>4, <2>2, <2>3 DEF HandleTask, Quiet, Settled, AtRest
  <1> QED
    BY <1>1, <1>2, <1>3, <1>4 DEF QueueStep

\* No result handler has a quiet task in its hands, and none gets one.
LEMMA QuietHandler ==
    ASSUME TypeOK, NEW t \in Task, Quiet(t), NEW h \in Handler,
           HandlerStep(h) \/ HandlerPanic(h)
    PROVE  Quiet(t)'
  <1>1. handler[h].task # t /\ None # t
    BY LifecycleAssumption DEF Quiet, Settled, AtRest
  <1>2. CASE TakeResult(h)
    <2>1. Head(results) # t
      <3>1. results \in Seq(Task) /\ results # << >>
        BY <1>2 DEF TakeResult, TypeOK
      <3>2. Head(results) = results[1] /\ 1 \in 1..Len(results)
        BY <3>1
      <3> QED
        BY <3>2 DEF Quiet, Settled, AtRest
    <2>2. \A i \in 1..Len(results') : results'[i] # t
      <3>1. /\ results \in Seq(Task) /\ results # << >> /\ results' = Tail(results)
        BY <1>2 DEF TakeResult, TypeOK
      <3>2. /\ Len(results) \in Nat /\ Len(results') = Len(results) - 1
            /\ \A i \in 1..(Len(results) - 1) : results'[i] = results[i + 1]
        BY <3>1, HeadTailProperties
      <3> QED
        BY <3>2 DEF Quiet, Settled, AtRest
    <2>3. \A g \in Handler : handler'[g].task # t
      <3>1. \/ handler' = handler
            \/ \E phase \in {"guest", "final"} :
                  handler' = [handler EXCEPT ![h] =
                    [phase |-> phase, task |-> Head(results), type |-> row[Head(results)].type]]
        BY <1>2 DEF TakeResult, LoadTask
      <3>2. handler \in [Handler -> HandlerState] /\ \A g \in Handler : handler[g].task # t
        BY DEF Quiet, Settled, AtRest, TypeOK
      <3> QED
        BY <2>1, <3>1, <3>2
    <2> QED
      BY <1>2, <2>2, <2>3 DEF TakeResult, Quiet, Settled, AtRest
  <1>3. CASE CheckGuest(h)
    <2>1. \A g \in Handler : handler'[g].task # t
      <3>1. PICK p \in {"final", "stop"} : Goto(h, p)
        BY <1>3 DEF CheckGuest
      <3>2. handler'[h].task = handler[h].task
        BY <3>1 DEF Goto, TypeOK, HandlerState, IdleHandler
      <3> QED
        BY <1>1, <3>1, <3>2 DEF Goto, Quiet, Settled, AtRest, TypeOK
    <2> QED
      BY <1>3, <2>1 DEF CheckGuest, queueVars, Quiet, Settled, AtRest
  <1>4. CASE StopGuest(h) \/ SetFinalStatus(h) \/ HandlerPanic(h)
    <2>1. handler[h].task \in Task
      BY <1>4, HandlerTypes DEF StopGuest, SetFinalStatus, HandlerPanic
    <2>2. row'[t] = row[t]
      BY <1>1, <1>4, <2>1, UpdateTypes DEF StopGuest, SetFinalStatus, HandlerPanic, Status
    <2>3. \A g \in Handler : handler'[g].task # t
      <3>1. Finish(h)
        BY <1>4 DEF StopGuest, SetFinalStatus, HandlerPanic
      <3> QED
        BY <1>1, <3>1 DEF Finish, IdleHandler, Quiet, Settled, AtRest, TypeOK
    <2> QED
      BY <1>4, <2>2, <2>3
      DEF StopGuest, SetFinalStatus, HandlerPanic, queueVars, Quiet, Settled, AtRest
  <1> QED
    BY <1>2, <1>3, <1>4 DEF HandlerStep

\* A task that is stopped, completed or deleted and has nothing under way stays so,
\* for any pool, any number of handlers and any failures, until its user starts it.
THEOREM StoppedStaysStopped == Spec => StopHolds
  <1>1. TypeOK /\ [Next]_vars =>
          [\A t \in Task : Quiet(t) => Quiet(t)' \/ UpdateTaskStatus(t, "running")]_vars
    <2> SUFFICES ASSUME TypeOK, Next, NEW t \in Task, Quiet(t)
                 PROVE  Quiet(t)' \/ UpdateTaskStatus(t, "running")
      OBVIOUS
    <2>1. CASE GuestRequest \/ GuestExpires \/ DispatchStep
      BY <2>1, QuietFrame
      DEF GuestRequest, GuestExpires, DispatchStep, QueryBatch, EnqueueTask,
          apiVars, queueVars
    <2>2. CASE RestartApi
      <3>1. row'[t] = row[t]
        BY <2>2, SeedTypes DEF RestartApi, Quiet
      <3> QED
        BY <2>2, <3>1, LifecycleAssumption
        DEF RestartApi, queueVars, IdleHandler, Quiet, Settled, AtRest
    <2> QED
      BY <2>1, <2>2, QuietRequest, QuietQueue, QuietHandler DEF Next
  <1> QED
    BY <1>1, TypeCorrect, PTL DEF Spec, StopHolds

-----------------------------------------------------------------------------
(* A task that was deleted *)

\* A deleted row never comes back, for any number of results of it that are still being
\* handled, requests that still have its id, and restarts of the API.
THEOREM DeletedForGood == Spec => DeletedStays
  <1>1. TypeOK /\ [Next]_vars =>
          [\A t \in Task : row[t].status = "deleted" => row'[t].status = "deleted"]_vars
    <2> SUFFICES ASSUME TypeOK, Next, NEW t \in Task, row[t].status = "deleted"
                 PROVE  row'[t] = row[t]
      OBVIOUS
    <2>1. ~Exists(t) /\ ~NextId(t)
      BY DEF Exists, NextId
    <2>2. ASSUME NEW u \in Task, NEW s \in Status, UpdateStatus(u, s)
          PROVE  row'[t] = row[t]
      BY <2>1, <2>2, UpdateTypes
    <2>3. ASSUME NEW u \in Task, NEW type \in Type,
                 NEW status \in {"running", "stopped", "queued"},
                 CreateTask(u, status, type)
          PROVE  row'[t] = row[t]
      BY <2>1, <2>3 DEF CreateTask, TypeOK
    <2>4. ASSUME NEW u \in Task,
                 \/ \E status \in {"running", "stopped"} : UpdateTaskStatus(u, status)
                 \/ DeleteTask(u) \/ ResetQueued(u)
          PROVE  row'[t] = row[t]
      BY <2>2, <2>4 DEF UpdateTaskStatus, DeleteTask, ResetQueued, Status
    <2>5. ASSUME NEW u \in Task,
                 ClearPending(u) \/ StartTask(u) \/ QueueStep(u) \/ CrawlAgain(u)
                 \/ Orphan(u) \/ RescueOrphan(u)
          PROVE  row'[t] = row[t]
      BY <2>5 DEF ClearPending, StartTask, QueueStep, Report, Acknowledge, CrawlAgain,
                  Orphan, RescueOrphan
    <2>6. CASE GuestRequest \/ GuestExpires \/ DispatchStep
      BY <2>6 DEF GuestRequest, GuestExpires, DispatchStep, QueryBatch, EnqueueTask
    <2>7. ASSUME NEW w \in Worker, HandleTaskByID(w) \/ HandleTask(w)
          PROVE  row'[t] = row[t]
      BY <2>7 DEF HandleTaskByID, HandleTask
    <2>8. ASSUME NEW h \in Handler, HandlerStep(h) \/ HandlerPanic(h)
          PROVE  row'[t] = row[t]
      <3>1. CASE TakeResult(h) \/ CheckGuest(h)
        BY <3>1 DEF TakeResult, CheckGuest
      <3>2. CASE StopGuest(h) \/ SetFinalStatus(h) \/ HandlerPanic(h)
        <4>1. handler[h].task \in Task
          BY <3>2, HandlerTypes DEF StopGuest, SetFinalStatus, HandlerPanic
        <4> QED
          BY <2>2, <3>2, <4>1 DEF StopGuest, SetFinalStatus, HandlerPanic, Status
      <3> QED
        BY <2>8, <3>1, <3>2 DEF HandlerStep
    <2>9. CASE RestartApi
      BY <2>9, SeedTypes DEF RestartApi
    <2> QED
      BY <2>3, <2>4, <2>5, <2>6, <2>7, <2>8, <2>9 DEF Next, UserStep
  <1> QED
    BY <1>1, TypeCorrect, PTL DEF Spec, DeletedStays
=============================================================================
