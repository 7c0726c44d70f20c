-------------------------- MODULE WorkerPoolProofs --------------------------
(***************************************************************************)
(* What TLAPS proves of WorkerPool, for any numbers of jobs and workers    *)
(* and any capacity.                                                       *)
(***************************************************************************)
EXTENDS WorkerPool, SequenceTheorems, FiniteSetTheorems, TLAPS

WorkerState == [phase : {"idle", "exited"}, job : {None}] \cup [phase : {"run"}, job : Job]

\* What a worker may be doing.
LEMMA WorkerShape ==
    ASSUME TypeOK, NEW w \in Worker
    PROVE  /\ worker \in [Worker -> WorkerState]
           /\ worker[w].phase = "run" => worker[w].job \in Job
           /\ worker[w].phase # "run" => worker[w].job = None
           /\ worker[w].phase \in {"idle", "run", "exited"}
           /\ Idle \in WorkerState
  BY DEF TypeOK, WorkerState, Idle

\* Sending and receiving keep the channel within its capacity.
LEMMA ChannelTypes ==
    ASSUME jobs \in Seq(Job), Len(jobs) <= Cap
    PROVE  /\ \A j \in Job : Len(jobs) < Cap =>
                 Append(jobs, j) \in Seq(Job) /\ Len(Append(jobs, j)) <= Cap
           /\ jobs # << >> =>
                 Head(jobs) \in Job /\ Tail(jobs) \in Seq(Job) /\ Len(Tail(jobs)) <= Cap
  <1>1. Len(jobs) \in Nat /\ Cap \in Nat
    BY PoolAssumption
  <1>2. ASSUME NEW j \in Job, Len(jobs) < Cap
        PROVE  Append(jobs, j) \in Seq(Job) /\ Len(Append(jobs, j)) <= Cap
    BY <1>1, <1>2, AppendProperties
  <1>3. ASSUME jobs # << >>
        PROVE  Head(jobs) \in Job /\ Tail(jobs) \in Seq(Job) /\ Len(Tail(jobs)) <= Cap
    BY <1>1, <1>3, HeadTailProperties
  <1> QED
    BY <1>2, <1>3

\* Types: the channel holds at most Cap submitted jobs, and a worker holds a job
\* exactly while it executes it.
THEOREM TypeCorrect == Spec => []TypeOK
  <1>1. Init => TypeOK
    <2> SUFFICES ASSUME Init
                 PROVE  TypeOK
      OBVIOUS
    <2>1. jobs \in Seq(Job) /\ Len(jobs) <= Cap
      <3>1. jobs = << >>
        BY DEF Init
      <3>2. << >> \in Seq(Job) /\ Len(<< >>) = 0
        BY EmptySeq
      <3> QED
        BY <3>1, <3>2, PoolAssumption
    <2>2. /\ sender \in [Job -> Waiting \cup {"new", "queued", "rejected", "dropped",
                                             "canceled", "panic"}]
          /\ outcome \in [Job -> {"none", "ok", "failed", "panic"}]
      BY DEF Init
    <2>3. worker \in [Worker -> WorkerState]
      BY DEF Init, WorkerState, Idle
    <2> QED
      BY <2>1, <2>2, <2>3 DEF Init, TypeOK, WorkerState
  <1>2. TypeOK /\ [Next]_vars => TypeOK'
    <2> SUFFICES ASSUME TypeOK, [Next]_vars
                 PROVE  TypeOK'
      OBVIOUS
    <2>1. ASSUME NEW j \in Job, SenderStep(j) \/ \E way \in Waiting : Submit(j, way)
          PROVE  TypeOK'
      <3>1. jobs' \in Seq(Job) /\ Len(jobs') <= Cap
        BY <2>1, ChannelTypes DEF SenderStep, Send, SendPanics, Drop, GiveUp, Submit, TypeOK
      <3>2. sender' \in [Job -> Waiting \cup {"new", "queued", "rejected", "dropped",
                                              "canceled", "panic"}]
        BY <2>1 DEF SenderStep, Send, SendPanics, Drop, GiveUp, Submit, TypeOK
      <3> QED
        BY <2>1, <3>1, <3>2 DEF SenderStep, Send, SendPanics, Drop, GiveUp, Submit, TypeOK
    <2>2. ASSUME NEW w \in Worker, Take(w)
          PROVE  TypeOK'
      <3>1. Head(jobs) \in Job /\ jobs' \in Seq(Job) /\ Len(jobs') <= Cap
        BY <2>2, ChannelTypes DEF Take, TypeOK
      <3> QED
        BY <2>2, <3>1 DEF Take, TypeOK
    <2>3. ASSUME NEW w \in Worker, WorkerExit(w)
          PROVE  TypeOK'
      <3>1. [worker[w] EXCEPT !.phase = "exited"] \in WorkerState
        BY <2>3 DEF WorkerExit, TypeOK, WorkerState
      <3> QED
        BY <2>3, <3>1 DEF WorkerExit, TypeOK, WorkerState
    <2>4. ASSUME NEW w \in Worker, NEW result \in {"ok", "failed", "panic"},
                 ExecuteJob(w, result)
          PROVE  TypeOK'
      BY <2>4 DEF ExecuteJob, TypeOK, Idle
    <2>5. CASE Cancel \/ SetClosed \/ CloseJobs \/ WaitWorkers \/ WaitTimesOut
      BY <2>5 DEF Cancel, SetClosed, CloseJobs, WaitWorkers, WaitTimesOut, TypeOK
    <2>6. CASE UNCHANGED vars
      BY <2>6 DEF vars, TypeOK
    <2> QED
      BY <2>1, <2>2, <2>3, <2>4, <2>5, <2>6 DEF Next, WorkerStep, Terminated
  <1> QED
    BY <1>1, <1>2, PTL DEF Spec

-----------------------------------------------------------------------------
(* Shutdown *)

\* An accepted job is in the channel, with a worker or executed.
Accounted ==
    \A j \in Job : sender[j] = "queued" =>
        \/ \E i \in 1..Len(jobs) : jobs[i] = j
        \/ \E w \in Worker : worker[w].phase = "run" /\ worker[w].job = j
        \/ outcome[j] # "none"

\* A worker that left although its context was not done left a closed, empty channel
\* behind, and Shutdown waits for every worker.
Drained ==
    /\ \A w \in Worker : worker[w].phase = "exited" /\ ~canceled => chanClosed /\ jobs = << >>
    /\ shutdown = "done" => \A w \in Worker : worker[w].phase = "exited"

DrainInv == Accounted /\ Drained

\* The submission of a job accounts for it.
LEMMA SenderAccounted ==
    ASSUME TypeOK, DrainInv, NEW k \in Job,
           SenderStep(k) \/ \E way \in Waiting : Submit(k, way)
    PROVE  DrainInv'
  <1>1. CASE Send(k)
    <2>1. jobs \in Seq(Job) /\ jobs' = Append(jobs, k)
      BY <1>1 DEF Send, TypeOK
    <2>2. /\ Len(jobs) \in Nat /\ Len(jobs') = Len(jobs) + 1
          /\ \A i \in 1..Len(jobs) : jobs'[i] = jobs[i]
          /\ jobs'[Len(jobs) + 1] = k
      BY <2>1, AppendProperties
    <2>3. ASSUME NEW j \in Job, sender'[j] = "queued"
          PROVE  \/ \E i \in 1..Len(jobs') : jobs'[i] = j
                 \/ \E w \in Worker : worker'[w].phase = "run" /\ worker'[w].job = j
                 \/ outcome'[j] # "none"
      <3>1. CASE j = k
        BY <2>2, <3>1
      <3>2. CASE j # k
        <4>1. sender[j] = "queued"
          BY <1>1, <2>3, <3>2 DEF Send, TypeOK
        <4> QED
          BY <1>1, <2>2, <4>1 DEF Send, DrainInv, Accounted
      <3> QED
        BY <3>1, <3>2
    <2>4. Accounted'
      BY <2>3 DEF Accounted
    <2>5. Drained'
      BY <1>1 DEF Send, DrainInv, Drained
    <2> QED
      BY <2>4, <2>5 DEF DrainInv
  <1>2. CASE SendPanics(k) \/ Drop(k) \/ GiveUp(k) \/ \E way \in Waiting : Submit(k, way)
    <2>1. \A j \in Job : sender'[j] = "queued" => sender[j] = "queued"
      BY <1>2 DEF SendPanics, Drop, GiveUp, Submit, TypeOK, Waiting
    <2> QED
      BY <1>2, <2>1 DEF SendPanics, Drop, GiveUp, Submit, DrainInv, Accounted, Drained
  <1> QED
    BY <1>1, <1>2 DEF SenderStep

\* A worker that takes or executes a job keeps it accounted for, and one that leaves
\* does so when nothing is left, or when it is told to.
LEMMA WorkerAccounted ==
    ASSUME TypeOK, DrainInv, NEW v \in Worker, WorkerStep(v)
    PROVE  DrainInv'
  <1>0. /\ worker \in [Worker -> WorkerState]
        /\ worker[v].phase = "run" => worker[v].job \in Job
    BY WorkerShape
  <1>1. CASE Take(v)
    <2>1. jobs \in Seq(Job) /\ jobs # << >> /\ jobs' = Tail(jobs)
      BY <1>1 DEF Take, TypeOK
    <2>2. /\ Len(jobs) \in Nat /\ Len(jobs) >= 1 /\ Len(jobs') = Len(jobs) - 1
          /\ Head(jobs) = jobs[1]
          /\ \A i \in 1..(Len(jobs) - 1) : jobs'[i] = jobs[i + 1]
      BY <2>1, EmptySeq, HeadTailProperties
    <2>3. /\ worker'[v] = [phase |-> "run", job |-> Head(jobs)]
          /\ \A w \in Worker : w # v => worker'[w] = worker[w]
      BY <1>0, <1>1 DEF Take
    <2>4. ASSUME NEW j \in Job, sender[j] = "queued"
          PROVE  \/ \E i \in 1..Len(jobs') : jobs'[i] = j
                 \/ \E w \in Worker : worker'[w].phase = "run" /\ worker'[w].job = j
                 \/ outcome[j] # "none"
      <3>1. ASSUME NEW i \in 1..Len(jobs), jobs[i] = j
            PROVE  \/ \E k \in 1..Len(jobs') : jobs'[k] = j
                   \/ \E w \in Worker : worker'[w].phase = "run" /\ worker'[w].job = j
        <4>1. CASE i = 1
          BY <2>2, <2>3, <3>1, <4>1
        <4>2. CASE i # 1
          <5>1. i - 1 \in 1..Len(jobs') /\ jobs'[i - 1] = j
            BY <2>2, <3>1, <4>2
          <5> QED
            BY <5>1
        <4> QED
          BY <4>1, <4>2
      <3>2. ASSUME NEW w \in Worker, worker[w].phase = "run", worker[w].job = j
            PROVE  worker'[w].phase = "run" /\ worker'[w].job = j
        BY <1>1, <2>3, <3>2 DEF Take
      <3> QED
        BY <2>4, <3>1, <3>2 DEF DrainInv, Accounted
    <2>5. Accounted'
      BY <1>1, <2>4 DEF Take, Accounted
    <2>6. Drained'
      BY <1>1, <2>3, PoolAssumption DEF Take, DrainInv, Drained
    <2> QED
      BY <2>5, <2>6 DEF DrainInv
  <1>2. CASE WorkerExit(v)
    <2>1. /\ worker'[v].phase = "exited"
          /\ \A w \in Worker : w # v => worker'[w] = worker[w]
      BY <1>0, <1>2 DEF WorkerExit, WorkerState
    <2>2. Accounted'
      BY <1>2, <2>1 DEF WorkerExit, DrainInv, Accounted
    <2>3. Drained'
      BY <1>2, <2>1 DEF WorkerExit, DrainInv, Drained
    <2> QED
      BY <2>2, <2>3 DEF DrainInv
  <1>3. CASE \E result \in {"ok", "failed", "panic"} : ExecuteJob(v, result)
    <2>1. PICK result \in {"ok", "failed", "panic"} : ExecuteJob(v, result)
      BY <1>3
    <2>2. /\ worker'[v].phase = "idle"
          /\ \A w \in Worker : w # v => worker'[w] = worker[w]
      BY <1>0, <2>1 DEF ExecuteJob, Idle
    <2>3. /\ outcome'[worker[v].job] = result
          /\ \A j \in Job : j # worker[v].job => outcome'[j] = outcome[j]
      BY <1>0, <2>1 DEF ExecuteJob, TypeOK
    <2>4. ASSUME NEW j \in Job, sender[j] = "queued"
          PROVE  \/ \E i \in 1..Len(jobs) : jobs[i] = j
                 \/ \E w \in Worker : worker'[w].phase = "run" /\ worker'[w].job = j
                 \/ outcome'[j] # "none"
      <3>1. CASE j = worker[v].job
        BY <2>3, <3>1
      <3>2. CASE j # worker[v].job
        BY <2>2, <2>3, <2>4, <3>2 DEF DrainInv, Accounted
      <3> QED
        BY <3>1, <3>2
    <2>5. Accounted'
      BY <2>1, <2>4 DEF ExecuteJob, Accounted
    <2>6. Drained'
      BY <2>1, <2>2 DEF ExecuteJob, DrainInv, Drained
    <2> QED
      BY <2>5, <2>6 DEF DrainInv
  <1> QED
    BY <1>1, <1>2, <1>3 DEF WorkerStep

\* Both hold in every state.
LEMMA DrainInvariant == Spec => []DrainInv
  <1>1. Init => DrainInv
    BY DEF Init, DrainInv, Accounted, Drained, Idle
  <1>2. TypeOK /\ DrainInv /\ [Next]_vars => DrainInv'
    <2> SUFFICES ASSUME TypeOK, DrainInv, [Next]_vars
                 PROVE  DrainInv'
      OBVIOUS
    <2>1. CASE Cancel \/ SetClosed \/ CloseJobs \/ WaitWorkers \/ WaitTimesOut
      BY <2>1 DEF Cancel, SetClosed, CloseJobs, WaitWorkers, WaitTimesOut,
                  DrainInv, Accounted, Drained
    <2>2. CASE UNCHANGED vars
      BY <2>2 DEF vars, DrainInv, Accounted, Drained
    <2> QED
      BY <2>1, <2>2, SenderAccounted, WorkerAccounted DEF Next, Terminated
  <1> QED
    BY <1>1, <1>2, TypeCorrect, PTL DEF Spec

\* When Shutdown returns and nobody has cancelled the workers' context, every job
\* that was accepted has been executed.
THEOREM ShutdownExecutesAll == Spec => []ShutdownDrains
  <1>1. TypeOK /\ DrainInv => ShutdownDrains
    <2> SUFFICES ASSUME TypeOK, DrainInv, shutdown = "done", ~canceled,
                        NEW j \in Job, sender[j] = "queued"
                 PROVE  outcome[j] # "none"
      BY DEF ShutdownDrains
    <2>1. \A w \in Worker : worker[w].phase = "exited"
      BY DEF DrainInv, Drained
    <2>2. jobs = << >>
      BY <2>1, PoolAssumption DEF DrainInv, Drained
    <2> QED
      BY <2>1, <2>2 DEF DrainInv, Accounted
  <1> QED
    BY <1>1, TypeCorrect, DrainInvariant, PTL

-----------------------------------------------------------------------------
(* A job is in one place *)

Runs(w) == worker[w].phase = "run"

\* No job is twice in the channel or with two workers, none is in two of channel, worker
\* and outcome, and none is in any of them without having been accepted.
Placed ==
    /\ \A m, n \in 1..Len(jobs) : jobs[m] = jobs[n] => m = n
    /\ \A m \in 1..Len(jobs) :
         /\ sender[jobs[m]] = "queued" /\ outcome[jobs[m]] = "none"
         /\ \A w \in Worker : Runs(w) => worker[w].job # jobs[m]
    /\ \A v, w \in Worker : Runs(v) /\ Runs(w) /\ worker[v].job = worker[w].job => v = w
    /\ \A w \in Worker : Runs(w) => /\ sender[worker[w].job] = "queued"
                                    /\ outcome[worker[w].job] = "none"
    /\ \A j \in Job : outcome[j] # "none" => sender[j] = "queued"

\* A job enters the channel when it is accepted, before which it was nowhere.
LEMMA SenderPlaced ==
    ASSUME TypeOK, Placed, NEW k \in Job,
           SenderStep(k) \/ \E way \in Waiting : Submit(k, way)
    PROVE  Placed'
  <1>1. sender[k] # "queued" /\ UNCHANGED <<worker, outcome>>
    BY DEF SenderStep, Send, SendPanics, Drop, GiveUp, Submit, Waiting
  <1>2. /\ \A m \in 1..Len(jobs) : jobs[m] \in Job /\ jobs[m] # k
        /\ \A w \in Worker : Runs(w) => worker[w].job \in Job /\ worker[w].job # k
        /\ outcome[k] = "none"
    <2>1. jobs \in Seq(Job)
      BY DEF TypeOK
    <2>2. \A m \in 1..Len(jobs) : jobs[m] \in Job
      BY <2>1, ElementOfSeq
    <2>3. \A w \in Worker : Runs(w) => worker[w].job \in Job
      BY WorkerShape DEF Runs
    <2> QED
      BY <1>1, <2>2, <2>3 DEF Placed
  <1>3. sender \in [Job -> Waiting \cup {"new", "queued", "rejected", "dropped",
                                        "canceled", "panic"}]
    BY DEF TypeOK
  <1>4. \A j \in Job : j # k => sender'[j] = sender[j]
    BY <1>3 DEF SenderStep, Send, SendPanics, Drop, GiveUp, Submit
  <1>5. CASE Send(k)
    <2>1. jobs \in Seq(Job) /\ jobs' = Append(jobs, k)
      BY <1>5 DEF Send, TypeOK
    <2>2. /\ Len(jobs) \in Nat /\ Len(jobs') = Len(jobs) + 1
          /\ \A i \in 1..Len(jobs) : jobs'[i] = jobs[i]
          /\ jobs'[Len(jobs) + 1] = k
      BY <2>1, AppendProperties
    <2>3. sender'[k] = "queued"
      BY <1>3, <1>5 DEF Send
    <2>4. \A m \in 1..Len(jobs') : \/ m \in 1..Len(jobs) /\ jobs'[m] = jobs[m]
                                   \/ m = Len(jobs) + 1 /\ jobs'[m] = k
      BY <2>2
    <2>5. ASSUME NEW m \in 1..Len(jobs'), NEW n \in 1..Len(jobs'), jobs'[m] = jobs'[n]
          PROVE  m = n
      BY <1>2, <2>4, <2>5 DEF Placed
    <2>6. ASSUME NEW m \in 1..Len(jobs')
          PROVE  /\ sender'[jobs'[m]] = "queued" /\ outcome'[jobs'[m]] = "none"
                 /\ \A w \in Worker : Runs(w)' => worker'[w].job # jobs'[m]
      BY <1>1, <1>2, <1>4, <2>3, <2>4 DEF Placed, Runs
    <2>7. \A w \in Worker : Runs(w)' => /\ sender'[worker'[w].job] = "queued"
                                        /\ outcome'[worker'[w].job] = "none"
      BY <1>1, <1>2, <1>4 DEF Placed, Runs
    <2>8. \A j \in Job : outcome'[j] # "none" => sender'[j] = "queued"
      BY <1>1, <1>2, <1>4 DEF Placed
    <2>9. \A v, w \in Worker :
             Runs(v)' /\ Runs(w)' /\ worker'[v].job = worker'[w].job => v = w
      BY <1>1 DEF Placed, Runs
    <2> QED
      BY <2>5, <2>6, <2>7, <2>8, <2>9 DEF Placed
  <1>6. CASE ~Send(k)
    <2>1. jobs' = jobs
      BY <1>6 DEF SenderStep, SendPanics, Drop, GiveUp, Submit
    <2>2. \A m \in 1..Len(jobs) :
             /\ sender'[jobs[m]] = "queued" /\ outcome[jobs[m]] = "none"
             /\ \A w \in Worker : Runs(w) => worker[w].job # jobs[m]
      BY <1>2, <1>4 DEF Placed
    <2>3. \A w \in Worker : Runs(w) => /\ sender'[worker[w].job] = "queued"
                                       /\ outcome[worker[w].job] = "none"
      BY <1>2, <1>4 DEF Placed
    <2>4. \A j \in Job : outcome[j] # "none" => sender'[j] = "queued"
      BY <1>2, <1>4 DEF Placed
    <2> QED
      BY <1>1, <2>1, <2>2, <2>3, <2>4 DEF Placed, Runs
  <1> QED
    BY <1>5, <1>6

\* A job passes from the channel to one worker, and from the worker to its outcome.
LEMMA WorkerPlaced ==
    ASSUME TypeOK, Placed, NEW v \in Worker, WorkerStep(v)
    PROVE  Placed'
  <1>0. /\ worker \in [Worker -> WorkerState]
        /\ \A w \in Worker : Runs(w) => worker[w].job \in Job
        /\ sender' = sender
    BY WorkerShape DEF Runs, WorkerStep, Take, WorkerExit, ExecuteJob
  <1>1. CASE Take(v)
    <2>1. jobs \in Seq(Job) /\ jobs # << >> /\ jobs' = Tail(jobs) /\ outcome' = outcome
      BY <1>1 DEF Take, TypeOK
    <2>2. /\ Len(jobs) \in Nat /\ Len(jobs) >= 1 /\ Len(jobs') = Len(jobs) - 1
          /\ Head(jobs) = jobs[1]
          /\ \A i \in 1..(Len(jobs) - 1) : jobs'[i] = jobs[i + 1]
      BY <2>1, EmptySeq, HeadTailProperties
    <2>3. /\ Runs(v)' /\ worker'[v].job = jobs[1] /\ ~Runs(v)
          /\ \A w \in Worker : w # v => worker'[w] = worker[w] /\ (Runs(w)' <=> Runs(w))
      BY <1>0, <1>1, <2>2 DEF Take, Runs
    <2>4. \A m \in 1..Len(jobs') : /\ m + 1 \in 1..Len(jobs) /\ m + 1 # 1
                                   /\ jobs'[m] = jobs[m + 1]
      BY <2>2
    <2>5. 1 \in 1..Len(jobs)
      BY <2>2
    <2>6. ASSUME NEW m \in 1..Len(jobs'), NEW n \in 1..Len(jobs'), jobs'[m] = jobs'[n]
          PROVE  m = n
      <3>1. m + 1 = n + 1
        BY <2>4, <2>6 DEF Placed
      <3>2. m \in Int /\ n \in Int
        OBVIOUS
      <3> QED
        BY <3>1, <3>2
    <2>7. ASSUME NEW m \in 1..Len(jobs')
          PROVE  /\ sender[jobs'[m]] = "queued" /\ outcome[jobs'[m]] = "none"
                 /\ \A w \in Worker : Runs(w)' => worker'[w].job # jobs'[m]
      <3>1. jobs[m + 1] # jobs[1]
        BY <2>4, <2>5 DEF Placed
      <3>2. m + 1 \in 1..Len(jobs) /\ jobs'[m] = jobs[m + 1]
        BY <2>4
      <3>3. /\ sender[jobs[m + 1]] = "queued" /\ outcome[jobs[m + 1]] = "none"
            /\ \A w \in Worker : Runs(w) => worker[w].job # jobs[m + 1]
        BY <3>2 DEF Placed
      <3>4. ASSUME NEW w \in Worker, Runs(w)'
            PROVE  worker'[w].job # jobs[m + 1]
        <4>1. CASE w = v
          BY <2>3, <3>1, <4>1
        <4>2. CASE w # v
          BY <2>3, <3>3, <3>4, <4>2
        <4> QED
          BY <4>1, <4>2
      <3> QED
        BY <3>2, <3>3, <3>4
    <2>8. ASSUME NEW u \in Worker, NEW w \in Worker, Runs(u)', Runs(w)',
                 worker'[u].job = worker'[w].job
          PROVE  u = w
      BY <2>3, <2>5, <2>8 DEF Placed
    <2>9. ASSUME NEW w \in Worker, Runs(w)'
          PROVE  sender[worker'[w].job] = "queued" /\ outcome[worker'[w].job] = "none"
      BY <2>3, <2>5, <2>9 DEF Placed
    <2>10. \A j \in Job : outcome[j] # "none" => sender[j] = "queued"
      BY DEF Placed
    <2> QED
      BY <1>0, <2>1, <2>6, <2>7, <2>8, <2>9, <2>10 DEF Placed
  <1>2. CASE WorkerExit(v)
    <2>1. ~Runs(v)' /\ \A w \in Worker : w # v => worker'[w] = worker[w] /\ (Runs(w)' <=> Runs(w))
      BY <1>0, <1>2 DEF WorkerExit, WorkerState, Runs
    <2>2. UNCHANGED <<jobs, outcome>>
      BY <1>2 DEF WorkerExit
    <2> QED
      BY <1>0, <2>1, <2>2 DEF Placed
  <1>3. ASSUME NEW result \in {"ok", "failed", "panic"}, ExecuteJob(v, result)
        PROVE  Placed'
    <2>1. /\ ~Runs(v)' /\ Runs(v)
          /\ \A w \in Worker : w # v => worker'[w] = worker[w] /\ (Runs(w)' <=> Runs(w))
      BY <1>0, <1>3 DEF ExecuteJob, Idle, Runs
    <2>2. /\ jobs' = jobs
          /\ \A j \in Job : j # worker[v].job => outcome'[j] = outcome[j]
      BY <1>0, <1>3 DEF ExecuteJob, TypeOK, Runs
    <2>3. \A m \in 1..Len(jobs) : jobs[m] \in Job
      BY ElementOfSeq DEF TypeOK
    <2>4. ASSUME NEW m \in 1..Len(jobs)
          PROVE  /\ sender[jobs[m]] = "queued" /\ outcome'[jobs[m]] = "none"
                 /\ \A w \in Worker : Runs(w)' => worker'[w].job # jobs[m]
      BY <2>1, <2>2, <2>3 DEF Placed
    <2>5. ASSUME NEW u \in Worker, NEW w \in Worker, Runs(u)', Runs(w)',
                 worker'[u].job = worker'[w].job
          PROVE  u = w
      BY <2>1, <2>5 DEF Placed
    <2>6. ASSUME NEW w \in Worker, Runs(w)'
          PROVE  sender[worker'[w].job] = "queued" /\ outcome'[worker'[w].job] = "none"
      BY <1>0, <2>1, <2>2, <2>6 DEF Placed
    <2>7. \A j \in Job : outcome'[j] # "none" => sender[j] = "queued"
      BY <2>1, <2>2 DEF Placed
    <2>8. \A m, n \in 1..Len(jobs) : jobs[m] = jobs[n] => m = n
      BY DEF Placed
    <2> QED
      BY <1>0, <2>2, <2>4, <2>5, <2>6, <2>7, <2>8 DEF Placed
  <1> QED
    BY <1>1, <1>2, <1>3 DEF WorkerStep

\* A set with one element, and one with none.
LEMMA OneOrNone ==
    ASSUME NEW S, \A x, y \in S : x = y
    PROVE  Cardinality(S) = IF S = {} THEN 0 ELSE 1
  <1>1. CASE S = {}
    BY <1>1, FS_EmptySet
  <1>2. CASE S # {}
    <2>1. PICK x : S = {x}
      BY <1>2
    <2> QED
      BY <1>2, <2>1, FS_Singleton
  <1> QED
    BY <1>1, <1>2

\* A job that Enqueue accepted is executed once at most and never lost on the way: it is
\* once in the channel, with one worker, or executed, and any other job is nowhere.
THEOREM EachJobInOnePlace == Spec => []JobInOnePlace
  <1>1. Init => Placed
    <2> SUFFICES ASSUME Init
                 PROVE  Placed
      OBVIOUS
    <2>1. 1..Len(jobs) = {}
      BY DEF Init
    <2>2. \A w \in Worker : ~Runs(w)
      BY DEF Init, Runs, Idle
    <2>3. \A j \in Job : outcome[j] = "none"
      BY DEF Init
    <2> QED
      BY <2>1, <2>2, <2>3 DEF Placed
  <1>2. TypeOK /\ Placed /\ [Next]_vars => Placed'
    <2> SUFFICES ASSUME TypeOK, Placed, [Next]_vars
                 PROVE  Placed'
      OBVIOUS
    <2>1. CASE UNCHANGED <<jobs, sender, worker, outcome>>
      BY <2>1 DEF Placed, Runs
    <2>2. CASE Cancel \/ SetClosed \/ CloseJobs \/ WaitWorkers \/ WaitTimesOut \/ UNCHANGED vars
      BY <2>1, <2>2 DEF Cancel, SetClosed, CloseJobs, WaitWorkers, WaitTimesOut, vars
    <2> QED
      BY <2>2, SenderPlaced, WorkerPlaced DEF Next, Terminated
  <1>3. TypeOK /\ DrainInv /\ Placed => JobInOnePlace
    <2> SUFFICES ASSUME TypeOK, DrainInv, Placed, NEW j \in Job
                 PROVE  IF sender[j] = "queued"
                        THEN Cardinality(InChannel(j)) + Cardinality(RunBy(j))
                               + (IF outcome[j] = "none" THEN 0 ELSE 1) = 1
                        ELSE InChannel(j) = {} /\ RunBy(j) = {} /\ outcome[j] = "none"
      BY DEF JobInOnePlace
    <2>1. \A m, n \in InChannel(j) : m = n
      BY DEF InChannel, Placed
    <2>2. \A v, w \in RunBy(j) : v = w
      BY DEF RunBy, Placed, Runs
    <2>3. /\ InChannel(j) # {} => sender[j] = "queued" /\ outcome[j] = "none" /\ RunBy(j) = {}
          /\ RunBy(j) # {} => sender[j] = "queued" /\ outcome[j] = "none"
          /\ outcome[j] # "none" => sender[j] = "queued"
      BY DEF InChannel, RunBy, Placed, Runs
    <2>4. sender[j] = "queued" => InChannel(j) # {} \/ RunBy(j) # {} \/ outcome[j] # "none"
      BY DEF DrainInv, Accounted, InChannel, RunBy
    <2>5. /\ Cardinality(InChannel(j)) = IF InChannel(j) = {} THEN 0 ELSE 1
          /\ Cardinality(RunBy(j)) = IF RunBy(j) = {} THEN 0 ELSE 1
      BY <2>1, <2>2, OneOrNone
    <2> QED
      BY <2>3, <2>4, <2>5
  <1> QED
    BY <1>1, <1>2, <1>3, TypeCorrect, DrainInvariant, PTL DEF Spec
=============================================================================
