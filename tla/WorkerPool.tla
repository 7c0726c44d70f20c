----------------------------- MODULE WorkerPool -----------------------------
(***************************************************************************)
(* internal/pkg/queue: an in-memory job channel with a fixed pool of       *)
(* workers.  Each job is submitted once, by a goroutine of its own, with   *)
(* one of the three ways to enqueue; the owner may cancel the workers'     *)
(* context and may shut the pool down.                                     *)
(*                                                                         *)
(* A Go channel refuses to be sent on once it is closed: the sender        *)
(* panics, also one that was already blocked.  Receivers still get what is *)
(* buffered.  Where several cases of a select are ready, any may be taken. *)
(***************************************************************************)
EXTENDS Naturals, Sequences, FiniteSets

CONSTANTS Job,      \* the jobs submitted
          Worker,   \* the workers started
          Cap,      \* the capacity of the channel
          None,     \* no job
          Cancels   \* whether the workers' context may be cancelled

ASSUME PoolAssumption ==
    /\ Cap \in Nat \ {0} /\ Worker # {}
    /\ None \notin Job
    /\ Cancels \in BOOLEAN

VARIABLES jobs,       \* the channel's buffer
          chanClosed, \* close(q.jobs) has happened
          closed,     \* q.closed
          canceled,   \* the context given to Start is done
          sender,     \* how far the submission of each job is
          worker,     \* the phase of each worker and the job it executes
          outcome,    \* what became of each job
          shutdown    \* how far the call of ShutdownWithTimeout is

vars == <<jobs, chanClosed, closed, canceled, sender, worker, outcome, shutdown>>

\* A submission that has passed the check of q.closed, by the way it waits: not at
\* all, for ever (context.Background()), until the workers' context is done, or
\* until its own timeout.
Waiting == {"try", "block", "ctx", "timed"}

Idle == [phase |-> "idle", job |-> None]

TypeOK ==
    /\ jobs \in Seq(Job) /\ Len(jobs) <= Cap
    /\ chanClosed \in BOOLEAN /\ closed \in BOOLEAN /\ canceled \in BOOLEAN
    /\ sender \in [Job -> Waiting \cup {"new", "queued", "rejected", "dropped",
                                        "canceled", "panic"}]
    /\ worker \in [Worker -> [phase : {"idle", "exited"}, job : {None}]
                             \cup [phase : {"run"}, job : Job]]
    /\ outcome \in [Job -> {"none", "ok", "failed", "panic"}]
    /\ shutdown \in {"none", "close", "wait", "done", "timeout"}

Init ==
    /\ jobs = << >>
    /\ chanClosed = FALSE /\ closed = FALSE /\ canceled = FALSE
    /\ sender = [j \in Job |-> "new"]
    /\ worker = [w \in Worker |-> Idle]
    /\ outcome = [j \in Job |-> "none"]
    /\ shutdown = "none"

-----------------------------------------------------------------------------
(* Enqueue, EnqueueBlocking, EnqueueWithTimeout *)

\* The load of q.closed.
Submit(j, way) ==
    /\ sender[j] = "new"
    /\ sender' = [sender EXCEPT ![j] = IF closed THEN "rejected" ELSE way]
    /\ UNCHANGED <<jobs, chanClosed, closed, canceled, worker, outcome, shutdown>>

\* q.jobs <- job.
Send(j) ==
    /\ sender[j] \in Waiting
    /\ ~chanClosed
    /\ Len(jobs) < Cap
    /\ jobs' = Append(jobs, j)
    /\ sender' = [sender EXCEPT ![j] = "queued"]
    /\ UNCHANGED <<chanClosed, closed, canceled, worker, outcome, shutdown>>

\* The same on a closed channel.
SendPanics(j) ==
    /\ sender[j] \in Waiting
    /\ chanClosed
    /\ sender' = [sender EXCEPT ![j] = "panic"]
    /\ UNCHANGED <<jobs, chanClosed, closed, canceled, worker, outcome, shutdown>>

\* Enqueue's default case: the channel is full.
Drop(j) ==
    /\ sender[j] = "try"
    /\ ~chanClosed
    /\ Len(jobs) = Cap
    /\ sender' = [sender EXCEPT ![j] = "dropped"]
    /\ UNCHANGED <<jobs, chanClosed, closed, canceled, worker, outcome, shutdown>>

\* <-ctx.Done(): the caller's context, or the timeout of EnqueueWithTimeout.
GiveUp(j) ==
    /\ sender[j] = "timed" \/ (sender[j] = "ctx" /\ canceled)
    /\ sender' = [sender EXCEPT ![j] = "canceled"]
    /\ UNCHANGED <<jobs, chanClosed, closed, canceled, worker, outcome, shutdown>>

-----------------------------------------------------------------------------
(* worker, executeJob *)

Take(w) ==
    /\ worker[w].phase = "idle"
    /\ jobs # << >>
    /\ jobs' = Tail(jobs)
    /\ worker' = [worker EXCEPT ![w] = [phase |-> "run", job |-> Head(jobs)]]
    /\ UNCHANGED <<chanClosed, closed, canceled, sender, outcome, shutdown>>

\* Mutant: the worker leaves as soon as the channel is closed.
WorkerExitsOnClose(w) ==
    /\ worker[w].phase = "idle"
    /\ canceled \/ chanClosed
    /\ worker' = [worker EXCEPT ![w].phase = "exited"]
    /\ UNCHANGED <<jobs, chanClosed, closed, canceled, sender, outcome, shutdown>>

\* ctx.Done(), or the channel closed and drained.
WorkerExit(w) ==
    /\ worker[w].phase = "idle"
    /\ canceled \/ (chanClosed /\ jobs = << >>)
    /\ worker' = [worker EXCEPT ![w].phase = "exited"]
    /\ UNCHANGED <<jobs, chanClosed, closed, canceled, sender, outcome, shutdown>>

\* Mutant: a job that fails is put back in the channel.
ExecuteAndRetry(w, result) ==
    /\ worker[w].phase = "run"
    /\ outcome' = [outcome EXCEPT ![worker[w].job] = result]
    /\ worker' = [worker EXCEPT ![w] = Idle]
    /\ jobs' = IF result = "failed" /\ Len(jobs) < Cap /\ ~chanClosed
               THEN Append(jobs, worker[w].job) ELSE jobs
    /\ UNCHANGED <<chanClosed, closed, canceled, sender, shutdown>>

\* Mutant: the worker keeps hold of the job it has executed.
ExecuteKeepsJob(w, result) ==
    /\ worker[w].phase = "run"
    /\ outcome' = [outcome EXCEPT ![worker[w].job] = result]
    /\ worker' = [worker EXCEPT ![w].phase = "idle"]
    /\ UNCHANGED <<jobs, chanClosed, closed, canceled, sender, shutdown>>

\* executeJob returns: success, an error, or a panic that it has recovered.
ExecuteJob(w, result) ==
    /\ worker[w].phase = "run"
    /\ outcome' = [outcome EXCEPT ![worker[w].job] = result]
    /\ worker' = [worker EXCEPT ![w] = Idle]
    /\ UNCHANGED <<jobs, chanClosed, closed, canceled, sender, shutdown>>

-----------------------------------------------------------------------------
(* The owner *)

Cancel ==
    /\ Cancels
    /\ ~canceled
    /\ canceled' = TRUE
    /\ UNCHANGED <<jobs, chanClosed, closed, sender, worker, outcome, shutdown>>

\* Shutdown, ShutdownWithTimeout: q.closed first ...
SetClosed ==
    /\ shutdown = "none"
    /\ closed' = TRUE
    /\ shutdown' = "close"
    /\ UNCHANGED <<jobs, chanClosed, canceled, sender, worker, outcome>>

\* Mutant: the channel is left open.
CloseNothing ==
    /\ shutdown = "close"
    /\ shutdown' = "wait"
    /\ UNCHANGED <<jobs, chanClosed, closed, canceled, sender, worker, outcome>>

\* ... then close(q.jobs) ...
CloseJobs ==
    /\ shutdown = "close"
    /\ chanClosed' = TRUE
    /\ shutdown' = "wait"
    /\ UNCHANGED <<jobs, closed, canceled, sender, worker, outcome>>

\* ... then q.wg.Wait().
WaitWorkers ==
    /\ shutdown = "wait"
    /\ \A w \in Worker : worker[w].phase = "exited"
    /\ shutdown' = "done"
    /\ UNCHANGED <<jobs, chanClosed, closed, canceled, sender, worker, outcome>>

\* ShutdownWithTimeout gives up waiting.
WaitTimesOut ==
    /\ shutdown = "wait"
    /\ shutdown' = "timeout"
    /\ UNCHANGED <<jobs, chanClosed, closed, canceled, sender, worker, outcome>>

\* Owner and workers have returned: the only way for the pool to come to rest.
Terminated ==
    /\ shutdown \in {"done", "timeout"}
    /\ \A w \in Worker : worker[w].phase = "exited"
    /\ UNCHANGED vars

SenderStep(j) == Send(j) \/ SendPanics(j) \/ Drop(j) \/ GiveUp(j)

WorkerStep(w) ==
    \/ Take(w) \/ WorkerExit(w)
    \/ \E result \in {"ok", "failed", "panic"} : ExecuteJob(w, result)

Next ==
    \/ \E j \in Job : SenderStep(j) \/ \E way \in Waiting : Submit(j, way)
    \/ \E w \in Worker : WorkerStep(w)
    \/ Cancel \/ SetClosed \/ CloseJobs \/ WaitWorkers \/ WaitTimesOut
    \/ Terminated

Spec == Init /\ [][Next]_vars

\* Goroutines run, jobs return, a blocked sender is served in its turn, and the
\* owner, who shuts the pool down when its context is done (DispatchTasks), goes
\* through with it.
Fairness ==
    /\ \A j \in Job : SF_vars(SenderStep(j))
    /\ \A w \in Worker : WF_vars(WorkerStep(w))
    /\ WF_vars(canceled /\ SetClosed)
    /\ WF_vars(CloseJobs)
    /\ WF_vars(WaitWorkers)

FairSpec == Spec /\ Fairness

-----------------------------------------------------------------------------
(* Properties *)

InChannel(j) == {i \in 1..Len(jobs) : jobs[i] = j}

RunBy(j) == {w \in Worker : worker[w].phase = "run" /\ worker[w].job = j}

\* An accepted job is in exactly one place: once in the channel, with one worker, or
\* executed.  A job that was refused, dropped or given up is nowhere.
JobInOnePlace ==
    \A j \in Job :
        IF sender[j] = "queued"
        THEN Cardinality(InChannel(j)) + Cardinality(RunBy(j))
               + (IF outcome[j] = "none" THEN 0 ELSE 1) = 1
        ELSE InChannel(j) = {} /\ RunBy(j) = {} /\ outcome[j] = "none"

\* When the call of Shutdown returns after all workers have left, and nobody has
\* cancelled their context, every accepted job has been executed: none was accepted
\* between the closing of the channel and the workers' last look at it.
ShutdownDrains ==
    shutdown = "done" /\ ~canceled => \A j \in Job : sender[j] = "queued" => outcome[j] # "none"

\* Nobody waits for ever: a blocked sender, even one without a deadline, gets
\* through, gives up or is thrown out by the closing of the channel.
SendersReturn == \A j \in Job : sender[j] \in Waiting ~> sender[j] \notin Waiting

\* A shutdown that has begun ends.
ShutdownEnds == shutdown = "close" ~> shutdown \in {"done", "timeout"}
=============================================================================
