----------------------------- MODULE RedisQueue -----------------------------
(***************************************************************************)
(* The five Redis keys of internal/pkg/redisqueue and the commands and Lua *)
(* scripts the client runs on them.  Redis executes one command or one     *)
(* script at a time, so each of them is one action here; a client method   *)
(* that issues several of them is several actions of TaskPipeline.         *)
(*                                                                         *)
(* Lists are sequences with the head first: LPUSH adds at the head, RPOP   *)
(* takes from the tail.  A queue entry stands for the JSON text of a       *)
(* FetchRequest: its task id and its CreatedAt.  A time stamp is           *)
(* represented by its age, which Tick makes grow, saturated at MaxAge: the *)
(* code only ever compares now - stamp with a threshold.                   *)
(***************************************************************************)
EXTENDS Naturals, Sequences, SequencesExt

CONSTANTS Task,     \* the task ids
          MaxAge    \* ages saturate here; above every threshold in use

ASSUME MaxAgeAssumption == MaxAge \in Nat

VARIABLES tasks,       \* goodshunter:queue:tasks, a list of entries
          processing,  \* goodshunter:queue:tasks:processing, a list of entries
          results,     \* goodshunter:queue:results, a list of results, by task id
          pending,     \* goodshunter:queue:tasks:pending, the set of queued ids
          started      \* goodshunter:queue:tasks:started, a hash id -> time stamp

redisVars == <<tasks, processing, results, pending, started>>

Age   == 0..MaxAge
Entry == [task : Task, age : Age]
Hash  == UNION {[D -> Age] : D \in SUBSET Task}

\* The task ids with an entry in the list s.
Ids(s) == {s[i].task : i \in 1..Len(s)}

RedisTypeOK ==
    /\ tasks \in Seq(Entry)
    /\ processing \in Seq(Entry)
    /\ results \in Seq(Task)
    /\ pending \in SUBSET Task
    /\ started \in Hash

RedisInit ==
    /\ tasks = << >>
    /\ processing = << >>
    /\ results = << >>
    /\ pending = {}
    /\ started = [t \in {} |-> 0]

-----------------------------------------------------------------------------
(* Redis commands *)

LPush(s, e) == <<e>> \o s

LRem(s, e) == RemoveFirst(s, e)

RemTask(s, t) == RemoveFirstMatch(s, LAMBDA e : e.task = t)

HSet(h, t, v) == [x \in DOMAIN h \cup {t} |-> IF x = t THEN v ELSE h[x]]

HDel(h, t) == [x \in DOMAIN h \ {t} |-> h[x]]

-----------------------------------------------------------------------------
(* Client methods that are one command, and the Lua scripts *)

\* PushTask: SADD the id; only when it was not a member, LPUSH the entry.  An id
\* that is a member gives ErrTaskExists and changes nothing.
PushTaskScript(t) ==
    /\ t \notin pending
    /\ pending' = pending \cup {t}
    /\ tasks' = LPush(tasks, [task |-> t, age |-> 0])
    /\ UNCHANGED <<processing, results, started>>

\* Mutant: RPOP, which keeps no copy in processing.
RPopTask ==
    /\ tasks # << >>
    /\ tasks' = Front(tasks)
    /\ UNCHANGED <<processing, results, pending, started>>

\* PopTask, first command: BRPOPLPUSH moves the oldest entry to processing.
BRPopLPush ==
    /\ tasks # << >>
    /\ tasks' = Front(tasks)
    /\ processing' = LPush(processing, Last(tasks))
    /\ UNCHANGED <<results, pending, started>>

\* Mutant: HSETNX, which keeps an older start time.
HSetNXStarted(t) ==
    /\ started' = IF t \in DOMAIN started THEN started ELSE HSet(started, t, 0)
    /\ UNCHANGED <<tasks, processing, results, pending>>

\* PopTask, second command: HSET of the start time.
HSetStarted(t) ==
    /\ started' = HSet(started, t, 0)
    /\ UNCHANGED <<tasks, processing, results, pending>>

\* PushResult: LPUSH.  What the result says is the result handler's business.
LPushResult(t) ==
    /\ results' = LPush(results, t)
    /\ UNCHANGED <<tasks, processing, pending, started>>

\* PopResult: BRPOP.
BRPopResult ==
    /\ results # << >>
    /\ results' = Front(results)
    /\ UNCHANGED <<tasks, processing, pending, started>>

\* Mutant: the ack forgets the pending set.
AckKeepsPending(t) ==
    /\ processing' = RemTask(processing, t)
    /\ started' = HDel(started, t)
    /\ UNCHANGED <<tasks, results, pending>>

\* AckTask: remove the first processing entry of the task, whoever popped it, and
\* the id from the pending set and the started hash whether or not one was found.
AckTaskScript(t) ==
    /\ processing' = RemTask(processing, t)
    /\ pending' = pending \ {t}
    /\ started' = HDel(started, t)
    /\ UNCHANGED <<tasks, results>>

\* Mutant: the rescue forgets to push the entry back.
RescueDropsEntry(e) ==
    /\ processing' = LRem(processing, e)
    /\ started' = HDel(started, e.task)
    /\ UNCHANGED <<tasks, results, pending>>

\* rescueScript: LREM the entry; only when one was removed, LPUSH it back and
\* HDEL its start time.
RescueScript(e) ==
    /\ \/ /\ \E i \in 1..Len(processing) : processing[i] = e
          /\ processing' = LRem(processing, e)
          /\ tasks' = LPush(tasks, e)
          /\ started' = HDel(started, e.task)
       \/ /\ \A i \in 1..Len(processing) : processing[i] # e
          /\ UNCHANGED <<processing, tasks, started>>
    /\ UNCHANGED <<results, pending>>

\* RescueStuckTasks, when processing is empty: HDEL of one id of the snapshot.
HDelStarted(t) ==
    /\ started' = HDel(started, t)
    /\ UNCHANGED <<tasks, processing, results, pending>>

\* RemoveFromPendingSet: SREM.
SRemPending(t) ==
    /\ pending' = pending \ {t}
    /\ UNCHANGED <<tasks, processing, results, started>>

-----------------------------------------------------------------------------
(* Time *)

Older(a) == IF a < MaxAge THEN a + 1 ELSE MaxAge

OlderEntries(s) == [i \in 1..Len(s) |-> [s[i] EXCEPT !.age = Older(@)]]

\* One unit of time passes: every stamp kept in Redis is that much older.
AgeRedis ==
    /\ tasks' = OlderEntries(tasks)
    /\ processing' = OlderEntries(processing)
    /\ started' = [t \in DOMAIN started |-> Older(started[t])]
    /\ UNCHANGED <<results, pending>>
=============================================================================
