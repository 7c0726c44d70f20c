------------------------- MODULE TaskPipelineProofs -------------------------
(***************************************************************************)
(* What TLAPS proves of TaskPipeline, for any numbers of tasks, crawlers,  *)
(* slots, janitors and failures.                                           *)
(***************************************************************************)
EXTENDS TaskPipeline, SequenceTheorems, WellFoundedInduction, TLAPS

-----------------------------------------------------------------------------
(* Lists of entries *)

\* A nonempty set of positions has a least one: what LREM and the ack script find.
LEMMA LeastPosition ==
    ASSUME NEW n \in Nat, NEW I \in SUBSET (1..n), I # {}
    PROVE  Min(I) \in I
  <1> DEFINE Less == {p \in Nat \X Nat : p[1] < p[2]}
  <1>1. IsWellFoundedOn(Less, Nat)
    BY NatLessThanWellFounded, Zenon DEF OpToRel
  <1>2. PICK x \in I : \A y \in I : ~(<<y, x>> \in Less)
    <2>1. I \subseteq Nat
      OBVIOUS
    <2> HIDE DEF Less
    <2> QED
      BY <1>1, <2>1, WFMin
  <1>3. ASSUME NEW y \in I
        PROVE  x <= y
    <2>1. x \in Nat /\ y \in Nat
      OBVIOUS
    <2>2. ~(y < x)
      BY <1>2, <2>1
    <2> QED
      BY <2>1, <2>2
  <1> QED
    BY <1>3 DEF Min

\* LPUSH adds one id.
LEMMA LPushIds ==
    ASSUME NEW s \in Seq(Entry), NEW e \in Entry
    PROVE  /\ LPush(s, e) \in Seq(Entry)
           /\ Ids(LPush(s, e)) = Ids(s) \cup {e.task}
  <1>1. LPush(s, e) \in Seq(Entry)
    BY DEF LPush
  <1>2. /\ Len(LPush(s, e)) = Len(s) + 1
        /\ LPush(s, e)[1] = e
        /\ \A i \in 1..Len(s) : LPush(s, e)[i + 1] = s[i]
        /\ \A i \in 1..(Len(s) + 1) : i # 1 => LPush(s, e)[i] = s[i - 1] /\ i - 1 \in 1..Len(s)
    BY DEF LPush
  <1>3. Len(s) \in Nat
    OBVIOUS
  <1>4. Ids(LPush(s, e)) \subseteq Ids(s) \cup {e.task}
    BY <1>2, <1>3 DEF Ids
  <1>5. e.task \in Ids(LPush(s, e))
    BY <1>2, <1>3 DEF Ids
  <1>6. ASSUME NEW i \in 1..Len(s)
        PROVE  s[i].task \in Ids(LPush(s, e))
    <2>1. i + 1 \in 1..Len(LPush(s, e)) /\ LPush(s, e)[i + 1] = s[i]
      BY <1>2, <1>3
    <2> QED
      BY <2>1 DEF Ids
  <1> QED
    BY <1>1, <1>4, <1>5, <1>6 DEF Ids

\* RPOP removes the last entry and nothing else.
LEMMA PopIds ==
    ASSUME NEW s \in Seq(Entry), s # << >>
    PROVE  /\ Front(s) \in Seq(Entry)
           /\ Last(s) \in Entry
           /\ Ids(s) = Ids(Front(s)) \cup {Last(s).task}
  <1>1. Len(s) \in Nat /\ Len(s) > 0
    BY EmptySeq
  <1>2. /\ Front(s) \in Seq(Entry)
        /\ Len(Front(s)) = Len(s) - 1
        /\ \A i \in 1..(Len(s) - 1) : Front(s)[i] = s[i]
    BY <1>1 DEF Front
  <1>3. Last(s) \in Entry
    BY <1>1, ElementOfSeq DEF Last
  <1>4. \A i \in 1..Len(s) : i \in 1..(Len(s) - 1) \/ i = Len(s)
    BY <1>1
  <1> QED
    BY <1>1, <1>2, <1>3, <1>4 DEF Ids, Last

\* Removing one position removes at most the id found there.
LEMMA RemoveAtIds ==
    ASSUME NEW s \in Seq(Entry), NEW i \in 1..Len(s)
    PROVE  /\ RemoveAt(s, i) \in Seq(Entry)
           /\ s[i] \in Entry
           /\ Ids(s) = Ids(RemoveAt(s, i)) \cup {s[i].task}
  <1> DEFINE r == RemoveAt(s, i)
  <1>1. Len(s) \in Nat /\ i \in Nat /\ i >= 1 /\ i <= Len(s)
    OBVIOUS
  <1>2. s[i] \in Entry
    BY ElementOfSeq
  <1>3. PICK a, b \in Seq(Entry) :
           /\ r = a \o b
           /\ Len(a) = i - 1 /\ Len(b) = Len(s) - i
           /\ \A k \in 1..(i - 1) : a[k] = s[k]
           /\ \A k \in 1..(Len(s) - i) : b[k] = s[i + k]
    <2>1. /\ SubSeq(s, 1, i - 1) \in Seq(Entry)
          /\ SubSeq(s, i + 1, Len(s)) \in Seq(Entry)
          /\ Len(SubSeq(s, 1, i - 1)) = i - 1
          /\ Len(SubSeq(s, i + 1, Len(s))) = Len(s) - i
          /\ \A k \in 1..(i - 1) : SubSeq(s, 1, i - 1)[k] = s[k]
          /\ \A k \in 1..(Len(s) - i) : SubSeq(s, i + 1, Len(s))[k] = s[i + k]
      BY <1>1, SMTT(30)
    <2>2. r = SubSeq(s, 1, i - 1) \o SubSeq(s, i + 1, Len(s))
      BY DEF RemoveAt
    <2> QED
      BY <2>1, <2>2
  <1>4. /\ r \in Seq(Entry)
        /\ Len(r) = Len(s) - 1
        /\ \A k \in 1..(Len(s) - 1) : r[k] = IF k < i THEN s[k] ELSE s[k + 1]
    <2> HIDE DEF r
    <2>1. /\ r \in Seq(Entry)
          /\ Len(r) = Len(a) + Len(b)
          /\ \A k \in 1..(Len(a) + Len(b)) :
               r[k] = IF k <= Len(a) THEN a[k] ELSE b[k - Len(a)]
      BY <1>3, ConcatProperties
    <2>2. Len(r) = Len(s) - 1
      BY <1>1, <1>3, <2>1
    <2>3. ASSUME NEW k \in 1..(Len(s) - 1)
          PROVE  r[k] = IF k < i THEN s[k] ELSE s[k + 1]
      <3>1. CASE k < i
        BY <1>1, <1>3, <2>1, <3>1
      <3>2. CASE ~(k < i)
        <4>1. k - (i - 1) \in 1..(Len(s) - i) /\ i + (k - (i - 1)) = k + 1
          BY <1>1, <3>2
        <4>2. r[k] = b[k - (i - 1)]
          BY <1>1, <1>3, <2>1, <3>2
        <4> QED
          BY <1>3, <3>2, <4>1, <4>2
      <3> QED
        BY <3>1, <3>2
    <2> QED
      BY <2>1, <2>2, <2>3
  <1>5. Ids(r) \subseteq Ids(s)
    <2> SUFFICES ASSUME NEW k \in 1..(Len(s) - 1)
                 PROVE  r[k].task \in Ids(s)
      BY <1>4 DEF Ids
    <2>1. CASE k < i
      BY <1>1, <1>4, <2>1 DEF Ids
    <2>2. CASE ~(k < i)
      <3>1. k + 1 \in 1..Len(s) /\ r[k] = s[k + 1]
        BY <1>1, <1>4, <2>2
      <3> QED
        BY <3>1 DEF Ids
    <2> QED
      BY <2>1, <2>2
  <1>6. ASSUME NEW k \in 1..Len(s), k # i
        PROVE  s[k].task \in Ids(r)
    <2>1. CASE k < i
      <3>1. k \in 1..Len(r) /\ r[k] = s[k]
        BY <1>1, <1>4, <2>1
      <3> QED
        BY <3>1 DEF Ids
    <2>2. CASE k > i
      <3>1. k - 1 \in 1..Len(r) /\ r[k - 1] = s[k]
        BY <1>1, <1>4, <2>2
      <3> QED
        BY <3>1 DEF Ids
    <2> QED
      BY <1>1, <1>6, <2>1, <2>2
  <1>7. s[i].task \in Ids(s)
    BY DEF Ids
  <1>8. Ids(s) \subseteq Ids(r) \cup {s[i].task}
    BY <1>6 DEF Ids
  <1> QED
    BY <1>2, <1>4, <1>5, <1>7, <1>8

\* LREM of an entry that is there.
LEMMA LRemIds ==
    ASSUME NEW s \in Seq(Entry), NEW e, \E i \in 1..Len(s) : s[i] = e
    PROVE  /\ LRem(s, e) \in Seq(Entry)
           /\ e \in Entry
           /\ Ids(s) = Ids(LRem(s, e)) \cup {e.task}
  <1> DEFINE I == {i \in 1..Len(s) : s[i] = e}
  <1>1. Len(s) \in Nat /\ I \in SUBSET (1..Len(s)) /\ I # {}
    OBVIOUS
  <1>2. Min(I) \in I
    BY <1>1, LeastPosition
  <1>3. LRem(s, e) = RemoveAt(s, Min(I))
    BY <1>1 DEF LRem, RemoveFirst, SelectInSeq
  <1>4. PICK m \in 1..Len(s) : s[m] = e /\ LRem(s, e) = RemoveAt(s, m)
    BY <1>2, <1>3
  <1> QED
    BY <1>4, RemoveAtIds

\* The ack script takes at most one id out of a list: the acknowledged one.
LEMMA AckIds ==
    ASSUME NEW s \in Seq(Entry), NEW t
    PROVE  /\ RemTask(s, t) \in Seq(Entry)
           /\ Ids(RemTask(s, t)) \subseteq Ids(s)
           /\ Ids(s) \subseteq Ids(RemTask(s, t)) \cup {t}
  <1> DEFINE I == {i \in 1..Len(s) : s[i].task = t}
  <1>1. CASE I = {}
    BY <1>1 DEF RemTask, RemoveFirstMatch
  <1>2. CASE I # {}
    <2>1. Len(s) \in Nat /\ I \in SUBSET (1..Len(s))
      OBVIOUS
    <2>2. Min(I) \in I
      BY <1>2, <2>1, LeastPosition
    <2>3. RemTask(s, t) = RemoveAt(s, Min(I))
      BY <1>2 DEF RemTask, RemoveFirstMatch, SelectInSeq
    <2>4. PICK m \in 1..Len(s) : s[m].task = t /\ RemTask(s, t) = RemoveAt(s, m)
      BY <2>2, <2>3
    <2> QED
      BY <2>4, RemoveAtIds
  <1> QED
    BY <1>1, <1>2

\* Entries grow older and keep their ids.
LEMMA OlderIds ==
    ASSUME NEW s \in Seq(Entry)
    PROVE  OlderEntries(s) \in Seq(Entry) /\ Ids(OlderEntries(s)) = Ids(s)
  <1>1. \A a \in Age : Older(a) \in Age
    BY MaxAgeAssumption DEF Age, Older
  <1>2. \A i \in 1..Len(s) : s[i] \in Entry
    BY ElementOfSeq
  <1>3. \A i \in 1..Len(s) : [s[i] EXCEPT !.age = Older(@)] \in Entry
    BY <1>1, <1>2 DEF Entry
  <1>4. OlderEntries(s) \in Seq(Entry) /\ Len(OlderEntries(s)) = Len(s)
    BY <1>3, IsASeq, LenProperties DEF OlderEntries
  <1>5. \A i \in 1..Len(s) : OlderEntries(s)[i].task = s[i].task
    BY <1>2 DEF OlderEntries, Entry
  <1> QED
    BY <1>4, <1>5 DEF Ids

-----------------------------------------------------------------------------
(* The started hash *)

\* HSET, HDEL and the ageing of a hash give a hash of start times again.
LEMMA HashType ==
    ASSUME NEW h \in Hash
    PROVE  /\ DOMAIN h \subseteq Task
           /\ \A t \in DOMAIN h : h[t] \in Age
           /\ \A t \in Task : HSet(h, t, 0) \in Hash
           /\ \A t : HDel(h, t) \in Hash
           /\ [t \in DOMAIN h |-> Older(h[t])] \in Hash
  <1>1. PICK D \in SUBSET Task : h \in [D -> Age]
    BY DEF Hash
  <1>2. 0 \in Age /\ \A a \in Age : Older(a) \in Age
    BY MaxAgeAssumption DEF Age, Older
  <1>3. ASSUME NEW t \in Task
        PROVE  HSet(h, t, 0) \in Hash
    <2>1. HSet(h, t, 0) \in [D \cup {t} -> Age]
      BY <1>1, <1>2 DEF HSet
    <2> QED
      BY <2>1 DEF Hash
  <1>4. ASSUME NEW t
        PROVE  HDel(h, t) \in Hash
    <2>1. HDel(h, t) \in [D \ {t} -> Age]
      BY <1>1 DEF HDel
    <2>2. D \ {t} \in SUBSET Task
      OBVIOUS
    <2> QED
      BY <2>1, <2>2 DEF Hash
  <1>5. [t \in DOMAIN h |-> Older(h[t])] \in Hash
    <2>1. [t \in DOMAIN h |-> Older(h[t])] \in [D -> Age]
      BY <1>1, <1>2
    <2> QED
      BY <2>1 DEF Hash
  <1> QED
    BY <1>1, <1>3, <1>4, <1>5

-----------------------------------------------------------------------------
(* The effect of each Redis command on the set of live tasks *)

\* PushTask: one more id in the task list and in the pending set.
LEMMA PushEffect ==
    ASSUME RedisTypeOK, NEW t \in Task, PushTaskScript(t)
    PROVE  RedisTypeOK' /\ Live' = Live \cup {t}
  <1>1. [task |-> t, age |-> 0] \in Entry
    BY MaxAgeAssumption DEF Entry, Age
  <1>2. tasks' \in Seq(Entry) /\ Ids(tasks') = Ids(tasks) \cup {t}
    BY <1>1, LPushIds DEF RedisTypeOK, PushTaskScript
  <1> QED
    BY <1>2 DEF RedisTypeOK, PushTaskScript, Live

\* BRPOPLPUSH: the popped entry changes lists, no id appears or disappears.
LEMMA PopEffect ==
    ASSUME RedisTypeOK, BRPopLPush
    PROVE  RedisTypeOK' /\ Live' = Live /\ pending' = pending /\ Last(tasks).task \in Task
  <1>1. /\ tasks' \in Seq(Entry)
        /\ Last(tasks) \in Entry
        /\ Ids(tasks) = Ids(tasks') \cup {Last(tasks).task}
    BY PopIds DEF RedisTypeOK, BRPopLPush
  <1>2. /\ processing' \in Seq(Entry)
        /\ Ids(processing') = Ids(processing) \cup {Last(tasks).task}
    BY <1>1, LPushIds DEF RedisTypeOK, BRPopLPush
  <1> QED
    BY <1>1, <1>2 DEF RedisTypeOK, BRPopLPush, Live, Entry

\* AckTask: the pending set loses the id, the two lists at most lose it.
LEMMA AckEffect ==
    ASSUME RedisTypeOK, NEW t \in Task, AckTaskScript(t)
    PROVE  /\ RedisTypeOK'
           /\ pending' = pending \ {t}
           /\ Live' = Live \/ Live' = Live \ {t}
  <1>1. /\ processing' \in Seq(Entry)
        /\ Ids(processing') \subseteq Ids(processing)
        /\ Ids(processing) \subseteq Ids(processing') \cup {t}
    BY AckIds DEF RedisTypeOK, AckTaskScript
  <1>2. started' \in Hash
    BY HashType DEF RedisTypeOK, AckTaskScript
  <1> QED
    BY <1>1, <1>2 DEF RedisTypeOK, AckTaskScript, Live

\* The rescue script moves an entry between the lists or does nothing.
LEMMA RescueEffect ==
    ASSUME RedisTypeOK, NEW e, RescueScript(e)
    PROVE  RedisTypeOK' /\ Live' = Live /\ pending' = pending
  <1>1. CASE \E i \in 1..Len(processing) : processing[i] = e
    <2>1. /\ processing' = LRem(processing, e)
          /\ tasks' = LPush(tasks, e)
          /\ started' = HDel(started, e.task)
      BY <1>1 DEF RescueScript
    <2>2. /\ processing' \in Seq(Entry)
          /\ e \in Entry
          /\ Ids(processing) = Ids(processing') \cup {e.task}
      BY <1>1, <2>1, LRemIds DEF RedisTypeOK
    <2>3. tasks' \in Seq(Entry) /\ Ids(tasks') = Ids(tasks) \cup {e.task}
      BY <2>1, <2>2, LPushIds DEF RedisTypeOK
    <2>4. started' \in Hash
      BY <2>1, HashType DEF RedisTypeOK
    <2> QED
      BY <2>2, <2>3, <2>4 DEF RedisTypeOK, RescueScript, Live
  <1>2. CASE ~\E i \in 1..Len(processing) : processing[i] = e
    BY <1>2 DEF RedisTypeOK, RescueScript, Live
  <1> QED
    BY <1>1, <1>2

\* Time changes no id in either list.
LEMMA AgeEffect ==
    ASSUME RedisTypeOK, AgeRedis
    PROVE  RedisTypeOK' /\ Live' = Live /\ pending' = pending
  <1>1. /\ tasks' \in Seq(Entry) /\ Ids(tasks') = Ids(tasks)
        /\ processing' \in Seq(Entry) /\ Ids(processing') = Ids(processing)
    BY OlderIds DEF RedisTypeOK, AgeRedis
  <1>2. started' \in Hash
    BY HashType DEF RedisTypeOK, AgeRedis
  <1> QED
    BY <1>1, <1>2 DEF RedisTypeOK, AgeRedis, Live

\* The commands that touch neither task list nor the pending set.
LEMMA OtherEffect ==
    ASSUME RedisTypeOK,
           \/ \E t \in Task : HSetStarted(t) \/ HDelStarted(t) \/ LPushResult(t)
           \/ BRPopResult
           \/ UNCHANGED redisVars
    PROVE  RedisTypeOK' /\ Live' = Live /\ pending' = pending
  <1>1. CASE UNCHANGED redisVars
    BY <1>1 DEF RedisTypeOK, redisVars, Live
  <1>2. CASE BRPopResult
    <2>1. results' \in Seq(Task)
      BY <1>2, EmptySeq DEF RedisTypeOK, BRPopResult, Front
    <2> QED
      BY <1>2, <2>1 DEF RedisTypeOK, BRPopResult, Live
  <1>3. ASSUME NEW t \in Task, HSetStarted(t) \/ HDelStarted(t)
        PROVE  RedisTypeOK' /\ Live' = Live /\ pending' = pending
    BY <1>3, HashType DEF RedisTypeOK, HSetStarted, HDelStarted, Live
  <1>4. ASSUME NEW t \in Task, LPushResult(t)
        PROVE  RedisTypeOK' /\ Live' = Live /\ pending' = pending
    BY <1>4 DEF RedisTypeOK, LPushResult, LPush, Live
  <1> QED
    BY <1>1, <1>2, <1>3, <1>4

-----------------------------------------------------------------------------
(* One step of the pipeline *)

\* An idle slot, an idle scan and the start of a scan have their types.
LEMMA IdleTypes ==
    /\ IdleSlot \in SlotState
    /\ IdleScan \in ScanState
    /\ RedisTypeOK => ReadStarted \in ScanState
  <1>1. 0 \in Age
    BY MaxAgeAssumption DEF Age
  <1>2. [t \in {} |-> 0] \in Hash
    <2>1. [t \in {} |-> 0] \in [{} -> Age]
      OBVIOUS
    <2> QED
      BY <2>1 DEF Hash
  <1>3. IdleScan \in ScanState
    BY <1>1, <1>2 DEF IdleScan, ScanState
  <1> QED
    BY <1>1, <1>3 DEF IdleSlot, SlotState, ReadStarted, RedisTypeOK, IdleScan, ScanState

\* An active slot works on a task.
LEMMA BusySlot ==
    ASSUME TypeOK, NEW s \in Slot, slot[s].phase # "idle"
    PROVE  /\ slot[s].task \in Task
           /\ slot[s] \in [phase : {"stamp", "fetch", "push", "ack"},
                           task : Task, age : Age, stamped : BOOLEAN,
                           completed : BOOLEAN]
  BY DEF TypeOK, SlotState, IdleSlot

\* A step of a slot keeps the types and refines a step of the abstract queue.
LEMMA SlotStepOK ==
    ASSUME TypeOK, NEW s \in Slot, SlotStep(s)
    PROVE  TypeOK' /\ [Queue!Next]_<<pending, Live>>
  <1> USE IdleTypes
  <1>1. RedisTypeOK /\ 0 \in Age
    BY MaxAgeAssumption DEF TypeOK, Age
  <1>2. CASE PopTask(s)
    <2>1. RedisTypeOK' /\ Live' = Live /\ pending' = pending /\ Last(tasks).task \in Task
      BY <1>1, <1>2, PopEffect DEF PopTask
    <2>2. [IdleSlot EXCEPT !.phase = "stamp", !.task = Last(tasks).task] \in SlotState
      BY <1>1, <2>1 DEF IdleSlot, SlotState
    <2> QED
      BY <1>2, <2>1, <2>2 DEF PopTask, TypeOK
  <1>3. CASE StampStarted(s)
    <2>1. slot[s].phase # "idle"
      BY <1>3 DEF StampStarted
    <2>2. RedisTypeOK' /\ Live' = Live /\ pending' = pending
      BY <1>1, <1>3, <2>1, BusySlot, OtherEffect DEF StampStarted
    <2>3. \A ok \in BOOLEAN :
            [slot[s] EXCEPT !.phase = "fetch", !.age = 0, !.stamped = ok] \in SlotState
      BY <1>1, <2>1, BusySlot DEF SlotState
    <2>4. slot' \in [Slot -> SlotState]
      BY <1>3, <2>3 DEF StampStarted, TypeOK
    <2>5. faults' \in 0..MaxFaults
      BY <1>3, PipelineAssumption DEF StampStarted, Fail, TypeOK
    <2> QED
      BY <1>3, <2>2, <2>4, <2>5 DEF StampStarted, TypeOK
  <1>4. CASE FetchDone(s)
    <2>1. slot[s].phase # "idle"
      BY <1>4 DEF FetchDone
    <2>2. RedisTypeOK' /\ Live' = Live /\ pending' = pending
      BY <1>1, <1>4, OtherEffect DEF FetchDone
    <2>3. [slot[s] EXCEPT !.phase = "push", !.completed = TRUE] \in SlotState
      BY <2>1, BusySlot DEF SlotState
    <2> QED
      BY <1>4, <2>2, <2>3 DEF FetchDone, TypeOK
  <1>5. CASE FetchTimeout(s)
    <2>1. slot[s].phase # "idle"
      BY <1>5 DEF FetchTimeout
    <2>2. RedisTypeOK' /\ Live' = Live /\ pending' = pending
      BY <1>1, <1>5, OtherEffect DEF FetchTimeout
    <2>3. [slot[s] EXCEPT !.phase = "push"] \in SlotState
      BY <2>1, BusySlot DEF SlotState
    <2>4. faults' \in 0..MaxFaults
      BY <1>5, PipelineAssumption DEF FetchTimeout, Fail, TypeOK
    <2> QED
      BY <1>5, <2>2, <2>3, <2>4 DEF FetchTimeout, TypeOK
  <1>6. CASE PushResult(s)
    <2>1. slot[s].phase # "idle"
      BY <1>6 DEF PushResult
    <2>2. RedisTypeOK' /\ Live' = Live /\ pending' = pending
      BY <1>1, <1>6, <2>1, BusySlot, OtherEffect DEF PushResult
    <2>3. [slot[s] EXCEPT !.phase = "ack"] \in SlotState
      BY <2>1, BusySlot DEF SlotState
    <2>4. faults' \in 0..MaxFaults
      BY <1>6, PipelineAssumption DEF PushResult, Fail, TypeOK
    <2> QED
      BY <1>6, <2>2, <2>3, <2>4 DEF PushResult, TypeOK
  <1>7. CASE AckTask(s)
    <2>1. slot[s].task \in Task
      BY <1>7, BusySlot DEF AckTask
    <2>2. faults' \in 0..MaxFaults
      BY <1>7, PipelineAssumption DEF AckTask, Fail, TypeOK
    <2>3. RedisTypeOK' /\ [Queue!Next]_<<pending, Live>>
      <3>1. CASE AckTaskScript(slot[s].task)
        BY <1>1, <2>1, <3>1, AckEffect DEF Queue!Next, Queue!Settle
      <3>2. CASE UNCHANGED redisVars
        BY <1>1, <3>2, OtherEffect
      <3> QED
        BY <1>7, <3>1, <3>2 DEF AckTask
    <2> QED
      BY <1>7, <2>2, <2>3 DEF AckTask, TypeOK
  <1> QED
    BY <1>2, <1>3, <1>4, <1>5, <1>6, <1>7 DEF SlotStep

\* So does a step of RescueStuckTasks.
LEMMA ScanStepOK ==
    ASSUME TypeOK, NEW j \in Janitor, ScanStep(j)
    PROVE  TypeOK' /\ [Queue!Next]_<<pending, Live>>
  <1> USE IdleTypes
  <1>1. RedisTypeOK /\ scan[j] \in ScanState
    BY DEF TypeOK
  <1>2. CASE StartScan(j)
    <2>1. RedisTypeOK' /\ Live' = Live /\ pending' = pending
      BY <1>1, <1>2, OtherEffect DEF StartScan
    <2> QED
      BY <1>1, <1>2, <2>1 DEF StartScan, TypeOK
  <1>3. CASE ReadProcessing(j)
    <2> DEFINE late == {i \in 1..Len(processing) :
                          Overdue(processing[i], scan[j].snap, Threshold(j))}
    <2>1. RedisTypeOK' /\ Live' = Live /\ pending' = pending
      BY <1>1, <1>3, OtherEffect DEF ReadProcessing
    <2>2. late \in SUBSET Nat
      OBVIOUS
    <2>3. DOMAIN scan[j].snap \in SUBSET Task
      BY <1>1, HashType DEF ScanState
    <2>4. /\ [scan[j] EXCEPT !.phase = "orphans", !.ids = DOMAIN scan[j].snap] \in ScanState
          /\ [scan[j] EXCEPT !.phase = "rescue", !.raw = processing, !.todo = late]
               \in ScanState
      BY <1>1, <2>2, <2>3 DEF ScanState, RedisTypeOK
    <2> HIDE DEF late
    <2>5. scan' \in [Janitor -> ScanState]
      BY <1>3, <2>4 DEF ReadProcessing, TypeOK, late
    <2> QED
      BY <1>3, <2>1, <2>5 DEF ReadProcessing, TypeOK
  <1>4. CASE RescueTask(j)
    <2>1. RedisTypeOK' /\ Live' = Live /\ pending' = pending
      BY <1>1, <1>4, RescueEffect, OtherEffect DEF RescueTask
    <2>2. \A i : [scan[j] EXCEPT !.todo = @ \ {i}] \in ScanState
      BY <1>1 DEF ScanState
    <2>3. scan' \in [Janitor -> ScanState]
      BY <1>4, <2>2 DEF RescueTask, TypeOK
    <2>4. faults' \in 0..MaxFaults
      BY <1>4, PipelineAssumption DEF RescueTask, Fail, TypeOK
    <2> QED
      BY <1>4, <2>1, <2>3, <2>4 DEF RescueTask, TypeOK
  <1>5. CASE AbortScan(j)
    <2>1. RedisTypeOK' /\ Live' = Live /\ pending' = pending
      BY <1>1, <1>5, OtherEffect DEF AbortScan
    <2>2. faults' \in 0..MaxFaults
      BY <1>5, PipelineAssumption DEF AbortScan, Fail, TypeOK
    <2> QED
      BY <1>5, <2>1, <2>2 DEF AbortScan, TypeOK
  <1>6. ASSUME NEW t \in Task, DropOrphan(j, t)
        PROVE  TypeOK' /\ [Queue!Next]_<<pending, Live>>
    <2>1. RedisTypeOK' /\ Live' = Live /\ pending' = pending
      BY <1>1, <1>6, OtherEffect DEF DropOrphan
    <2>2. [scan[j] EXCEPT !.ids = @ \ {t}] \in ScanState
      BY <1>1 DEF ScanState
    <2>3. faults' \in 0..MaxFaults
      BY <1>6, PipelineAssumption DEF DropOrphan, Fail, TypeOK
    <2> QED
      BY <1>6, <2>1, <2>2, <2>3 DEF DropOrphan, TypeOK
  <1> QED
    BY <1>2, <1>3, <1>4, <1>5, <1>6 DEF ScanStep

\* So do the steps of a crawler process.
LEMMA CrawlerStepOK ==
    ASSUME TypeOK, NEW c \in Crawler,
           PopReplyLost(c) \/ Crash(c) \/ StopWorkers(c) \/ ProcessStep(c)
    PROVE  TypeOK' /\ [Queue!Next]_<<pending, Live>>
  <1> USE IdleTypes
  <1>1. RedisTypeOK /\ <<c, "boot">> \in Janitor
    BY DEF TypeOK, Janitor
  <1>2. CASE PopReplyLost(c)
    <2>1. RedisTypeOK' /\ Live' = Live /\ pending' = pending
      BY <1>1, <1>2, PopEffect DEF PopReplyLost
    <2>2. faults' \in 0..MaxFaults
      BY <1>2, PipelineAssumption DEF PopReplyLost, Fail, TypeOK
    <2> QED
      BY <1>2, <2>1, <2>2 DEF PopReplyLost, TypeOK
  <1>3. CASE Crash(c) \/ Exit(c)
    <2>1. RedisTypeOK' /\ Live' = Live /\ pending' = pending
      BY <1>1, <1>3, OtherEffect DEF Crash, Exit, ProcessGone
    <2>2. faults' \in 0..MaxFaults
      BY <1>3, PipelineAssumption DEF Crash, Exit, Fail, TypeOK
    <2>3. /\ crawler' \in [Crawler -> {"down", "boot", "up", "stopping"}]
          /\ slot' \in [Slot -> SlotState]
          /\ scan' \in [Janitor -> ScanState]
      BY <1>3 DEF Crash, Exit, ProcessGone, TypeOK
    <2> QED
      BY <2>1, <2>2, <2>3 DEF TypeOK
  <1>4. CASE StopWorkers(c)
    <2>1. RedisTypeOK' /\ Live' = Live /\ pending' = pending
      BY <1>1, <1>4, OtherEffect DEF StopWorkers
    <2>2. faults' \in 0..MaxFaults
      BY <1>4, PipelineAssumption DEF StopWorkers, Fail, TypeOK
    <2> QED
      BY <1>4, <2>1, <2>2 DEF StopWorkers, TypeOK
  <1>5. CASE Boot(c) \/ StartWorker(c)
    <2>1. RedisTypeOK' /\ Live' = Live /\ pending' = pending
      BY <1>1, <1>5, OtherEffect DEF Boot, StartWorker
    <2> QED
      BY <1>1, <1>5, <2>1 DEF Boot, StartWorker, TypeOK
  <1> QED
    BY <1>2, <1>3, <1>4, <1>5 DEF ProcessStep

\* So does the passing of time.
LEMMA TickOK ==
    ASSUME TypeOK, Tick
    PROVE  TypeOK' /\ Live' = Live /\ pending' = pending
  <1>1. RedisTypeOK' /\ Live' = Live /\ pending' = pending
    BY AgeEffect DEF Tick, TypeOK
  <1>2. \A a \in Age : Older(a) \in Age
    BY MaxAgeAssumption DEF Age, Older
  <1>3. slot' \in [Slot -> SlotState]
    <2>1. ASSUME NEW s \in Slot, slot[s].phase # "idle"
          PROVE  [slot[s] EXCEPT !.age = Older(@)] \in SlotState
      BY <1>2, <2>1, BusySlot DEF SlotState
    <2> QED
      BY <2>1 DEF Tick, TypeOK
  <1>4. scan' \in [Janitor -> ScanState]
    <2>1. ASSUME NEW j \in Janitor
          PROVE  [scan[j] EXCEPT !.age = Older(@),
                                 !.snap = [t \in DOMAIN @ |-> Older(@[t])],
                                 !.raw = OlderEntries(@)] \in ScanState
      <3>1. scan[j] \in ScanState
        BY DEF TypeOK
      <3>2. /\ Older(scan[j].age) \in Age
            /\ [t \in DOMAIN scan[j].snap |-> Older(scan[j].snap[t])] \in Hash
            /\ OlderEntries(scan[j].raw) \in Seq(Entry)
        BY <1>2, <3>1, HashType, OlderIds DEF ScanState
      <3> QED
        BY <3>1, <3>2 DEF ScanState
    <2> QED
      BY <2>1 DEF Tick, TypeOK
  <1> QED
    BY <1>1, <1>3, <1>4 DEF Tick, TypeOK

\* Every step of the pipeline keeps the types and is a step of the abstract queue
\* or leaves its state alone.
LEMMA StepOK ==
    TypeOK /\ [Next]_vars => TypeOK' /\ [Queue!Next]_<<pending, Live>>
  <1> SUFFICES ASSUME TypeOK, [Next]_vars
               PROVE  TypeOK' /\ [Queue!Next]_<<pending, Live>>
    OBVIOUS
  <1>1. RedisTypeOK
    BY DEF TypeOK
  <1>2. ASSUME NEW t \in Task, PushTask(t)
        PROVE  TypeOK' /\ [Queue!Next]_<<pending, Live>>
    <2>1. RedisTypeOK' /\ Live' = Live \cup {t}
      BY <1>1, <1>2, PushEffect DEF PushTask
    <2>2. Queue!Push(t)
      BY <1>2, <2>1 DEF Queue!Push, PushTask, PushTaskScript
    <2> QED
      BY <1>2, <2>1, <2>2 DEF PushTask, TypeOK, Queue!Next
  <1>3. ASSUME NEW t \in Deletable, DeleteTask(t)
        PROVE  TypeOK' /\ [Queue!Next]_<<pending, Live>>
    <2>1. t \in Task
      BY PipelineAssumption
    <2>2. RedisTypeOK' /\ Live' = Live /\ pending' = pending \ {t}
      BY <1>1, <1>3 DEF DeleteTask, SRemPending, RedisTypeOK, Live
    <2>3. Queue!Settle(t)
      BY <2>2 DEF Queue!Settle
    <2> QED
      BY <1>3, <2>1, <2>2, <2>3 DEF DeleteTask, TypeOK, Queue!Next
  <1>4. CASE PopResult
    <2>1. RedisTypeOK' /\ Live' = Live /\ pending' = pending
      BY <1>1, <1>4, OtherEffect DEF PopResult
    <2> QED
      BY <1>4, <2>1 DEF PopResult, TypeOK
  <1>5. CASE UNCHANGED vars
    BY <1>5 DEF vars, redisVars, TypeOK, RedisTypeOK, Live
  <1> QED
    BY <1>2, <1>3, <1>4, <1>5, SlotStepOK, ScanStepOK, CrawlerStepOK, TickOK DEF Next

-----------------------------------------------------------------------------
(* Theorems *)

\* The empty Redis and the stopped crawlers have their types; no task is live.
LEMMA InitOK == Init => TypeOK /\ Live = {}
  <1> SUFFICES ASSUME Init
               PROVE  TypeOK /\ Live = {}
    OBVIOUS
  <1>1. started \in Hash
    <2>1. started \in [{} -> Age]
      BY DEF Init, RedisInit
    <2> QED
      BY <2>1 DEF Hash
  <1>2. RedisTypeOK
    BY <1>1 DEF Init, RedisInit, RedisTypeOK
  <1>3. Live = {}
    BY DEF Init, RedisInit, Live, Ids
  <1> QED
    BY <1>2, <1>3, IdleTypes, PipelineAssumption DEF Init, TypeOK

\* Types: the entries in both lists, in every snapshot and in every worker's hands
\* stay entries of tasks the scheduler knows, and ages stay below saturation.
THEOREM TypeCorrect == Spec => []TypeOK
  <1>1. Init => TypeOK
    BY InitOK
  <1>2. TypeOK /\ [Next]_vars => TypeOK'
    BY StepOK
  <1> QED
    BY <1>1, <1>2, PTL DEF Spec

\* redisqueue implements the at-least-once queue its users rely on.
THEOREM ImplementsAtLeastOnce == Spec => AtLeastOnce
  <1>1. Init => Queue!Init
    BY InitOK DEF Init, RedisInit, Queue!Init
  <1>2. TypeOK /\ [Next]_vars => [Queue!Next]_<<pending, Live>>
    BY StepOK
  <1> QED
    BY <1>1, <1>2, TypeCorrect, PTL DEF Spec, AtLeastOnce, Queue!Spec

\* No pending task is ever without an entry, whatever crashes, restarts, lost
\* replies and janitors do.
THEOREM PendingNeverLost == Spec => []NoLostTask
  <1>1. Init => NoLostTask
    BY DEF Init, RedisInit, NoLostTask
  <1>2. NoLostTask /\ [Queue!Next]_<<pending, Live>> => NoLostTask'
    BY DEF NoLostTask, Queue!Next, Queue!Push, Queue!Settle
  <1>3. TypeOK /\ [Next]_vars => [Queue!Next]_<<pending, Live>>
    BY StepOK
  <1> QED
    BY <1>1, <1>2, <1>3, TypeCorrect, PTL DEF Spec

-----------------------------------------------------------------------------
(* The start times and the workers' clocks *)

\* RunningNotOverdue strengthened to what a step preserves: no slot outlives its
\* deadline, and the start time in Redis is never older than the run it covers.
StampInv ==
    \A s \in Slot :
        /\ slot[s].phase # "idle" => slot[s].age <= SlotDeadline
        /\ Working(s) /\ slot[s].task \in DOMAIN started =>
             started[slot[s].task] <= slot[s].age

\* Steps that change no slot and at most remove start times preserve StampInv.
LEMMA StampFrame ==
    ASSUME StampInv, slot' = slot,
           DOMAIN started' \subseteq DOMAIN started,
           \A t \in DOMAIN started' : started'[t] = started[t]
    PROVE  StampInv'
  BY DEF StampInv, Working

\* Ages are numbers up to the saturation.
LEMMA AgeNat == \A a \in Age : a \in Nat /\ a <= MaxAge
  BY MaxAgeAssumption DEF Age

\* The steps of a slot preserve StampInv: a pop or a stamp refreshes the start time
\* and the other steps leave it or delete it.
LEMMA StampSlotStep ==
    ASSUME TypeOK, StampInv, NEW r \in Slot, SlotStep(r)
    PROVE  StampInv'
  <1> SUFFICES ASSUME NEW s \in Slot
               PROVE  /\ slot'[s].phase # "idle" => slot'[s].age <= SlotDeadline
                      /\ Working(s)' /\ slot'[s].task \in DOMAIN started' =>
                           started'[slot'[s].task] <= slot'[s].age
    BY DEF StampInv
  <1>1. /\ SlotDeadline \in Nat /\ slot \in [Slot -> SlotState]
        /\ slot[s].age \in Nat /\ slot[r].age \in Nat
    BY MaxAgeAssumption, PipelineAssumption DEF TypeOK, SlotState, IdleSlot, Age
  <1>2. CASE PopTask(r)
    <2>1. CASE s = r
      BY <1>1, <1>2, <2>1 DEF PopTask, BRPopLPush, IdleSlot, Working
    <2>2. CASE s # r
      BY <1>1, <1>2, <2>2 DEF PopTask, BRPopLPush, StampInv, Working
    <2> QED
      BY <2>1, <2>2
  <1>3. CASE StampStarted(r)
    <2>1. \/ /\ started' = HSet(started, slot[r].task, 0)
             /\ slot' = [slot EXCEPT ![r].phase = "fetch", ![r].age = 0, ![r].stamped = TRUE]
          \/ /\ started' = started
             /\ slot' = [slot EXCEPT ![r].phase = "fetch", ![r].age = 0, ![r].stamped = FALSE]
      BY <1>3 DEF StampStarted, HSetStarted, redisVars
    <2>2. slot[r] \in [phase : {"stamp", "fetch", "push", "ack"},
                       task : Task, age : Age, stamped : BOOLEAN, completed : BOOLEAN]
      BY <1>3, BusySlot DEF StampStarted
    <2>3. CASE s = r
      <3>1. slot'[s].age = 0 /\ slot'[s].task = slot[r].task
        BY <1>1, <2>1, <2>2, <2>3
      <3>2. CASE started' = HSet(started, slot[r].task, 0)
        <4>1. started'[slot[r].task] = 0
          BY <3>2 DEF HSet
        <4> QED
          BY <1>1, <3>1, <4>1
      <3>3. CASE slot'[s].stamped = FALSE
        BY <1>1, <3>1, <3>3 DEF Working
      <3>4. started' = HSet(started, slot[r].task, 0) \/ slot'[s].stamped = FALSE
        BY <1>1, <2>1, <2>2, <2>3
      <3> QED
        BY <3>2, <3>3, <3>4
    <2>4. CASE s # r
      <3>1. slot'[s] = slot[s]
        BY <1>1, <2>1, <2>4
      <3>2. ASSUME Working(s), slot[s].task \in DOMAIN started'
            PROVE  started'[slot[s].task] <= slot[s].age
        <4>1. CASE /\ started' = HSet(started, slot[r].task, 0)
                   /\ slot[s].task = slot[r].task
          BY <1>1, <4>1 DEF HSet
        <4>2. CASE /\ started' = HSet(started, slot[r].task, 0)
                   /\ slot[s].task # slot[r].task
          BY <3>2, <4>2 DEF HSet, StampInv
        <4>3. CASE started' = started
          BY <3>2, <4>3 DEF StampInv
        <4> QED
          BY <2>1, <4>1, <4>2, <4>3
      <3> QED
        BY <3>1, <3>2 DEF StampInv, Working
    <2> QED
      BY <2>3, <2>4
  <1>4. CASE FetchDone(r) \/ FetchTimeout(r)
    <2>1. started' = started /\ slot[r].phase = "fetch"
      BY <1>4 DEF FetchDone, FetchTimeout, redisVars
    <2>2. CASE s = r
      <3>1. /\ slot'[s].task = slot[s].task /\ slot'[s].age = slot[s].age
            /\ slot'[s].stamped = slot[s].stamped
        BY <1>1, <1>4, <2>1, <2>2, BusySlot DEF FetchDone, FetchTimeout
      <3> QED
        BY <2>1, <2>2, <3>1 DEF StampInv, Working
    <2>3. CASE s # r
      <3>1. slot'[s] = slot[s]
        BY <1>1, <1>4, <2>3 DEF FetchDone, FetchTimeout
      <3> QED
        BY <2>1, <3>1 DEF StampInv, Working
    <2> QED
      BY <2>2, <2>3
  <1>5. CASE PushResult(r)
    <2>1. started' = started /\ slot[r].phase = "push"
      BY <1>5 DEF PushResult, LPushResult, redisVars
    <2>2. CASE s = r
      BY <1>1, <1>5, <2>1, <2>2 DEF PushResult, StampInv, Working, IdleSlot
    <2>3. CASE s # r
      BY <1>1, <1>5, <2>1, <2>3 DEF PushResult, StampInv, Working
    <2> QED
      BY <2>2, <2>3
  <1>6. CASE AckTask(r)
    <2>1. /\ DOMAIN started' \subseteq DOMAIN started
          /\ \A t \in DOMAIN started' : started'[t] = started[t]
      BY <1>6 DEF AckTask, AckTaskScript, HDel, redisVars
    <2>2. CASE s = r
      BY <1>1, <1>6, <2>2 DEF AckTask, Working, IdleSlot
    <2>3. CASE s # r
      BY <1>1, <1>6, <2>1, <2>3 DEF AckTask, StampInv, Working
    <2> QED
      BY <2>2, <2>3
  <1> QED
    BY <1>2, <1>3, <1>4, <1>5, <1>6 DEF SlotStep

\* So does the passing of time: a slot that may grow older is below its deadline,
\* and the start time of its task is at most one stamp older.
LEMMA StampTick ==
    ASSUME TypeOK, StampInv, Tick
    PROVE  StampInv'
  <1> SUFFICES ASSUME NEW s \in Slot
               PROVE  /\ slot'[s].phase # "idle" => slot'[s].age <= SlotDeadline
                      /\ Working(s)' /\ slot'[s].task \in DOMAIN started' =>
                           started'[slot'[s].task] <= slot'[s].age
    BY DEF StampInv
  <1>1. CASE slot[s].phase = "idle"
    BY <1>1 DEF Tick, Working
  <1>2. CASE slot[s].phase # "idle"
    <2>0. slot[s].age \in Age
      BY <1>2, BusySlot
    <2>1. /\ slot[s].age \in Nat /\ slot[s].age < SlotDeadline
          /\ SlotDeadline \in Nat /\ MaxAge \in Nat /\ slot[s].age <= MaxAge
      BY <1>2, <2>0, AgeNat, MaxAgeAssumption, PipelineAssumption DEF Tick
    <2>2. slot'[s] = [slot[s] EXCEPT !.age = Older(@)]
      BY <1>2 DEF Tick
    <2>3. /\ slot'[s].phase = slot[s].phase /\ slot'[s].task = slot[s].task
          /\ slot'[s].age = Older(slot[s].age) /\ slot'[s].stamped = slot[s].stamped
      BY <1>2, <2>2, BusySlot DEF Tick
    <2>4. Older(slot[s].age) <= SlotDeadline
      BY <2>1 DEF Older
    <2>5. DOMAIN started' = DOMAIN started
          /\ \A t \in DOMAIN started : started'[t] = Older(started[t]) /\ started[t] \in Nat
      BY HashType, AgeNat DEF Tick, AgeRedis, TypeOK, RedisTypeOK
    <2>6. \A a, b \in Nat : a <= b => Older(a) <= Older(b)
      BY MaxAgeAssumption DEF Older
    <2> QED
      BY <2>1, <2>3, <2>4, <2>5, <2>6 DEF StampInv, Working
  <1> QED
    BY <1>1, <1>2

\* A janitor that reads the start times never sees one that is overdue for a task some
\* worker is still busy with, unless that worker's own HSET was lost.
THEOREM RunningTaskNotOverdue == Spec => []RunningNotOverdue
  <1>1. Init => StampInv
    BY DEF Init, StampInv, Working, IdleSlot
  <1>2. TypeOK /\ StampInv /\ [Next]_vars => StampInv'
    <2> SUFFICES ASSUME TypeOK, StampInv, [Next]_vars
                 PROVE  StampInv'
      OBVIOUS
    <2>1. ASSUME NEW t \in Task, PushTask(t) \/ DeleteTask(t)
          PROVE  StampInv'
      BY <2>1, StampFrame DEF PushTask, PushTaskScript, DeleteTask, SRemPending
    <2>2. CASE PopResult \/ UNCHANGED vars
      BY <2>2, StampFrame DEF PopResult, BRPopResult, vars, redisVars
    <2>3. ASSUME NEW c \in Crawler,
                 PopReplyLost(c) \/ StopWorkers(c) \/ Boot(c) \/ StartWorker(c)
          PROVE  StampInv'
      BY <2>3, StampFrame
      DEF PopReplyLost, BRPopLPush, StopWorkers, Boot, StartWorker, redisVars
    <2>4. ASSUME NEW c \in Crawler, Crash(c) \/ Exit(c)
          PROVE  StampInv'
      <3>1. /\ started' = started
            /\ \A s \in Slot : slot'[s] = IdleSlot \/ slot'[s] = slot[s]
        BY <2>4 DEF Crash, Exit, ProcessGone, redisVars
      <3> QED
        BY <3>1 DEF StampInv, Working, IdleSlot
    <2>5. ASSUME NEW j \in Janitor, ScanStep(j)
          PROVE  StampInv'
      <3>1. /\ slot' = slot
            /\ DOMAIN started' \subseteq DOMAIN started
            /\ \A t \in DOMAIN started' : started'[t] = started[t]
        BY <2>5 DEF ScanStep, StartScan, ReadProcessing, RescueTask, RescueScript,
                    AbortScan, DropOrphan, HDelStarted, HDel, redisVars
      <3> QED
        BY <3>1, StampFrame
    <2> QED
      BY <2>1, <2>2, <2>3, <2>4, <2>5, StampSlotStep, StampTick, PipelineAssumption
      DEF Next, ProcessStep
  <1>3. TypeOK /\ StampInv => RunningNotOverdue
    <2> SUFFICES ASSUME TypeOK, StampInv, NEW s \in Slot, Working(s),
                        slot[s].task \in DOMAIN started
                 PROVE  started[slot[s].task] <= StartupThreshold
      BY DEF RunningNotOverdue
    <2>1. slot[s].age <= SlotDeadline /\ started[slot[s].task] <= slot[s].age
      BY DEF StampInv, Working
    <2>2. slot[s].age \in Age /\ started[slot[s].task] \in Age
      BY HashType, BusySlot DEF TypeOK, RedisTypeOK, Working
    <2> QED
      BY <2>1, <2>2, AgeNat, PipelineAssumption, ThresholdAssumption
  <1> QED
    BY <1>1, <1>2, <1>3, TypeCorrect, PTL DEF Spec
=============================================================================
