--------------------------- MODULE AccountsProofs ---------------------------
(***************************************************************************)
(* The task limit, the dedup keys and the verification of an account for   *)
(* any number of requests at a time, searches, rows, codes and failures.   *)
(***************************************************************************)
EXTENDS Accounts, FiniteSetTheorems, TLAPS

\* The requests that have counted the tasks of an account and have yet to insert one.
Pending(id) == {r \in Request : req[r].phase \in {"dedup", "insert"} /\ req[r].id = id}

\* TaskLimit with what is on its way: whoever counts adds itself to fewer than MaxTasks
\* tasks and to other requests only.
LimitInv ==
    \A id \in UserId :
        Cardinality(TasksOf(id)) + Cardinality(Pending(id))
            <= MaxTasks + Cardinality(Request) - 1

HoldsTask(t, url)   == tasks[t] # NoTask /\ tasks[t].url = url
HoldsInsert(r, url) == req[r].phase = "insert" /\ req[r].url = url

\* A search has one holder at most, a task or a request that has won its key, and while
\* it has one its key is set.
KeyOk(url) ==
    /\ \A t, u \in TaskId : HoldsTask(t, url) /\ HoldsTask(u, url) => t = u
    /\ \A r, q \in Request : HoldsInsert(r, url) /\ HoldsInsert(q, url) => r = q
    /\ \A t \in TaskId, r \in Request : ~(HoldsTask(t, url) /\ HoldsInsert(r, url))
    /\ Claimed(url) => url \in keys

KeyInv == \A url \in Url \ lapsed : KeyOk(url)

AccountInv == TypeOK /\ LimitInv /\ KeyInv

-----------------------------------------------------------------------------
(* The type invariant *)

LEMMA FailType ==
  ASSUME TypeOK, Fail
  PROVE  faults' \in 0..MaxFaults
  BY AccountsAssumption DEF TypeOK, Fail

LEMMA GotoType ==
  ASSUME TypeOK, NEW r \in Request, NEW st \in RequestState, Goto(r, st)
  PROVE  req' \in [Request -> RequestState] /\ \A q \in Request \ {r} : req'[q] = req[q]
         /\ req'[r] = st
  BY DEF TypeOK, Goto

LEMMA GotoEffect ==
  ASSUME TypeOK, NEW r \in Request, NEW st, Goto(r, st)
  PROVE  req'[r] = st /\ \A q \in Request \ {r} : req'[q] = req[q]
  BY DEF TypeOK, Goto

LEMMA RowType ==
  ASSUME NEW id \in UserId, NEW code \in 0..MaxCode, NEW recent \in BOOLEAN
  PROVE  Row(id, FALSE, code, recent) \in UserRow /\ Row(id, TRUE, NoCode, FALSE) \in UserRow
  BY DEF Row, UserRow

\* The parts of a request, phase by phase.
LEMMA RequestParts ==
  ASSUME TypeOK, NEW r \in Request
  PROVE  /\ req[r].phase = "issue" => req[r].id \in UserId /\ req[r].fresh \in BOOLEAN
         /\ req[r].phase = "mail" => /\ req[r].id \in UserId /\ req[r].fresh \in BOOLEAN
                                     /\ req[r].code \in 1..MaxCode
         /\ req[r].phase \in {"undo", "verify"} => req[r].id \in UserId
         /\ req[r].phase \in {"dedup", "insert"} => req[r].id \in UserId /\ req[r].url \in Url
         /\ req[r].phase \in {"delete", "free"} => req[r].task \in TaskId /\ req[r].url \in Url
<1>1. req[r] \in RequestState
  BY DEF TypeOK
<1> QED
  BY <1>1, SMTT(30) DEF RequestState

LEMMA UserParts ==
  ASSUME TypeOK, user # NoUser
  PROVE  /\ user.id \in UserId /\ user.verified \in BOOLEAN /\ user.code \in 0..MaxCode
         /\ user.recent \in BOOLEAN
         /\ user.verified => user.code = NoCode /\ ~user.recent
<1>1. CASE user \in [id : UserId, verified : {FALSE}, code : 0..MaxCode, recent : BOOLEAN]
  <2>1. user.id \in UserId /\ user.code \in 0..MaxCode /\ user.recent \in BOOLEAN
    BY <1>1
  <2>2. user.verified \in {FALSE}
    BY <1>1
  <2>3. ~user.verified /\ user.verified \in BOOLEAN
    BY <2>2, Zenon
  <2> QED
    BY <2>1, <2>3
<1>2. CASE user \in [id : UserId, verified : {TRUE}, code : {NoCode}, recent : {FALSE}]
  <2>1. user.id \in UserId /\ user.code = NoCode /\ user.verified \in {TRUE}
          /\ user.recent \in {FALSE}
    BY <1>2
  <2>2. NoCode \in 0..MaxCode
    BY AccountsAssumption DEF NoCode
  <2>3. user.verified \in BOOLEAN /\ user.recent \in BOOLEAN /\ ~user.recent
    BY <2>1, Zenon
  <2> QED
    BY <2>1, <2>2, <2>3
<1> QED
  BY <1>1, <1>2 DEF TypeOK, UserRow

LEMMA AuthType ==
  ASSUME TypeOK, NEW r \in Request, AuthStep(r)
  PROVE  TypeOK'
<1> USE AccountsAssumption
<1>1. CASE Register(r) \/ ResendCode(r) \/ VerifyEmail(r)
  <2>1. \E st \in RequestState : Goto(r, st)
    BY <1>1, UserParts DEF Register, ResendCode, VerifyEmail, RequestState
  <2> QED
    BY <1>1, <2>1, GotoType DEF TypeOK, Register, ResendCode, VerifyEmail, mailVars, taskVars
<1>2. CASE CreateUser(r)
  <2>1. CASE user = NoUser /\ users < MaxUser /\ users' = users + 1
               /\ user' = Row(users + 1, FALSE, NoCode, FALSE) /\ UNCHANGED faults
               /\ Goto(r, [phase |-> "issue", id |-> users + 1, fresh |-> TRUE])
    <3>1. users + 1 \in UserId /\ users' \in 0..MaxUser
      BY <2>1 DEF TypeOK, UserId
    <3>2. req' \in [Request -> RequestState]
      BY <2>1, <3>1, GotoType DEF RequestState
    <3>3. NoCode \in 0..MaxCode
      BY DEF NoCode
    <3>4. user' \in UserRow
      BY <2>1, <3>1, <3>3, RowType
    <3> QED
      BY <1>2, <2>1, <3>1, <3>2, <3>4 DEF TypeOK, CreateUser, mailVars, taskVars
  <2>2. CASE Done(r) /\ UNCHANGED <<user, users>> /\ (Fail \/ UNCHANGED faults)
    <3>1. req' \in [Request -> RequestState]
      BY <2>2, GotoType DEF Done, Idle, RequestState
    <3> QED
      BY <1>2, <2>2, <3>1, FailType DEF TypeOK, CreateUser, mailVars, taskVars
  <2> QED
    BY <1>2, <2>1, <2>2 DEF CreateUser
<1>3. ASSUME req[r].phase \in {"issue", "mail"}, GiveUp(r)
      PROVE  req' \in [Request -> RequestState]
  <2>1. \E st \in RequestState : Goto(r, st)
    BY <1>3, RequestParts DEF GiveUp, Done, Idle, RequestState
  <2> QED
    BY <2>1, GotoType
<1>4. CASE IssueCode(r)
  <2>1. codes' \in 0..MaxCode /\ codes + 1 \in 1..MaxCode /\ codes + 1 \in 0..MaxCode
    BY <1>4 DEF IssueCode, TypeOK
  <2>2. CASE /\ Save(req[r].id, FALSE, codes + 1, TRUE)
             /\ Goto(r, [phase |-> "mail", id |-> req[r].id, fresh |-> req[r].fresh,
                         code |-> codes + 1])
             /\ UNCHANGED faults
    <3>1. (IF user = NoUser THEN req[r].id ELSE user.id) \in UserId
      BY <1>4, UserParts, RequestParts DEF IssueCode
    <3>2. user' \in UserRow
      BY <2>1, <2>2, <3>1, RowType DEF Save
    <3>3. req' \in [Request -> RequestState]
      BY <1>4, <2>1, <2>2, RequestParts, GotoType DEF RequestState, IssueCode
    <3> QED
      BY <1>4, <2>1, <2>2, <3>2, <3>3 DEF TypeOK, IssueCode, taskVars
  <2>3. CASE Fail /\ GiveUp(r) /\ UNCHANGED user
    BY <1>3, <1>4, <2>1, <2>3, FailType DEF TypeOK, IssueCode, taskVars
  <2> QED
    BY <1>4, <2>2, <2>3 DEF IssueCode
<1>5. CASE MailCode(r)
  <2>1. CASE inbox' = inbox \cup {req[r].code} /\ Done(r) /\ UNCHANGED faults
    <3>1. inbox' \in SUBSET (1..MaxCode)
      BY <1>5, <2>1, RequestParts DEF MailCode, TypeOK
    <3>2. req' \in [Request -> RequestState]
      BY <2>1, GotoType DEF Done, Idle, RequestState
    <3> QED
      BY <1>5, <2>1, <3>1, <3>2 DEF TypeOK, MailCode, taskVars
  <2>2. CASE Fail /\ GiveUp(r) /\ UNCHANGED inbox
    BY <1>3, <1>5, <2>2, FailType DEF TypeOK, MailCode, taskVars
  <2> QED
    BY <1>5, <2>1, <2>2 DEF MailCode
<1>6. CASE UndoCreate(r)
  <2>1. req' \in [Request -> RequestState]
    BY <1>6, GotoType DEF Done, Idle, RequestState, UndoCreate
  <2>2. user' \in UserRow \cup {NoUser} /\ faults' \in 0..MaxFaults
    BY <1>6, FailType DEF UndoCreate, TypeOK
  <2> QED
    BY <1>6, <2>1, <2>2 DEF TypeOK, UndoCreate, mailVars, taskVars
<1>7. CASE SaveVerified(r)
  <2>1. req' \in [Request -> RequestState]
    BY <1>7, GotoType DEF Done, Idle, RequestState, SaveVerified
  <2>2. (IF user = NoUser THEN req[r].id ELSE user.id) \in UserId
    BY <1>7, UserParts, RequestParts DEF SaveVerified
  <2>3. NoCode \in 0..MaxCode /\ FALSE \in BOOLEAN
    BY DEF NoCode
  <2>4. user' \in UserRow \cup {NoUser} /\ faults' \in 0..MaxFaults
    BY <1>7, <2>2, <2>3, RowType, FailType DEF SaveVerified, Save, TypeOK
  <2> QED
    BY <1>7, <2>1, <2>4 DEF TypeOK, SaveVerified, mailVars, taskVars
<1> QED
  BY <1>1, <1>2, <1>4, <1>5, <1>6, <1>7 DEF AuthStep

LEMMA TaskType ==
  ASSUME TypeOK, NEW r \in Request, TaskStep(r)
  PROVE  TypeOK'
<1> USE AccountsAssumption
<1>0. Idle \in RequestState
  BY DEF Idle, RequestState
<1>1. CASE \E id \in UserId, url \in Url : CountTasks(r, id, url)
  BY <1>1, GotoType DEF TypeOK, CountTasks, RequestState, mailVars, taskVars
<1>2. CASE IsDuplicate(r)
  <2>1. req[r].id \in UserId /\ req[r].url \in Url
    BY <1>2, RequestParts DEF IsDuplicate
  <2>2. [phase |-> "insert", id |-> req[r].id, url |-> req[r].url] \in RequestState
    BY <2>1 DEF RequestState
  <2>3. req' \in [Request -> RequestState]
    BY <1>0, <1>2, <2>2, GotoType DEF IsDuplicate, Insert, Done
  <2>4. keys' \in SUBSET Url /\ lapsed' \in SUBSET Url /\ faults' \in 0..MaxFaults
    BY <1>2, <2>1, FailType DEF IsDuplicate, TypeOK
  <2> QED
    BY <1>2, <2>3, <2>4 DEF TypeOK, IsDuplicate, mailVars
<1>3. CASE CreateTask(r)
  <2>1. req[r].id \in UserId /\ req[r].url \in Url
    BY <1>3, RequestParts DEF CreateTask
  <2>2. req' \in [Request -> RequestState]
    BY <1>0, <1>3, GotoType DEF CreateTask, Done
  <2>3. ids' \in 0..MaxTask /\ faults' \in 0..MaxFaults
    BY <1>3, FailType DEF CreateTask, TypeOK
  <2>4. tasks' \in [TaskId -> [owner : UserId, url : Url] \cup {NoTask}]
    BY <1>3, <2>1 DEF CreateTask, TypeOK
  <2> QED
    BY <1>3, <2>2, <2>3, <2>4 DEF TypeOK, CreateTask, mailVars
<1>4. CASE \E id \in UserId, t \in TaskId : DeleteTask(r, id, t)
  <2> PICK id \in UserId, t \in TaskId : DeleteTask(r, id, t)
    BY <1>4
  <2>1. tasks[t].url \in Url
    BY DEF DeleteTask, TypeOK, NoTask, UserId
  <2>2. [phase |-> "delete", task |-> t, url |-> tasks[t].url] \in RequestState
    BY <2>1 DEF RequestState
  <2> QED
    BY <2>2, GotoType DEF TypeOK, DeleteTask, mailVars, taskVars
<1>5. CASE DeleteRow(r)
  <2>1. req[r].task \in TaskId /\ req[r].url \in Url
    BY <1>5, RequestParts DEF DeleteRow
  <2>2. [phase |-> "free", task |-> req[r].task, url |-> req[r].url] \in RequestState
    BY <2>1 DEF RequestState
  <2>3. req' \in [Request -> RequestState]
    BY <1>0, <1>5, <2>2, GotoType DEF DeleteRow, Done
  <2>4. tasks' \in [TaskId -> [owner : UserId, url : Url] \cup {NoTask}]
    BY <1>5 DEF DeleteRow, TypeOK
  <2> QED
    BY <1>5, <2>3, <2>4, FailType DEF TypeOK, DeleteRow, mailVars
<1>6. CASE FreeUrl(r)
  <2>1. req' \in [Request -> RequestState]
    BY <1>0, <1>6, GotoType DEF FreeUrl, Done
  <2>2. req[r].url \in Url
    BY <1>6, RequestParts DEF FreeUrl
  <2>3. keys' \in SUBSET Url /\ lapsed' \in SUBSET Url
    BY <1>6, <2>2 DEF FreeUrl, DropKey, TypeOK
  <2> QED
    BY <1>6, <2>1, <2>3, FailType DEF TypeOK, FreeUrl, mailVars
<1> QED
  BY <1>1, <1>2, <1>3, <1>4, <1>5, <1>6 DEF TaskStep

LEMMA TypeStep == TypeOK /\ [Next]_vars => TypeOK'
<1> SUFFICES ASSUME TypeOK, [Next]_vars PROVE TypeOK'
  OBVIOUS
<1>1. CASE Login
  BY <1>1, UserParts DEF Login, TypeOK, mailVars, taskVars
<1>2. CASE CodeExpires
  <2>1. user' \in UserRow
    <3>1. NoCode \in 0..MaxCode
      BY AccountsAssumption DEF NoCode
    <3>2. user # NoUser /\ ~user.verified
      BY <1>2, UserParts DEF CodeExpires
    <3>3. user.verified = FALSE
      BY <3>2, UserParts
    <3> QED
      BY <1>2, <3>1, <3>2, <3>3, UserParts, RowType DEF CodeExpires
  <2> QED
    BY <1>2, <2>1 DEF CodeExpires, TypeOK, mailVars, taskVars
<1>3. CASE \E id \in UserId, t \in TaskId, url \in Url : UpdateTask(id, t, url)
  BY <1>3 DEF UpdateTask, TypeOK, mailVars
<1>4. CASE \E id \in UserId : DeleteAccount(id)
  BY <1>4 DEF DeleteAccount, TypeOK, mailVars
<1>5. CASE \E url \in Url : KeyExpires(url)
  BY <1>5 DEF KeyExpires, DropKey, TypeOK, mailVars
<1>6. CASE UNCHANGED vars
  BY <1>6 DEF TypeOK, vars, mailVars, taskVars
<1> QED
  BY <1>1, <1>2, <1>3, <1>4, <1>5, <1>6, AuthType, TaskType DEF Next

-----------------------------------------------------------------------------
(* The limit *)

LEMMA Finite ==
  /\ IsFiniteSet(TaskId)
  /\ \A S \in SUBSET TaskId : IsFiniteSet(S) /\ Cardinality(S) \in Nat
  /\ \A S \in SUBSET Request : /\ IsFiniteSet(S) /\ Cardinality(S) \in Nat
                               /\ Cardinality(S) <= Cardinality(Request)
  /\ Cardinality(Request) \in Nat \ {0}
<1>1. IsFiniteSet(TaskId)
  BY FS_Interval, AccountsAssumption DEF TaskId
<1>2. \A S \in SUBSET TaskId : IsFiniteSet(S) /\ Cardinality(S) \in Nat
  BY <1>1, FS_Subset, FS_CardinalityType
<1>3. \A S \in SUBSET Request : /\ IsFiniteSet(S) /\ Cardinality(S) \in Nat
                               /\ Cardinality(S) <= Cardinality(Request)
  BY FS_Subset, FS_CardinalityType, AccountsAssumption
<1>4. Cardinality(Request) \in Nat \ {0}
  BY FS_EmptySet, FS_CardinalityType, AccountsAssumption
<1> QED
  BY <1>1, <1>2, <1>3, <1>4

\* An account that gets neither a task nor a request on its way to one.
LEMMA LimitKept ==
  ASSUME TypeOK, LimitInv, NEW id \in UserId,
         TasksOf(id)' \subseteq TasksOf(id), Pending(id)' \subseteq Pending(id)
  PROVE  Cardinality(TasksOf(id)') + Cardinality(Pending(id)')
            <= MaxTasks + Cardinality(Request) - 1
<1>1. TasksOf(id) \in SUBSET TaskId /\ Pending(id) \in SUBSET Request
  BY DEF TasksOf, Pending
<1>2. Cardinality(TasksOf(id)') <= Cardinality(TasksOf(id))
  BY <1>1, Finite, FS_Subset
<1>3. Cardinality(Pending(id)') <= Cardinality(Pending(id))
  BY <1>1, Finite, FS_Subset
<1>4. TasksOf(id)' \in SUBSET TaskId /\ Pending(id)' \in SUBSET Request
  BY <1>1
<1> QED
  BY <1>1, <1>2, <1>3, <1>4, Finite, AccountsAssumption DEF LimitInv

\* Every step but a count and an insertion.
LEMMA LimitFrame ==
  ASSUME TypeOK, LimitInv,
         \A t \in TaskId : tasks'[t].owner \in UserId => tasks'[t].owner = tasks[t].owner,
         \A r \in Request : req'[r].phase \in {"dedup", "insert"}
            => req[r].phase \in {"dedup", "insert"} /\ req'[r].id = req[r].id
  PROVE  LimitInv'
<1> SUFFICES ASSUME NEW id \in UserId
             PROVE  Cardinality(TasksOf(id)') + Cardinality(Pending(id)')
                      <= MaxTasks + Cardinality(Request) - 1
  BY DEF LimitInv
<1>1. TasksOf(id)' \subseteq TasksOf(id)
  BY DEF TasksOf
<1>2. Pending(id)' \subseteq Pending(id)
  BY DEF Pending
<1> QED
  BY <1>1, <1>2, LimitKept

LEMMA CountLimit ==
  ASSUME TypeOK, LimitInv, NEW r \in Request, NEW id \in UserId, NEW url \in Url,
         CountTasks(r, id, url)
  PROVE  LimitInv'
<1> SUFFICES ASSUME NEW i \in UserId
             PROVE  Cardinality(TasksOf(i)') + Cardinality(Pending(i)')
                      <= MaxTasks + Cardinality(Request) - 1
  BY DEF LimitInv
<1>1. tasks' = tasks /\ TasksOf(i)' = TasksOf(i)
  BY DEF CountTasks, taskVars, TasksOf
<1>2. \A q \in Request \ {r} : req'[q] = req[q]
  BY DEF CountTasks, Goto, TypeOK
<1>3. req'[r].id = id
  BY DEF CountTasks, Goto, TypeOK
<1>4. CASE i = id
  <2>1. TasksOf(i) \in SUBSET TaskId /\ Pending(i)' \in SUBSET Request
    BY DEF TasksOf, Pending
  <2>2. Cardinality(TasksOf(i)) < MaxTasks
    BY <1>4 DEF CountTasks
  <2> QED
    BY <1>1, <2>1, <2>2, Finite, AccountsAssumption
<1>5. CASE i # id
  <2>1. Pending(i)' \subseteq Pending(i)
    BY <1>2, <1>3, <1>5 DEF Pending
  <2> QED
    BY <1>1, <2>1, LimitKept
<1> QED
  BY <1>4, <1>5

LEMMA InsertLimit ==
  ASSUME TypeOK, LimitInv, NEW r \in Request, CreateTask(r), tasks' # tasks
  PROVE  LimitInv'
<1> DEFINE id == req[r].id
           new == ids + 1
<1> SUFFICES ASSUME NEW i \in UserId
             PROVE  Cardinality(TasksOf(i)') + Cardinality(Pending(i)')
                      <= MaxTasks + Cardinality(Request) - 1
  BY DEF LimitInv
<1>1. /\ tasks' = [tasks EXCEPT ![new] = [owner |-> id, url |-> req[r].url]]
      /\ ids < MaxTask
  BY DEF CreateTask
<1>2. new \in TaskId
  BY <1>1, AccountsAssumption DEF TaskId, TypeOK
<1>3. /\ \A q \in Request \ {r} : req'[q] = req[q]
      /\ req'[r].phase = "idle"
  BY DEF CreateTask, Done, Goto, Idle, TypeOK
<1>4. /\ \A t \in TaskId \ {new} : tasks'[t] = tasks[t]
      /\ tasks'[new].owner = id
  BY <1>1, <1>2 DEF TypeOK
<1>5. Pending(i)' \subseteq Pending(i) \ {r}
  BY <1>3 DEF Pending
<1>6. TasksOf(i) \in SUBSET TaskId /\ Pending(i) \in SUBSET Request
  BY DEF TasksOf, Pending
<1>7. CASE i = id
  <2>1. r \in Pending(i)
    BY <1>7 DEF Pending, CreateTask
  <2>2. Cardinality(Pending(i) \ {r}) = Cardinality(Pending(i)) - 1
    BY <1>6, <2>1, Finite, FS_RemoveElement
  <2>3. Cardinality(Pending(i)') <= Cardinality(Pending(i) \ {r})
    <3>1. Pending(i) \ {r} \in SUBSET Request
      BY <1>6
    <3> QED
      BY <1>5, <3>1, Finite, FS_Subset
  <2>4. TasksOf(i)' \subseteq TasksOf(i) \cup {new}
    BY <1>4 DEF TasksOf
  <2>5. /\ IsFiniteSet(TasksOf(i) \cup {new})
        /\ Cardinality(TasksOf(i) \cup {new}) <= Cardinality(TasksOf(i)) + 1
    <3>1. IsFiniteSet(TasksOf(i)) /\ Cardinality(TasksOf(i)) \in Nat
      BY <1>6, Finite
    <3>2. /\ IsFiniteSet(TasksOf(i) \cup {new})
          /\ Cardinality(TasksOf(i) \cup {new}) =
               IF new \in TasksOf(i) THEN Cardinality(TasksOf(i))
               ELSE Cardinality(TasksOf(i)) + 1
      BY <3>1, FS_AddElement
    <3> QED
      BY <3>1, <3>2
  <2>6. Cardinality(TasksOf(i)') <= Cardinality(TasksOf(i) \cup {new})
    BY <2>4, <2>5, FS_Subset
  <2>7. /\ TasksOf(i)' \in SUBSET TaskId /\ Pending(i)' \in SUBSET Request
        /\ TasksOf(i) \cup {new} \in SUBSET TaskId
    BY <1>2, <1>5, <1>6, <2>4
  <2>8. Cardinality(TasksOf(i)') <= Cardinality(TasksOf(i)) + 1
    BY <1>6, <2>5, <2>6, <2>7, Finite
  <2>9. Cardinality(Pending(i)') <= Cardinality(Pending(i)) - 1
    BY <2>2, <2>3
  <2> QED
    BY <1>6, <2>7, <2>8, <2>9, Finite, AccountsAssumption DEF LimitInv
<1>8. CASE i # id
  <2>1. TasksOf(i)' \subseteq TasksOf(i)
    BY <1>4, <1>8 DEF TasksOf
  <2> QED
    BY <1>5, <2>1, LimitKept
<1> QED
  BY <1>7, <1>8

\* What an auth step does to the requests and leaves of the tasks.
LEMMA AuthFrame ==
  ASSUME TypeOK, NEW r \in Request, AuthStep(r)
  PROVE  /\ UNCHANGED <<tasks, keys, lapsed>>
         /\ \A q \in Request \ {r} : req'[q] = req[q]
         /\ req'[r].phase \notin {"dedup", "insert"}
<1>1. UNCHANGED <<tasks, keys, lapsed>>
  BY DEF AuthStep, Register, CreateUser, ResendCode, IssueCode, MailCode, UndoCreate,
      VerifyEmail, SaveVerified, taskVars
<1>2. /\ \A q \in Request \ {r} : req'[q] = req[q]
      /\ req'[r].phase \notin {"dedup", "insert"}
  <2> DEFINE Frame == /\ \A q \in Request \ {r} : req'[q] = req[q]
                      /\ req'[r].phase \notin {"dedup", "insert"}
  <2>1. \A i, f, c :
           \/ Goto(r, [phase |-> "create"])
           \/ Goto(r, [phase |-> "issue", id |-> i, fresh |-> f])
           \/ Goto(r, [phase |-> "mail", id |-> i, fresh |-> f, code |-> c])
           \/ Goto(r, [phase |-> "undo", id |-> i])
           \/ Goto(r, [phase |-> "verify", id |-> i])
           => Frame
    BY GotoEffect
  <2>2. Done(r) => Frame
    BY GotoEffect DEF Done, Idle
  <2>3. GiveUp(r) => Frame
    BY <2>1, <2>2 DEF GiveUp
  <2> HIDE DEF Frame
  <2>4. Register(r) \/ ResendCode(r) \/ VerifyEmail(r) => Frame
    BY <2>1 DEF Register, ResendCode, VerifyEmail
  <2>5. CreateUser(r) \/ IssueCode(r) \/ MailCode(r) => Frame
    BY <2>1, <2>2, <2>3 DEF CreateUser, IssueCode, MailCode
  <2>6. UndoCreate(r) \/ SaveVerified(r) => Frame
    BY <2>2 DEF UndoCreate, SaveVerified
  <2> QED
    BY <2>4, <2>5, <2>6 DEF AuthStep, Frame
<1> QED
  BY <1>1, <1>2

LEMMA LimitStep == TypeOK /\ LimitInv /\ [Next]_vars => LimitInv'
<1> SUFFICES ASSUME TypeOK, LimitInv, [Next]_vars PROVE LimitInv'
  OBVIOUS
<1>1. CASE \E r \in Request : AuthStep(r)
  BY <1>1, AuthFrame, LimitFrame
<1>2. CASE \E r \in Request : TaskStep(r)
  <2> PICK r \in Request : TaskStep(r)
    BY <1>2
  <2>1. CASE \E id \in UserId, url \in Url : CountTasks(r, id, url)
    BY <2>1, CountLimit
  <2>2. CASE CreateTask(r) /\ tasks' # tasks
    BY <2>2, InsertLimit
  <2>3. CASE \/ CreateTask(r) /\ tasks' = tasks
             \/ IsDuplicate(r) \/ FreeUrl(r)
             \/ \E id \in UserId, t \in TaskId : DeleteTask(r, id, t)
    <3>1. tasks' = tasks
      BY <2>3 DEF IsDuplicate, FreeUrl, DeleteTask, taskVars
    <3>2. \A q \in Request : req'[q].phase \in {"dedup", "insert"}
            => req[q].phase \in {"dedup", "insert"} /\ req'[q].id = req[q].id
      BY <2>3 DEF CreateTask, IsDuplicate, Insert, FreeUrl, DeleteTask, Done, Goto, Idle,
          TypeOK
    <3> QED
      BY <3>1, <3>2, LimitFrame
  <2>4. CASE DeleteRow(r)
    <3>1. \A t \in TaskId : tasks'[t].owner \in UserId => tasks'[t].owner = tasks[t].owner
      BY <2>4, RequestParts DEF DeleteRow, TypeOK, NoTask, UserId
    <3>2. \A q \in Request : req'[q].phase \in {"dedup", "insert"}
            => req[q].phase \in {"dedup", "insert"} /\ req'[q].id = req[q].id
      BY <2>4 DEF DeleteRow, Done, Goto, Idle, TypeOK
    <3> QED
      BY <3>1, <3>2, LimitFrame
  <2> QED
    BY <2>1, <2>2, <2>3, <2>4 DEF TaskStep
<1>3. CASE \E id \in UserId, t \in TaskId, url \in Url : UpdateTask(id, t, url)
  BY <1>3, LimitFrame DEF UpdateTask, TypeOK
<1>4. CASE \E id \in UserId : DeleteAccount(id)
  BY <1>4, LimitFrame DEF DeleteAccount, TypeOK, NoTask, UserId
<1>5. CASE Login \/ CodeExpires \/ (\E url \in Url : KeyExpires(url)) \/ UNCHANGED vars
  BY <1>5, LimitFrame DEF Login, CodeExpires, KeyExpires, vars, taskVars
<1> QED
  BY <1>1, <1>2, <1>3, <1>4, <1>5 DEF Next

-----------------------------------------------------------------------------
(* The keys *)

\* A search that gets no holder and keeps its key.
LEMMA KeyFrame ==
  ASSUME NEW url \in Url, KeyOk(url),
         \A t \in TaskId : HoldsTask(t, url)' => HoldsTask(t, url),
         \A r \in Request : HoldsInsert(r, url)' => HoldsInsert(r, url),
         url \in keys => url \in keys'
  PROVE  KeyOk(url)'
  BY DEF KeyOk, Claimed, HoldsTask, HoldsInsert

\* A search without a holder may lose its key.
LEMMA KeyUnclaimed ==
  ASSUME NEW url \in Url,
         \A t \in TaskId : ~HoldsTask(t, url)',
         \A r \in Request : ~HoldsInsert(r, url)'
  PROVE  KeyOk(url)'
  BY DEF KeyOk, Claimed, HoldsTask, HoldsInsert

\* Every step that hands out no key, drops none, and gives no search a task.
LEMMA KeysKept ==
  ASSUME KeyInv, keys \subseteq keys', lapsed \subseteq lapsed',
         \A url \in Url \ lapsed' :
            /\ \A t \in TaskId : HoldsTask(t, url)' => HoldsTask(t, url)
            /\ \A r \in Request : HoldsInsert(r, url)' => HoldsInsert(r, url)
  PROVE  KeyInv'
  BY KeyFrame DEF KeyInv

LEMMA DropKeyStep ==
  ASSUME KeyInv, NEW url \in Url, DropKey(url), tasks' = tasks,
         \A r \in Request : req'[r].phase = "insert" => req'[r] = req[r]
  PROVE  KeyInv'
<1> SUFFICES ASSUME NEW u \in Url \ lapsed' PROVE KeyOk(u)'
  BY DEF KeyInv
<1>1. u \notin lapsed
  BY DEF DropKey
<1>2. /\ \A t \in TaskId : HoldsTask(t, u)' => HoldsTask(t, u)
      /\ \A r \in Request : HoldsInsert(r, u)' => HoldsInsert(r, u)
  BY DEF HoldsTask, HoldsInsert
<1>3. CASE u = url
  <2>1. ~Claimed(u)
    BY <1>3 DEF DropKey
  <2> QED
    BY <1>2, <2>1, KeyUnclaimed DEF Claimed, HoldsTask, HoldsInsert
<1>4. CASE u # url
  BY <1>1, <1>2, <1>4, KeyFrame DEF KeyInv, DropKey
<1> QED
  BY <1>3, <1>4

LEMMA SetKeyStep ==
  ASSUME TypeOK, KeyInv, NEW r \in Request, IsDuplicate(r)
  PROVE  KeyInv'
<1> DEFINE url == req[r].url
<1> SUFFICES ASSUME NEW u \in Url \ lapsed' PROVE KeyOk(u)'
  BY DEF KeyInv
<1>1. /\ u \notin lapsed /\ keys \subseteq keys' /\ tasks' = tasks
      /\ req[r].phase = "dedup"
  BY DEF IsDuplicate
<1>2. /\ \A q \in Request \ {r} : req'[q] = req[q]
      /\ HoldsInsert(r, u)' => u = url /\ url \notin keys /\ url \in keys'
  <2>1. \A q \in Request \ {r} : req'[q] = req[q]
    BY DEF IsDuplicate, Insert, Done, Goto, TypeOK
  <2>2. req'[r].phase = "insert" =>
           req'[r].url = url /\ (url \in lapsed' \/ (url \notin keys /\ url \in keys'))
    <3>1. Done(r) => req'[r].phase = "idle"
      BY GotoEffect DEF Done, Idle
    <3>2. Insert(r) => req'[r].url = url
      BY GotoEffect DEF Insert
    <3>3. \/ Done(r)
          \/ Insert(r) /\ (url \in lapsed' \/ (url \notin keys /\ url \in keys'))
      BY DEF IsDuplicate
    <3> QED
      BY <3>1, <3>2, <3>3
  <2> QED
    BY <2>1, <2>2 DEF HoldsInsert
<1>3. CASE HoldsInsert(r, u)'
  <2>1. ~Claimed(u)
    BY <1>1, <1>2, <1>3 DEF KeyInv, KeyOk
  <2>2. /\ \A t \in TaskId : ~HoldsTask(t, u)'
        /\ \A q \in Request \ {r} : ~HoldsInsert(q, u)'
    BY <1>1, <1>2, <2>1 DEF Claimed, HoldsTask, HoldsInsert
  <2>3. u \in keys'
    BY <1>2, <1>3
  <2> QED
    BY <2>2, <2>3 DEF KeyOk
<1>4. CASE ~HoldsInsert(r, u)'
  <2>1. /\ \A t \in TaskId : HoldsTask(t, u)' => HoldsTask(t, u)
        /\ \A q \in Request : HoldsInsert(q, u)' => HoldsInsert(q, u)
    BY <1>1, <1>2, <1>4 DEF HoldsTask, HoldsInsert
  <2> QED
    BY <1>1, <2>1, KeyFrame DEF KeyInv
<1> QED
  BY <1>3, <1>4

LEMMA InsertKeyStep ==
  ASSUME TypeOK, KeyInv, NEW r \in Request, CreateTask(r)
  PROVE  KeyInv'
<1> DEFINE url == req[r].url
           new == ids + 1
<1> SUFFICES ASSUME NEW u \in Url \ lapsed' PROVE KeyOk(u)'
  BY DEF KeyInv
<1>1. /\ u \notin lapsed /\ keys' = keys
      /\ \A q \in Request \ {r} : req'[q] = req[q]
      /\ req'[r].phase = "idle"
  BY DEF CreateTask, Done, Goto, Idle, TypeOK
<1>2. \A q \in Request : HoldsInsert(q, u)' => HoldsInsert(q, u) /\ q # r
  BY <1>1 DEF HoldsInsert
<1>3. KeyOk(u)
  BY <1>1 DEF KeyInv
<1>4. CASE tasks' = tasks
  <2>1. \A t \in TaskId : HoldsTask(t, u)' => HoldsTask(t, u)
    BY <1>4 DEF HoldsTask
  <2> QED
    BY <1>1, <1>2, <1>3, <2>1, KeyFrame
<1>5. CASE tasks' # tasks
  <2>1. /\ tasks' = [tasks EXCEPT ![new] = [owner |-> req[r].id, url |-> url]]
        /\ ids < MaxTask /\ HoldsInsert(r, url)
    BY <1>5 DEF CreateTask, HoldsInsert
  <2>2. \A t \in TaskId : HoldsTask(t, u)' => HoldsTask(t, u) \/ (t = new /\ u = url)
    <3>1. \A t \in TaskId \ {new} : tasks'[t] = tasks[t]
      BY <2>1 DEF TypeOK
    <3>2. new \in TaskId => tasks'[new].url = url
      BY <2>1 DEF TypeOK
    <3> SUFFICES ASSUME NEW t \in TaskId, HoldsTask(t, u)'
                 PROVE  HoldsTask(t, u) \/ (t = new /\ u = url)
      OBVIOUS
    <3>3. tasks'[t] # NoTask /\ tasks'[t].url = u
      BY DEF HoldsTask
    <3> QED
      BY <3>1, <3>2, <3>3 DEF HoldsTask
  <2>3. CASE u # url
    BY <1>1, <1>2, <1>3, <2>2, <2>3, KeyFrame
  <2>4. CASE u = url
    <3>1. \A t \in TaskId : HoldsTask(t, u)' => t = new
      BY <1>3, <2>1, <2>2, <2>4 DEF KeyOk
    <3>2. \A q \in Request : ~HoldsInsert(q, u)'
      BY <1>2, <1>3, <2>1, <2>4 DEF KeyOk
    <3>3. u \in keys'
      BY <1>1, <1>3, <2>1, <2>4 DEF KeyOk, Claimed, HoldsInsert
    <3> QED
      BY <3>1, <3>2, <3>3 DEF KeyOk
  <2> QED
    BY <2>3, <2>4
<1> QED
  BY <1>4, <1>5

LEMMA KeyStep == TypeOK /\ KeyInv /\ [Next]_vars => KeyInv'
<1> SUFFICES ASSUME TypeOK, KeyInv, [Next]_vars PROVE KeyInv'
  OBVIOUS
<1>1. CASE \E r \in Request : AuthStep(r)
  BY <1>1, AuthFrame, KeysKept DEF HoldsTask, HoldsInsert
<1>2. CASE \E r \in Request : TaskStep(r)
  <2> PICK r \in Request : TaskStep(r)
    BY <1>2
  <2>1. CASE \/ \E id \in UserId, url \in Url : CountTasks(r, id, url)
             \/ \E id \in UserId, t \in TaskId : DeleteTask(r, id, t)
    <3>1. UNCHANGED <<tasks, keys, lapsed>>
      BY <2>1 DEF CountTasks, DeleteTask, taskVars
    <3>2. \A q \in Request : req'[q].phase = "insert" => req'[q] = req[q]
      BY <2>1 DEF CountTasks, DeleteTask, Goto, TypeOK
    <3> QED
      BY <3>1, <3>2, KeysKept DEF HoldsTask, HoldsInsert
  <2>2. CASE DeleteRow(r)
    <3>1. UNCHANGED <<keys, lapsed>>
      BY <2>2 DEF DeleteRow
    <3>2. \A q \in Request : req'[q].phase = "insert" => req'[q] = req[q]
      BY <2>2 DEF DeleteRow, Done, Idle, Goto, TypeOK
    <3>3. \A t \in TaskId : tasks'[t] # NoTask => tasks'[t] = tasks[t]
      BY <2>2 DEF DeleteRow, TypeOK
    <3> QED
      BY <3>1, <3>2, <3>3, KeysKept DEF HoldsTask, HoldsInsert
  <2>3. CASE FreeUrl(r)
    <3>1. tasks' = tasks /\ req[r].url \in Url
      BY <2>3, RequestParts DEF FreeUrl
    <3>2. \A q \in Request : req'[q].phase = "insert" => req'[q] = req[q]
      BY <2>3 DEF FreeUrl, Done, Idle, Goto, TypeOK
    <3>3. CASE DropKey(req[r].url)
      BY <3>1, <3>2, <3>3, DropKeyStep
    <3>4. CASE UNCHANGED <<keys, lapsed>>
      BY <3>1, <3>2, <3>4, KeysKept DEF HoldsTask, HoldsInsert
    <3> QED
      BY <2>3, <3>3, <3>4 DEF FreeUrl
  <2> QED
    BY <2>1, <2>2, <2>3, SetKeyStep, InsertKeyStep DEF TaskStep
<1>3. CASE \E id \in UserId, t \in TaskId, url \in Url : UpdateTask(id, t, url)
  <2> PICK id \in UserId, t \in TaskId, url \in Url : UpdateTask(id, t, url)
    BY <1>3
  <2>1. \A s \in TaskId : tasks'[s] # tasks[s] => tasks'[s].url = url
    BY DEF UpdateTask, TypeOK
  <2>2. UNCHANGED <<req, keys>> /\ lapsed' = lapsed \cup {url}
    BY DEF UpdateTask
  <2> QED
    BY <2>1, <2>2, KeysKept DEF HoldsTask, HoldsInsert
<1>4. CASE \E id \in UserId : DeleteAccount(id)
  BY <1>4, KeysKept DEF DeleteAccount, HoldsTask, HoldsInsert
<1>5. CASE \E url \in Url : KeyExpires(url)
  BY <1>5, DropKeyStep DEF KeyExpires
<1>6. CASE Login \/ CodeExpires \/ UNCHANGED vars
  BY <1>6, KeysKept DEF Login, CodeExpires, vars, taskVars, HoldsTask, HoldsInsert
<1> QED
  BY <1>1, <1>2, <1>3, <1>4, <1>5, <1>6 DEF Next

-----------------------------------------------------------------------------
LEMMA InitialInv == Init => AccountInv
<1> SUFFICES ASSUME Init PROVE AccountInv
  OBVIOUS
<1>1. TypeOK
  BY AccountsAssumption DEF Init, TypeOK, RequestState, Idle
<1>2. LimitInv
  <2> SUFFICES ASSUME NEW id \in UserId
               PROVE  Cardinality(TasksOf(id)) + Cardinality(Pending(id))
                        <= MaxTasks + Cardinality(Request) - 1
    BY DEF LimitInv
  <2>1. TasksOf(id) = {}
    BY DEF Init, TasksOf, NoTask, UserId
  <2>2. Pending(id) = {}
    BY DEF Init, Pending, Idle
  <2> QED
    BY <2>1, <2>2, FS_EmptySet, Finite, AccountsAssumption
<1>3. KeyInv
  BY DEF Init, KeyInv, KeyOk, HoldsTask, HoldsInsert, Claimed, Idle
<1> QED
  BY <1>1, <1>2, <1>3 DEF AccountInv

LEMMA AccountInvariant == Spec => []AccountInv
<1>1. AccountInv /\ [Next]_vars => AccountInv'
  BY TypeStep, LimitStep, KeyStep DEF AccountInv
<1> QED
  BY <1>1, InitialInv, PTL DEF Spec

\* The rows, keys, tokens and requests of auth.go and server.go keep their types, with a
\* verified row holding no code.
THEOREM TypeCorrect == Spec => []TypeOK
  BY AccountInvariant, PTL DEF AccountInv

\* handleCreateTask's unguarded count lets an account have at most one task too many for
\* each other request served at the same time.
THEOREM LimitExceededByRequests == Spec => []TaskLimit
<1>1. AccountInv => TaskLimit
  <2> SUFFICES ASSUME AccountInv, NEW id \in UserId
               PROVE  Cardinality(TasksOf(id)) <= MaxTasks + Cardinality(Request) - 1
    BY DEF TaskLimit
  <2>1. TasksOf(id) \in SUBSET TaskId /\ Pending(id) \in SUBSET Request
    BY DEF TasksOf, Pending
  <2> QED
    BY <2>1, Finite, AccountsAssumption DEF AccountInv, LimitInv
<1> QED
  BY <1>1, AccountInvariant, PTL

\* Twins of a search come from a lost key only: SETNX settles every race of
\* handleCreateTask, and handleDeleteTask's DEL comes after the row is gone.
THEOREM SearchesNotDoubled == Spec => []OneTaskPerSearch
<1>1. AccountInv => OneTaskPerSearch
  <2> SUFFICES ASSUME AccountInv, NEW t \in TaskId, NEW u \in TaskId, tasks[t] # NoTask,
                      tasks[u] # NoTask, tasks[t].url = tasks[u].url, t # u,
                      tasks[t].url \notin lapsed
               PROVE  FALSE
    BY DEF OneTaskPerSearch
  <2>1. tasks[t].url \in Url
    BY DEF AccountInv, TypeOK
  <2> QED
    BY <2>1 DEF AccountInv, KeyInv, KeyOk, HoldsTask
<1> QED
  BY <1>1, AccountInvariant, PTL

\* The full-row Save of issueCode and the Delete of a failed registration undo a
\* verification only if they belong to a request that read the row before.
THEOREM VerifiedStaysVerified == Spec => VerificationSticks
<1>1. TypeOK /\ [Next]_vars =>
        [Settled => Settled' \/ \E id \in UserId : DeleteAccount(id)]_vars
  <2> SUFFICES ASSUME TypeOK, Next, Settled, ~\E id \in UserId : DeleteAccount(id)
               PROVE  Settled'
    OBVIOUS
  <2>0. user # NoUser /\ user.verified /\ \A r \in Request : ~Unsettled(r)
    BY DEF Settled
  <2>1. CASE \E r \in Request : AuthStep(r)
    <3> PICK r \in Request : AuthStep(r)
      BY <2>1
    <3>1. req[r].phase \notin {"issue", "undo"} /\ ~(req[r].phase = "mail" /\ req[r].fresh)
      BY <2>0 DEF Unsettled
    <3>2. \/ CreateUser(r) /\ user' = user /\ Done(r)
          \/ MailCode(r) /\ user' = user /\ Done(r)
          \/ SaveVerified(r) /\ Done(r)
      BY <2>0, <3>1, RequestParts DEF AuthStep, Register, ResendCode, VerifyEmail, CreateUser,
          IssueCode, MailCode, GiveUp, UndoCreate, SaveVerified, Idle
    <3>3. user' # NoUser /\ user'.verified
      BY <2>0, <3>2, UserParts DEF SaveVerified, Save, Row, NoUser
    <3>4. \A q \in Request : ~Unsettled(q)'
      BY <2>0, <3>2 DEF Unsettled, Done, Goto, Idle, TypeOK
    <3> QED
      BY <3>3, <3>4 DEF Settled
  <2>2. CASE \E r \in Request : TaskStep(r)
    <3> PICK r \in Request : TaskStep(r)
      BY <2>2
    <3>1. user' = user
      BY DEF TaskStep, CountTasks, IsDuplicate, CreateTask, DeleteTask, DeleteRow, FreeUrl
    <3>2. /\ \A q \in Request \ {r} : req'[q] = req[q]
          /\ req'[r].phase \notin {"issue", "undo", "mail"}
      BY DEF TaskStep, CountTasks, IsDuplicate, Insert, CreateTask, DeleteTask, DeleteRow,
          FreeUrl, Done, Idle, Goto, TypeOK
    <3> QED
      BY <2>0, <3>1, <3>2 DEF Settled, Unsettled
  <2>3. CASE CodeExpires
    BY <2>0, <2>3, UserParts DEF CodeExpires
  <2>4. CASE \/ Login \/ (\E url \in Url : KeyExpires(url))
             \/ \E id \in UserId, t \in TaskId, url \in Url : UpdateTask(id, t, url)
    BY <2>0, <2>4 DEF Login, KeyExpires, UpdateTask, Settled, Unsettled
  <2> QED
    BY <2>1, <2>2, <2>3, <2>4 DEF Next
<1> QED
  BY <1>1, TypeCorrect, PTL DEF Spec, VerificationSticks
=============================================================================
